------------------------------- MODULE Config -------------------------------
(***************************************************************************)
(* The configuration of a device service: the TOML file (config.c), the    *)
(* copy of it in Consul (consul.c), which later starts read instead, the   *)
(* endpoints of the core services, and the thread that watches the copy    *)
(* for a new log level.  Consul is modelled as the code uses it.           *)
(***************************************************************************)
EXTENDS Null, Integers, SequencesExt

CONSTANTS
  Owner,      \* the services, each with a configuration profile, that share
              \* the registry: device service names, "name;profile"
  InOrder,    \* the owners in the order of their keys
  Under,      \* Under[o]: the owners whose keys begin as the name of o does
  File,       \* File[o]: the table in the file of o
  Catalog,    \* the endpoints that the registry knows, by client
  Driver,     \* the keys of driver settings, with their prefix
  UINT16_MAX, UINT32_MAX,
  Garbled     \* a text that is no number

ASSUME OwnerAssumption ==
  /\ ToSet(InOrder) = Owner
  /\ Under \in [Owner -> SUBSET Owner] /\ \A o \in Owner : o \in Under[o]

VARIABLES
  registry,   \* the values in Consul, by <<owner, key>>
  running,    \* for every owner its service: [config, source], or NULL
  edited      \* the owners whose copy somebody has changed

configVars == <<registry, running, edited>>

----------------------------------------------------------------------------
(* A configuration is [strings, numbers, bools, labels, driverconf, level, *)
(* watchers, endpoints].  A label is the sequence of its parts between     *)
(* commas, and a string is NULL or not empty.                              *)

StringKeys ==
  {"Service/Host", "Service/StartupMsg", "Service/CheckInterval", "Device/InitCmd",
   "Device/InitCmdArgs", "Device/RemoveCmd", "Device/RemoveCmdArgs", "Device/ProfilesDir",
   "Logging/File"}

Uint16Keys == {"Service/Port"}

NumberKeys ==
  Uint16Keys \cup {"Service/Timeout", "Service/ConnectRetries", "Device/MaxCmdOps",
                   "Device/MaxCmdResultLen"}

Default ==
  [k \in {"Device/DataTransform", "Device/Discovery", "Device/SendReadingsOnChanged",
          "Logging/EnableRemote"} |-> k \in {"Device/DataTransform", "Device/Discovery"}]

Clients == {"Metadata", "Data", "Logging"}

Greatest16or32(key) == IF key \in Uint16Keys THEN UINT16_MAX ELSE UINT32_MAX

Fits(key, n) == 0 <= n /\ n <= Greatest16or32(key)

Entry(table, key, dflt) == IF key \in DOMAIN table THEN table[key] ELSE dflt

toml_rtos2(s) == IF s = "" THEN NULL ELSE s

(* The labels end at the first that is empty.                              *)
LabelsOf(labels) ==
  LET ends == {i \in DOMAIN labels : labels[i] = <<"">>} IN
  IF ends = {} THEN labels
  ELSE SubSeq(labels, 1, (CHOOSE i \in ends : \A j \in ends : i <= j) - 1)

(* Of a watcher, the name, the profile and the key must be there; of two   *)
(* watchers of one name the map keeps the later.                           *)
WatcherRight(w) == w.name # NULL /\ w.profile # NULL /\ w.key # NULL

WatchersOf(list) ==
  LET right == SelectSeq(list, WatcherRight)
      last(name) == CHOOSE i \in DOMAIN right :
        /\ right[i].name = name
        /\ \A j \in DOMAIN right : right[j].name = name => j <= i
  IN  [name \in {w.name : w \in ToSet(right)} |-> right[last(name)]]

(* edgex_device_populateConfig; what it reports is the error, if any.      *)
populateConfig(file) ==
  [config |->
     [strings |-> [k \in StringKeys |-> toml_rtos2(Entry(file.keys, k, ""))],
      numbers |-> [k \in NumberKeys |->
         LET n == Entry(file.keys, k, 0) IN IF Fits(k, n) THEN n ELSE 0],
      bools |-> [k \in DOMAIN Default |-> Entry(file.keys, k, Default[k])],
      labels |-> LabelsOf(file.labels),
      driverconf |-> Reverse(file.driver),
      level |-> file.level,
      watchers |-> WatchersOf(file.watchers),
      endpoints |-> [c \in Clients |-> Entry(file.clients, c, NULL)]],
   err |-> \/ \E k \in NumberKeys \cap DOMAIN file.keys : ~Fits(k, file.keys[k])
           \/ \E w \in ToSet(file.watchers) : ~WatcherRight(w)]

----------------------------------------------------------------------------
(* The pairs of the registry                                               *)

(* A value is a text: the sequence of its parts between commas.            *)
TextOf(v) == IF v = "" THEN <<>> ELSE <<v>>

Whole(v) == <<v>>

(* edgex_device_getConfig: a function from keys to values.  The labels     *)
(* become one text.                                                        *)
getConfig(c) ==
  LET set(keys, value(_)) == [k \in keys |-> value(k)]
      driver(k) == (CHOOSE p \in ToSet(c.driverconf) : p.name = k).value
  IN  set({k \in StringKeys : c.strings[k] # NULL}, LAMBDA k : TextOf(c.strings[k]))
        @@ set(NumberKeys, LAMBDA k : Whole(c.numbers[k]))
        @@ set(DOMAIN Default, LAMBDA k : Whole(c.bools[k]))
        @@ set({p.name : p \in ToSet(c.driverconf)}, LAMBDA k : TextOf(driver(k)))
        @@ ("Writable/LogLevel" :> Whole(c.level))
        @@ (IF c.labels = <<>> THEN <<>> ELSE "Service/Labels" :> FlattenSeq(c.labels))

(* write_config: one transaction.                                          *)
Written(owner, pairs) ==
  [k \in {<<owner, key>> : key \in DOMAIN pairs} |-> pairs[k[2]]] @@ registry

(* The recursive GET finds what begins as asked, and strchr cuts the owner *)
(* off; of two values for a key the program finds the later one.           *)
Visible(owner, key) ==
  SelectSeq(InOrder, LAMBDA o : o \in Under[owner] /\ <<o, key>> \in DOMAIN registry)

Found(owner) == {k \in DOMAIN registry : k[1] \in Under[owner]}

(* Consul has no text for an empty value, which read_pairs takes as a      *)
(* faulty response.                                                        *)
read_pairs(owner) ==
  IF Found(owner) = {} \/ \E k \in Found(owner) : registry[k] = <<>> THEN NULL
  ELSE [key \in {k[2] : k \in Found(owner)} |-> registry[<<Last(Visible(owner, key)), key>>]]

(* The value of a key that has one part.                                   *)
First(pairs, key, dflt) == IF key \in DOMAIN pairs THEN Head(pairs[key]) ELSE dflt

(* edgex_device_populateConfigNV.  A text that is no number counts as      *)
(* zero; the parts of the labels become labels, but for empty ones.  What  *)
(* the registry does not have stays as edgex_device_service_new made it.   *)
(* ignored: the keys that a defective variant does not look for.           *)
populate(pairs, ignored) ==
  LET number(k) == IF First(pairs, k, Garbled) = Garbled THEN 0 ELSE First(pairs, k, 0)
      driver == SetToSeq(Driver \cap DOMAIN pairs)
      parts == SelectSeq(Entry(pairs, "Service/Labels", <<>>), LAMBDA p : p # "")
  IN
  [config |->
     [strings |-> [k \in StringKeys |-> IF k \in ignored THEN NULL ELSE First(pairs, k, NULL)],
      numbers |-> [k \in NumberKeys |-> IF Fits(k, number(k)) THEN number(k) ELSE 0],
      bools |-> [k \in DOMAIN Default |-> First(pairs, k, Default[k])],
      labels |-> [i \in DOMAIN parts |-> <<parts[i]>>],
      driverconf |-> [i \in DOMAIN driver |-> [name |-> driver[i], value |-> Head(pairs[driver[i]])]],
      level |-> NULL, watchers |-> <<>>, endpoints |-> [c \in Clients |-> NULL]],
   err |-> \E k \in NumberKeys : ~Fits(k, number(k))]

populateNoMessage(pairs) == populate(pairs, {"Service/StartupMsg"})

populateConfigNV(pairs) == populate(pairs, {})

----------------------------------------------------------------------------
(* Starting and watching                                                   *)

(* The registry's endpoints take the place of the file's.                  *)
Queried(c) == [c EXCEPT !.endpoints = [x \in Clients |-> Entry(Catalog, x, @[x])]]

(* edgex_device_validateConfig                                             *)
Valid(c) == \A x \in {"Data", "Metadata"} :
  c.endpoints[x] # NULL /\ c.endpoints[x].host # NULL /\ c.endpoints[x].port # 0

(* From the registry when it has any pairs, whosever they are.             *)
StartFromRegistry(owner) ==
  LET read == populateConfigNV(read_pairs(owner)) IN
  /\ read_pairs(owner) # NULL
  /\ ~read.err /\ Valid(Queried(read.config))
  /\ running' = [running EXCEPT ![owner] = [config |-> Queried(read.config), source |-> "registry"]]
  /\ UNCHANGED <<registry, edited>>

(* From the file otherwise, which is then uploaded; a start whose upload   *)
(* seems to fail ends there.                                               *)
StartFromFile(owner) ==
  LET read == populateConfig(File[owner])
      config == Queried(read.config)
  IN
  /\ read_pairs(owner) = NULL
  /\ ~read.err /\ Valid(config)
  /\ registry' = Written(owner, getConfig(config))
  /\ edited' = edited \ {owner}
  /\ \/ running' = [running EXCEPT ![owner] = [config |-> config, source |-> "file"]]
     \/ UNCHANGED running

edgex_device_service_start(owner) ==
  running[owner] = NULL /\ (StartFromRegistry(owner) \/ StartFromFile(owner))

StopService(owner) ==
  /\ running[owner] # NULL /\ running' = [running EXCEPT ![owner] = NULL]
  /\ UNCHANGED <<registry, edited>>

(* poll_consul with edgex_device_updateConf: of what has changed only the  *)
(* log level is taken over.                                                *)
poll_consul(owner) ==
  /\ running[owner] # NULL /\ read_pairs(owner) # NULL
  /\ running' = [running EXCEPT ![owner].config.level =
                   First(read_pairs(owner), "Writable/LogLevel", @)]
  /\ UNCHANGED <<registry, edited>>

(* Somebody gives a key of the registry another text.                      *)
ChangeKey(owner, key, text) ==
  /\ <<owner, key>> \in DOMAIN registry
  /\ registry' = [registry EXCEPT ![<<owner, key>>] = text]
  /\ edited' = edited \cup {owner}
  /\ UNCHANGED running

Changes ==
  {<<"Service/Port", Whole(UINT16_MAX + 1)>>, <<"Service/StartupMsg", TextOf("")>>,
   <<"Writable/LogLevel", Whole("ERROR")>>}

ConfigInit ==
  registry = <<>> /\ running = [o \in Owner |-> NULL] /\ edited = {}

ConfigNext == \E owner \in Owner :
  \/ edgex_device_service_start(owner) \/ StopService(owner) \/ poll_consul(owner)
  \/ \E c \in Changes : ChangeKey(owner, c[1], c[2])

----------------------------------------------------------------------------
(* edgex_device_handler_config: what GET /config says of a configuration.  *)
(* The logging endpoint is put where that of core-data was.                *)
handler_config(c) ==
  [settings |-> c.strings @@ c.numbers @@ c.bools @@ ("Service/Labels" :> c.labels),
   driver |-> ToSet(c.driverconf),
   clients |-> ("Data" :> c.endpoints["Logging"]) @@ ("Metadata" :> c.endpoints["Metadata"])]

(* Properties                                                              *)

(* Labels whose text is cut again where it was joined.                     *)
Rejoined(labels) ==
  LET parts == SelectSeq(FlattenSeq(labels), LAMBDA p : p # "")
  IN  [i \in DOMAIN parts |-> <<parts[i]>>]

SameReport(r1, r2) ==
  /\ \A k \in DOMAIN r1.settings \ {"Service/Labels"} : r1.settings[k] = r2.settings[k]
  /\ Rejoined(r1.settings["Service/Labels"]) = Rejoined(r2.settings["Service/Labels"])
  /\ r1.driver = r2.driver

Unshared(owner) == \A o \in Under[owner] \ {owner} : \A k \in DOMAIN registry : k[1] # o

(* A later start has the configuration of the file although it reads the   *)
(* registry, as GET /config shows it: every setting survives the way       *)
(* through getConfig, Consul and populateConfigNV, or is read from the     *)
(* file again.  It may be that somebody has changed the registry, or that  *)
(* another owner's keys are in sight.                                      *)
ConfigSurvives ==
  \A owner \in Owner :
    running[owner] # NULL /\ owner \notin edited /\ Unshared(owner) =>
      SameReport(handler_config(running[owner].config),
                 handler_config(populateConfig(File[owner]).config))
=============================================================================
