------------------------------- MODULE Startup -------------------------------
(***************************************************************************)
(* From the command line to a service that runs: what main makes of its    *)
(* arguments, how the registry that a URL names is found among the         *)
(* implementations that are plugged in, which configuration is read, and   *)
(* how the log level follows it, also when the copy in Consul changes.     *)
(* Another thread of the application may plug in an implementation or free *)
(* a service of its own meanwhile.                                         *)
(* A text is a sequence of words; "=", ":" and "://" are words.            *)
(***************************************************************************)
EXTENDS Null, Integers, Sequences, SequencesExt, FiniteSets, FiniteSetsExt

CONSTANTS
  CommandLine,   \* sequences of what the user asks for: [option, form, value]; without
                 \* an option and with any value when the form is "raw"
  Environment,   \* values of EDGEX_REGISTRY, NULL if it is not set
  Port,          \* Port[w]: the number that the word w is
  UINT16_MAX,
  ConfigFile,    \* ConfigFile[<<dir, profile>>]: "good" or "broken", for the files there are
  Stored,        \* the keys that there are in the registry at first
  FileLevel,     \* the log level in the files
  Plugged,       \* what another thread plugs in: [scheme, impl]
  Level,         \* the levels by name, but for WrongLevel
  StoredLevel,   \* the level that the registry has at first
  MaxChanges     \* bound on the changes that others make there

WrongLevel == "loud"

(* Words; those of the program's own texts are among them.                 *)
Word ==
  STRING \cup {"-", "--", "=", "r", "n", "p", "c", "registry", "name", "profile", "confdir",
              "device-random", "res", "consul"}
Text == Seq(Word)
Option == {"registry", "name", "profile", "confdir"}
Form == {"short", "long", "short=", "long=", "raw"}
Impl == {"consul", Plugged.impl}
Regmaps == UNION {[d -> Impl] : d \in SUBSET {<<"consul">>, Plugged.scheme}}
Address == [host : Text, port : 0..UINT16_MAX]

ASSUME StartupAssumptions ==
  /\ \A c \in CommandLine :
       /\ c \in Seq(ToSet(c))
       /\ \A i \in DOMAIN c : /\ c[i].form \in Form /\ c[i].value \in Text
                              /\ c[i].form # "raw" => c[i].option \in Option
  /\ Environment \subseteq Text \cup {NULL}
  /\ Plugged.scheme \in Text /\ Stored \subseteq Seq(Text)
  /\ UINT16_MAX \in Nat /\ \A w \in DOMAIN Port : Port[w] \in Nat
  /\ StoredLevel \in Level \cup {WrongLevel, NULL}
  /\ NULL \notin Level /\ NULL \notin Nat /\ NULL \notin Text /\ NULL \notin Seq(Text)
  /\ NULL \notin Regmaps /\ NULL \notin [scheme : Text, impl : Impl]
  /\ NULL \notin [impl : Impl, location : Text \cup Address]

VARIABLES
  asked, env,    \* the command line and the environment
  reached,         \* how far main is
  n,             \* the argument it looks at
  opt,           \* its variables regURL, svcname, profile and confdir
  regmap,        \* the implementation plugged in under each scheme, or NULL
  impl,          \* a pointer into regmap: [scheme, impl], or NULL
  reg,           \* the registry: [impl, location], or NULL
  held,          \* what main has allocated: "service", "name", "location", "registry", "stopconfig"
  used,          \* the key or the file that the configuration was taken from,
                 \* and the key it was uploaded to
  consul,        \* the registry's keys, its index, and the level under KeyOf,
                 \* NULL if read_pairs refuses what there is
  watch,         \* poll_consul: [pc, url: the index it asks with, header: that
                 \* of the last answer]
  level,         \* [config: svc->config.logging.level, logger: that of the logger]
  setting,       \* setting[t]: the level that t is about to give to the logger
  other,         \* what the other thread does: "idle", "add", "free", "done"
  first,         \* history: first[s]: the implementation that s had first, since fini
  raced, finis,  \* history: two threads set the level; services freed
  missed         \* history: an answer broke off after its headers

startupVars ==
  <<asked, env, reached, n, opt, regmap, impl, reg, held, used, level, setting, other, first, raced, finis,
    consul, watch, missed>>
args == <<asked, env, n, opt>>
levels == <<level, setting, raced>>
registries == <<regmap, first, other, finis>>
watching == <<consul, watch, missed>>

----------------------------------------------------------------------------
(* The command line                                                        *)

Short == [registry |-> <<"-", "r">>, name |-> <<"-", "n">>, profile |-> <<"-", "p">>, confdir |-> <<"-", "c">>]
Long == [registry |-> <<"--", "registry">>, name |-> <<"--", "name">>,
         profile |-> <<"--", "profile">>, confdir |-> <<"--", "confdir">>]
InTheOrder == <<"registry", "name", "profile", "confdir">>
Help == {<<"-", "h">>, <<"--", "help">>}

(* How a request is written; "raw" stands for anything else.               *)
Written(a) ==
  CASE a.form = "short" -> <<Short[a.option], a.value>>
    [] a.form = "long" -> <<Long[a.option], a.value>>
    [] a.form = "short=" -> <<Short[a.option] \o <<"=">> \o a.value>>
    [] a.form = "long=" -> <<Long[a.option] \o <<"=">> \o a.value>>
    [] a.form = "raw" -> <<a.value>>

(* The port is opened and set up before the arguments are looked at; each  *)
(* of the three calls may fail.                                            *)
user_serial_init ==
  /\ reached = "port" /\ reached' \in {"args", "no port"}
  /\ UNCHANGED <<args, registries, impl, reg, held, used, levels, watching>>

argv == FlattenSeq([i \in DOMAIN asked |-> Written(asked[i])])

IndexOf(text, words) ==
  IF \E i \in DOMAIN text : text[i] \in words
  THEN CHOOSE i \in DOMAIN text : text[i] \in words /\ \A j \in 1..(i - 1) : text[j] \notin words
  ELSE 0

From(text, i) == SubSeq(text, i, Len(text))

NotThis == [is |-> "other"]
NoValue == [is |-> "exit"]
SetTo(value, next) == [is |-> "set", value |-> value, next |-> next]

Separate(pos, o) == argv[pos] \in {Short[o], Long[o]}
Separated(pos) == IF pos < Len(argv) THEN SetTo(argv[pos + 1], pos + 2) ELSE NoValue

(* A defective variant: the last "=" ends the name of the option.          *)
testArgLast(pos, o) ==
  LET arg == argv[pos]
      eq == IF IndexOf(arg, {"="}) = 0 THEN 0 ELSE Len(arg) + 1 - IndexOf(Reverse(arg), {"="}) IN
  CASE Separate(pos, o) -> Separated(pos)
    [] ~Separate(pos, o) /\ eq # 0 /\ \E name \in {Short[o], Long[o]} : IsPrefix(SubSeq(arg, 1, eq - 1), name) ->
         IF eq < Len(arg) THEN SetTo(From(arg, eq + 1), pos + 1) ELSE NoValue
    [] OTHER -> NotThis

(* With "=", the name of the option may be abbreviated, even to nothing.   *)
testArg(pos, o) ==
  LET arg == argv[pos]
      eq == IndexOf(arg, {"="}) IN
  CASE Separate(pos, o) -> Separated(pos)
    [] ~Separate(pos, o) /\ eq # 0 /\ \E name \in {Short[o], Long[o]} : IsPrefix(SubSeq(arg, 1, eq - 1), name) ->
         IF eq < Len(arg) THEN SetTo(From(arg, eq + 1), pos + 1) ELSE NoValue
    [] OTHER -> NotThis

ParseArg ==
  /\ reached = "args" /\ n <= Len(argv)
  /\ LET takers == {i \in DOMAIN InTheOrder : testArg(n, InTheOrder[i]).is # "other"}
         option == InTheOrder[Min(takers)]
         taken == testArg(n, option) IN
     IF argv[n] \in Help \/ takers = {} \/ taken.is = "exit"
     THEN reached' = "exit" /\ UNCHANGED <<n, opt>>
     ELSE n' = taken.next /\ opt' = [opt EXCEPT ![option] = taken.value] /\ UNCHANGED reached
  /\ UNCHANGED <<asked, env, registries, impl, reg, held, used, levels, watching>>

(* edgex_device_service_new needs a name.                                  *)
ServiceNew ==
  /\ reached = "args" /\ n > Len(argv)
  /\ IF opt.name = <<>> THEN reached' = "exit" /\ UNCHANGED held
     ELSE /\ reached' = IF opt.registry = NULL THEN "load" ELSE "url"
          /\ held' = held \cup {"service"}
  /\ UNCHANGED <<args, registries, impl, reg, used, levels, watching>>

----------------------------------------------------------------------------
(* Implementations of registries.  reginit and what follows it are two     *)
(* holds of the lock, and the implementation is used after the second.     *)

Consul == [s \in {<<"consul">>} |-> "consul"]

reginit(m) == IF m = NULL THEN Consul ELSE m

Reginit ==
  /\ regmap' = reginit(regmap)
  /\ first' = IF regmap = NULL THEN reginit(regmap) ELSE first

Failed(parts) == reached' = "failed" /\ held' = held \ parts

Colon == IndexOf(opt.registry, {"://"})
Scheme == SubSeq(opt.registry, 1, Colon - 1)

GetRegistry ==
  /\ reached = "url"
  /\ IF Colon = 0
     THEN Failed({}) /\ UNCHANGED registries
     ELSE reached' = "lookup" /\ held' = held \cup {"name"} /\ Reginit /\ UNCHANGED <<other, finis>>
  /\ UNCHANGED <<args, impl, reg, used, levels, watching>>

Lookup ==
  /\ reached = "lookup"
  /\ IF regmap = NULL THEN reached' = "crash" /\ UNCHANGED <<impl, held>>
     ELSE IF Scheme \in DOMAIN regmap
     THEN impl' = [scheme |-> Scheme, impl |-> regmap[Scheme]] /\ reached' = "parse" /\ UNCHANGED held
     ELSE Failed({"name"}) /\ UNCHANGED impl
  /\ UNCHANGED <<args, registries, reg, used, levels, watching>>

(* edgex_registry_parse_simple_url: the number is cut to 16 bits.          *)
parse_simple_url(location) ==
  LET colon == IndexOf(location, {":", "://"})
      port == From(location, colon + 1) IN
  IF colon # 0 /\ location[colon] = ":" /\ Len(port) = 1 /\ port[1] \in DOMAIN Port
  THEN [host |-> SubSeq(location, 1, colon - 1), port |-> Port[port[1]] % (UINT16_MAX + 1)]
  ELSE NULL

(* Other implementations take the location as it is.                       *)
Parser(i, location) == IF i = "consul" THEN parse_simple_url(location) ELSE location

ParseUrl ==
  /\ reached = "parse"
  /\ LET location == Parser(impl.impl, From(opt.registry, Colon + 1)) IN
     IF regmap = NULL THEN reached' = "crash" /\ UNCHANGED <<reg, held>>
     ELSE IF location = NULL THEN Failed({"name"}) /\ UNCHANGED reg
     ELSE /\ reg' = [impl |-> impl.impl, location |-> location]
          /\ held' = (held \ {"name"}) \cup {"location", "registry"} /\ reached' = "ping"
  /\ impl' = NULL /\ UNCHANGED <<args, registries, used, levels, watching>>

edgex_registry_free == reg' = NULL
Registry == {"location", "registry"}

(* edgex_consul_client_ping, as often as the loop has it.                  *)
PingRegistry ==
  /\ reached = "ping"
  /\ \/ reached' = "config" /\ held' = held \cup {"stopconfig"} /\ UNCHANGED reg
     \/ Failed(Registry) /\ edgex_registry_free
  /\ UNCHANGED <<args, registries, impl, used, levels, watching>>

----------------------------------------------------------------------------
(* The other thread.  It acts before the watcher does (a bound: nothing    *)
(* looks implementations up after that).                                   *)

(* edgex_registry_add_impl, in its two holds of the lock.                  *)
Plug(m) ==
  IF Plugged.scheme \in DOMAIN m THEN m
  ELSE [s \in DOMAIN m \cup {Plugged.scheme} |-> IF s = Plugged.scheme THEN Plugged.impl ELSE m[s]]

AddImpl ==
  /\ watch.pc = "none"
  /\ \/ other = "idle" /\ other' = "add" /\ Reginit /\ UNCHANGED reached
     \/ /\ other = "add" /\ other' = "done"
        /\ IF regmap = NULL THEN reached' = "crash" /\ UNCHANGED <<regmap, first>>
           ELSE /\ regmap' = Plug(regmap) /\ UNCHANGED reached
                /\ first' = [s \in DOMAIN regmap' |-> IF s \in DOMAIN first THEN first[s] ELSE Plugged.impl]
  /\ UNCHANGED <<args, impl, reg, held, used, levels, finis, watching>>

(* edgex_device_service_free of another service ends with                  *)
(* edgex_registry_fini, which forgets the implementations of all.          *)
FreeOther ==
  /\ watch.pc = "none" /\ other = "idle" /\ other' = "done"
  /\ regmap' = NULL /\ first' = NULL /\ finis' = finis + 1
  /\ UNCHANGED <<args, reached, impl, reg, held, used, levels, watching>>

----------------------------------------------------------------------------
(* The configuration                                                       *)

KeyOf == IF opt.profile = <<>> THEN <<opt.name>> ELSE <<opt.name, opt.profile>>
DirOf == IF opt.confdir = <<>> THEN <<"res">> ELSE opt.confdir

(* edgex_config_setloglevel: the first part stores the level and sets the  *)
(* logger to INFO for one message, the second gives it the level.          *)
SetLevel(t, l) ==
  IF l \in Level /\ l # level.config
  THEN /\ level' = [config |-> l, logger |-> "INFO"] /\ setting' = [setting EXCEPT ![t] = l]
       /\ raced' = (raced \/ \E u \in DOMAIN setting : setting[u] # NULL)
  ELSE UNCHANGED levels

LevelSet(t) ==
  /\ setting[t] # NULL /\ level' = [level EXCEPT !.logger = setting[t]]
  /\ setting' = [setting EXCEPT ![t] = NULL]
  /\ UNCHANGED <<args, reached, registries, impl, reg, held, used, raced, watching>>

(* What edgex_device_populateConfig and _populateConfigNV allocate, and     *)
(* what is freed with the service.                                         *)
FromPairs == {"strings", "labels", "driverconf"}
FromFile == FromPairs \cup {"watchers"}
edgex_device_freeConfig(blocks) == blocks \ {"strings", "labels", "driverconf", "watchers", "profilesdir"}

(* edgex_registry_get_config, which starts the watcher, and                *)
(* edgex_device_populateConfigNV, which may fail.                          *)
GetConfig ==
  /\ reached = "config"
  /\ \/ /\ KeyOf \in consul.keys /\ consul.level # NULL
        /\ \/ reached' = "start" /\ used' = [used EXCEPT !.key = KeyOf]
              /\ held' = held \cup FromPairs \cup {"profilesdir"} /\ UNCHANGED reg
           \/ reached' = "failed" /\ held' = (held \ Registry) \cup FromPairs /\ edgex_registry_free
              /\ UNCHANGED used
     \/ reached' = "load" /\ UNCHANGED <<held, reg, used>>
  /\ watch' = [watch EXCEPT !.pc = "ask"]
  /\ UNCHANGED <<args, registries, impl, levels, consul, missed>>

(* edgex_device_loadConfig and edgex_device_populateConfig.                *)
LoadFile ==
  /\ reached = "load"
  /\ LET file == <<DirOf, opt.profile>> IN
     IF file \in DOMAIN ConfigFile /\ ConfigFile[file] = "good"
     THEN /\ reached' = "start" /\ used' = [used EXCEPT !.file = file]
          /\ held' = held \cup FromFile \cup {"table", "profilesdir"}
          /\ SetLevel("main", FileLevel) /\ UNCHANGED reg
     ELSE Failed(Registry) /\ edgex_registry_free /\ UNCHANGED <<used, levels>>
  /\ UNCHANGED <<args, registries, impl, watching>>

(* The end of edgex_device_service_start.                                  *)
Ended(last_) ==
  /\ reached' = last_ /\ held' = held \ (Registry \cup {"table"}) /\ edgex_registry_free

(* startConfigured, up to the upload of what was read from the file.       *)
ValidateConfig ==
  /\ reached = "start" /\ setting["main"] = NULL
  /\ \/ /\ reached' = IF reg # NULL /\ used.file # NULL THEN "upload" ELSE "services"
        /\ UNCHANGED <<held, reg>>
     \/ Ended("failed")
  /\ UNCHANGED <<args, registries, impl, used, levels, watching>>

(* edgex_consul_client_write_config composes the key of its own; that it   *)
(* fails does not say that nothing was written.                            *)
KeyToWrite == <<opt.name>> \o IF opt.profile # <<>> THEN <<opt.profile>> ELSE <<>>

PutConfig ==
  /\ reached = "upload"
  /\ \/ consul' = [keys |-> consul.keys \cup {KeyToWrite}, index |-> consul.index + 1, level |-> level.config]
     \/ UNCHANGED consul
  /\ \/ reached' = "services" /\ consul' # consul
        /\ used' = [used EXCEPT !.upload = KeyToWrite] /\ UNCHANGED <<held, reg>>
     \/ Ended("failed") /\ UNCHANGED used
  /\ UNCHANGED <<args, registries, impl, levels, watch, missed>>

(* The rest of the start, up to the ping handler and the registration;     *)
(* each may fail.                                                          *)
StartServices ==
  /\ reached = "services" /\ \E s \in {"running", "failed"} : Ended(s)
  /\ UNCHANGED <<args, registries, impl, used, levels, watching>>

edgex_device_service_stop ==
  /\ reached = "running" /\ reached' = "stopping"
  /\ UNCHANGED <<args, registries, impl, reg, held, used, levels, watching>>

(* edgex_device_service_free, after the pool's threads have ended, or when *)
(* the start has failed, and the program ends.                             *)
ServiceFree ==
  /\ \/ reached = "stopping" /\ watch.pc \in {"none", "done"}
     \/ reached = "failed"
  /\ setting["poll"] = NULL
  /\ reached' = "freed" /\ held' = edgex_device_freeConfig(held \ {"service", "stopconfig"})
  /\ regmap' = NULL /\ first' = NULL /\ finis' = finis + 1
  /\ watch' = [watch EXCEPT !.pc = "done"]
  /\ UNCHANGED <<args, impl, reg, used, levels, other, consul, missed>>

----------------------------------------------------------------------------
(* The watcher.  A request with an index is answered when there is a newer *)
(* one, or after some minutes.                                             *)

(* The index is asked for with the last one that was given.                *)
PollAsk ==
  /\ watch.pc = "ask" /\ setting["poll"] = NULL
  /\ watch' = [pc |-> "wait", url |-> IF watch.header = NULL THEN watch.url ELSE watch.header, header |-> NULL]
  /\ UNCHANGED <<args, reached, registries, impl, reg, held, used, levels, consul, missed>>

(* edgex_check_rsp_hdr stores the index of every answer that has one.      *)
edgex_check_rsp_hdr == watch' = [watch EXCEPT !.pc = "ask", !.header = consul.index]

(* edgex_device_updateConf, if the pairs can be read.                      *)
edgex_device_updateConf ==
  IF KeyOf \in consul.keys /\ consul.level # NULL THEN SetLevel("poll", consul.level) ELSE UNCHANGED levels

abort_callback == reached = "stopping"

(* A good answer; one that breaks off after its headers; none.             *)
PollAnswer ==
  /\ watch.pc = "wait" /\ ~abort_callback
  /\ \/ edgex_check_rsp_hdr /\ edgex_device_updateConf /\ UNCHANGED missed
     \/ edgex_check_rsp_hdr /\ missed' = TRUE /\ UNCHANGED levels
     \/ watch' = [watch EXCEPT !.pc = "ask"] /\ UNCHANGED <<levels, missed>>
  /\ UNCHANGED <<args, reached, registries, impl, reg, held, used, consul>>

PollEnds ==
  /\ watch.pc = "wait" /\ abort_callback
  /\ watch' = [watch EXCEPT !.pc = "done"]
  /\ UNCHANGED <<args, reached, registries, impl, reg, held, used, levels, consul, missed>>

(* Somebody changes what is under the key.                                 *)
Change ==
  /\ watch.pc \in {"ask", "wait"} /\ KeyOf \in consul.keys /\ consul.index < MaxChanges
  /\ \E l \in (Level \cup {WrongLevel, NULL}) \ {consul.level} :
       consul' = [consul EXCEPT !.index = @ + 1, !.level = l]
  /\ UNCHANGED <<args, reached, registries, impl, reg, held, used, levels, watch, missed>>

StartupInit ==
  /\ asked \in CommandLine /\ env \in Environment
  /\ reached = "port" /\ n = 1
  /\ opt = [registry |-> env, name |-> <<"device-random">>, profile |-> <<>>, confdir |-> <<>>]
  /\ regmap = NULL /\ impl = NULL /\ reg = NULL /\ held = {}
  /\ used = [key |-> NULL, file |-> NULL, upload |-> NULL]
  /\ consul = [keys |-> Stored, index |-> 0, level |-> StoredLevel]
  /\ watch = [pc |-> "none", url |-> NULL, header |-> NULL] /\ missed = FALSE
  /\ level = [config |-> "TRACE", logger |-> "INFO"] /\ setting = [t \in {"main", "poll"} |-> NULL]
  /\ other = "idle" /\ first = NULL /\ raced = FALSE /\ finis = 0

Over == reached \in {"exit", "no port", "crash", "freed"}

StartupNext ==
  \/ user_serial_init \/ ParseArg \/ ServiceNew \/ GetRegistry \/ Lookup \/ ParseUrl \/ PingRegistry
  \/ AddImpl \/ FreeOther
  \/ GetConfig \/ LoadFile \/ ValidateConfig \/ PutConfig \/ StartServices
  \/ edgex_device_service_stop \/ ServiceFree
  \/ PollAsk \/ PollAnswer \/ PollEnds \/ Change
  \/ \E t \in DOMAIN setting : LevelSet(t)

StartupSpec == StartupInit /\ [][StartupNext]_startupVars

----------------------------------------------------------------------------
(* Properties                                                              *)

Default == [registry |-> env, name |-> <<"device-random">>, profile |-> <<>>, confdir |-> <<>>]

WellFormed ==
  \A i \in DOMAIN asked :
    asked[i].form # "raw" /\ (asked[i].form \in {"short=", "long="} => asked[i].value # <<>>)

(* What the user wants of option o: what was said last.                    *)
Asked(o) ==
  LET said == {i \in DOMAIN asked : asked[i].option = o} IN
  IF said = {} THEN Default[o] ELSE asked[Max(said)].value

(* main takes the arguments as they are meant, in whatever form and order. *)
ArgumentsTaken ==
  WellFormed =>
    /\ reached = "exit" => Asked("name") = <<>>
    /\ reached \notin {"port", "no port", "args", "exit"} => \A o \in DOMAIN opt : opt[o] = Asked(o)

(* What is plugged in stays, the first under each scheme, and the registry *)
(* is the one the URL names, with the host and the port (of 16 bits) that  *)
(* it names.                                                               *)
RegistryAsNamed ==
  /\ regmap = first
  /\ reg # NULL =>
       /\ finis = 0 => reg.impl = first[Scheme]
       /\ reg.impl # "consul" => opt.registry = Scheme \o <<"://">> \o reg.location
       /\ reg.impl = "consul" =>
            \E w \in DOMAIN Port :
              /\ opt.registry = Scheme \o <<"://">> \o reg.location.host \o <<":", w>>
              /\ reg.location.port = Port[w] % (UINT16_MAX + 1)

(* The configuration is that of the name and the profile asked for, from   *)
(* the registry if it has one and from the directory otherwise; what is    *)
(* read from a file is put where the next start will look for it.          *)
Otherwise(value, default) == IF value = <<>> THEN default ELSE value

ConfiguredAsNamed ==
  /\ used.key # NULL => used.file = NULL
  /\ WellFormed /\ used.key # NULL =>
       used.key = IF Asked("profile") = <<>> THEN <<Asked("name")>>
                  ELSE <<Asked("name"), Asked("profile")>>
  /\ WellFormed /\ used.file # NULL =>
       used.file = <<Otherwise(Asked("confdir"), <<"res">>), Asked("profile")>>
  /\ used.upload # NULL => used.upload = KeyOf
  /\ reached = "running" /\ opt.registry # NULL /\ used.file # NULL => used.upload # NULL

(* The logger has the level of the configuration, once it was set and if   *)
(* no two threads set it at a time.                                        *)
LevelFollows ==
  ~raced /\ (\A t \in DOMAIN setting : setting[t] = NULL) =>
    level.logger = level.config \/ level = [config |-> "TRACE", logger |-> "INFO"]

(* While the watcher waits for the next change, every one before it has    *)
(* taken effect, if it can; not so if an answer broke off after its        *)
(* headers, whose index the watcher then asks with.                        *)
ChangesTaken ==
  /\ watch.pc = "wait" /\ watch.url = consul.index /\ ~missed
  /\ reached \in {"services", "running"} /\ consul.level \in Level
  => level.config = consul.level

(* Nothing of the start is left, and a look-up of implementations crashes  *)
(* only if the application frees a service at the time.                    *)
NothingLeft ==
  /\ reached = "crash" => finis > 0
  /\ reached \in {"running", "failed", "stopping"} =>
       held \subseteq FromFile \cup {"service", "stopconfig", "profilesdir"}
  /\ reached \in {"freed", "exit", "no port"} => held = {}

(* device-random.c main, registry.c, config.c: whatever the command line   *)
(* and the environment say, and whatever another thread plugs in or frees  *)
(* meanwhile, the service starts with the settings, the registry, the      *)
(* configuration and the log level that were asked for, or not at all, and *)
(* keeps nothing of the start; and later changes of the level arrive.      *)
StartedAsAsked ==
  ArgumentsTaken /\ RegistryAsNamed /\ ConfiguredAsNamed /\ LevelFollows /\ ChangesTaken /\ NothingLeft
=============================================================================
