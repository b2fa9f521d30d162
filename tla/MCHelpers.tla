------------------------------ MODULE MCHelpers ------------------------------
EXTENDS Values, StringMap, DataSync, Rewriting, Config, Wire, Http, FiniteSets

CONSTANTS ka, kb, kc, kd

VARIABLE active     \* the machine that runs; the others rest

Int3 == [kind |-> "int", bits |-> 3, signed |-> TRUE]
Uint3 == [kind |-> "int", bits |-> 3, signed |-> FALSE]
Int4 == [kind |-> "int", bits |-> 4, signed |-> TRUE]
Uint4 == [kind |-> "int", bits |-> 4, signed |-> FALSE]

Plain(type) ==
  [type |-> type, mask |-> NULL, shift |-> NULL, base |-> NULL, scale |-> NULL,
   offset |-> NULL, setMap |-> <<>>, getMap |-> <<>>, assertion |-> NULL, transform |-> TRUE]

(* Two widths, of which the wide one is that of the arithmetic.            *)
Integers_ ==
  [type : {Int3, Uint3}, mask : {NULL, 6}, shift : {NULL, 1, -1},
   base : {NULL, 2}, scale : {NULL, 0, 3}, offset : {NULL, 1},
   setMap : {<<>>}, getMap : {<<>>}, assertion : {NULL}, transform : {TRUE}]
  \cup
  [type : {Int4, Uint4}, mask : {NULL}, shift : {NULL, 1, -1},
   base : {NULL, 2}, scale : {NULL, 3, -1}, offset : {NULL, 1},
   setMap : {<<>>}, getMap : {<<>>}, assertion : {NULL}, transform : {TRUE}]

Pair(n, v) == [name |-> n, value |-> v]

ResourceDef ==
  {r \in Integers_ : r.mask # NULL => r.offset = NULL /\ r.scale \in {NULL, 3}} \cup
  {[Plain(Int3) EXCEPT !.assertion = 2], [Plain(Int4) EXCEPT !.transform = FALSE, !.scale = 2],
   [Plain([kind |-> "string", bits |-> 0, signed |-> FALSE]) EXCEPT
      !.setMap = <<Pair("on", "1"), Pair("off", "0")>>,
      !.getMap = <<Pair("1", "on"), Pair("0", "off")>>],
   Plain([kind |-> "binary", bits |-> 0, signed |-> FALSE]),
   Plain([kind |-> "float", bits |-> 4, signed |-> TRUE])}

NumberDef == {-17, -9, -8, 15, 16, 18} \cup -4..7
StringDef == {"on", "off", "1", "0", "else"}
Byte == {0, 107, 255}
Samples == {<<255>>, <<107, 0>>, <<255, 107, 0>>, <<0, 255, 107, 255>>}
BytesDef == Samples \cup UNION {[1..n -> Byte] : n \in 0..2}

Insert(text, i, c) == SubSeq(text, 1, i) \o <<c>> \o SubSeq(text, i + 1, Len(text))
TextDef ==
  {edgex_b64_encode(b) : b \in BytesDef}
    \cup {Insert(edgex_b64_encode(b), 2, c) : b \in Samples, c \in {Newline, EQUALS, 33}}
    \cup {Front(edgex_b64_encode(b)) : b \in Samples}

----------------------------------------------------------------------------
(* Keys of which two share a bucket always, and two until the map grows.   *)
KeyDef == {ka, kb, kc, kd}
HashDef == [k \in KeyDef |-> CASE k = ka -> 1 [] k = kb -> 5 [] k = kc -> 1 [] k = kd -> 2]

----------------------------------------------------------------------------
(* Documents                                                               *)

IntegerDef == "2" :> "2" @@ "16" :> "16" @@ "0x10" :> "16"
RealDef ==
  "2" :> "2.0" @@ "0.5" :> "0.5" @@ "1e-9" :> "1e-9"
    @@ [t \in {"2.000000", "0.500000", "0.000000"} |->
          CASE t = "2.000000" -> "2.0" [] t = "0.500000" -> "0.5" [] t = "0.000000" -> "0.0"]
PrintedDef ==
  "2.0" :> "2.000000" @@ "0.5" :> "0.500000" @@ "1e-9" :> "0.000000" @@ "0.0" :> "0.000000"

Resource_(name, value) ==
  [name |-> name, properties |-> [value |-> value, units |-> [type |-> "String"]],
   attributes |-> <<Pair("bit", "1"), Pair("port", "2")>>]

Operation(object) ==
  [index |-> "1", operation |-> "get", object |-> object,
   mappings |-> <<Pair("0", "off"), Pair("1", "on")>>]

(* A good profile, one with a mask for floats, and one without a type.     *)
ProfileDef ==
  "switch" :> [name |-> "switch", labels |-> <<"home">>,
     deviceResources |-> <<Resource_("level", [type |-> "uint8", scale |-> "0x10", readWrite |-> "R"]),
                           Resource_("state", [type |-> "bool"])>>,
     deviceCommands |-> <<[name |-> "all", get |-> <<Operation("level"), Operation("state")>>,
                           set |-> <<Operation("state")>>]>>]
  @@ "masked" :> [name |-> "masked",
     deviceResources |-> <<Resource_("heat", [type |-> "float32", mask |-> "2"])>>]
  @@ "untyped" :> [name |-> "untyped", deviceResources |-> <<Resource_("x", [scale |-> "2"])>>]

Zigbee == [name |-> "zigbee", value |-> <<Pair("mac", "01"), Pair("hub", "h")>>]
Other == [name |-> "other", value |-> <<>>]
Auto(resource, frequency, onChange) ==
  [resource |-> resource, frequency |-> frequency, onChange |-> onChange]

Lamp ==
  [name |-> "lamp", profile |-> [name |-> "switch"], service |-> [name |-> "zigbee"],
   protocols |-> <<Zigbee, Other>>, labels |-> <<"hall", "old">>, adminState |-> "UNLOCKED",
   autoEvents |-> <<Auto("level", "1s", FALSE), Auto("state", "2s", TRUE)>>, origin |-> 7]

(* The lamp as others change it: in place, with two autoevents of one      *)
(* resource and another address, to a device of which nearly nothing is    *)
(* said, and away to another service, where its profile is not looked at.  *)
(* The second device has a profile that ends the program.                  *)
DeviceDef ==
  "d1" :> {Lamp,
     [Lamp EXCEPT !.labels = <<"hall">>, !.adminState = "LOCKED", !.protocols = Reverse(@)],
     [Lamp EXCEPT !.autoEvents = <<Auto("level", "1s", FALSE), Auto("level", "5s", TRUE)>>,
                  !.protocols = <<[Zigbee EXCEPT !.value = <<Pair("mac", "02")>>]>>],
     [name |-> "bare", profile |-> [name |-> "switch"], service |-> [name |-> "zigbee"]],
     [Lamp EXCEPT !.service = [name |-> "modbus"], !.profile = [name |-> "masked"]]}
  @@ "d2" :> {[Lamp EXCEPT !.name = "odd", !.profile = [name |-> "untyped"]]}

RequestDef ==
  {[name |-> "plug", description |-> NULL, labels |-> <<"new", "hall">>, profile |-> "switch",
    protocols |-> <<[name |-> "other", properties |-> <<>>],
                    [name |-> "zigbee", properties |-> <<Pair("mac", "03"), Pair("hub", "h")>>]>>,
    autos |-> <<Auto("state", "1s", TRUE), Auto("level", "1s", FALSE)>>]}

UpdateDef ==
  {[id |-> "d2", name |-> NULL, description |-> "kitchen", labels |-> NULL, profile |-> "switch"]}

ServiceDef ==
  [name |-> "zigbee", id |-> "s1", description |-> "", labels |-> <<"iot">>,
   adminState |-> "UNLOCKED", operatingState |-> "ENABLED", created |-> 1, modified |-> 1,
   origin |-> 0, lastConnected |-> 0, lastReported |-> 0,
   addressable |-> [name |-> "zigbee", id |-> "a1", address |-> "host", method |-> "POST",
     path |-> "/api/v1/callback", protocol |-> "HTTP", password |-> "", publisher |-> "",
     topic |-> "", user |-> "", port |-> 49, origin |-> 1, created |-> 1, modified |-> 1]]

(* Documents to be read and written again: with a value that nobody may    *)
(* use, a scale of which six decimals are zero, and texts that are no JSON.*)
Hidden ==
  [ProfileDef["switch"] EXCEPT !.deviceResources = <<
     [Resource_("hidden", [type |-> "bool", readWrite |-> "-", floatEncoding |-> "eNotation"]) EXCEPT
        !.properties.units = [type |-> "String", readWrite |-> "R", defaultValue |-> "%"]],
     Resource_("fine", [type |-> "float64", scale |-> "1e-9", offset |-> "0.5", precision |-> "6"]),
     Resource_("count", [type |-> "uint16", mask |-> "2", shift |-> "0x10"])>>]
Stamped == [id |-> "x1", created |-> 1, modified |-> 2]
PaperDef ==
  [d \in DocumentKind |-> {NULL} \cup
     CASE d = "deviceprofile" -> {Stamped @@ Hidden, ProfileDef["masked"], ProfileDef["untyped"]}
       [] d = "deviceservice" -> {deviceservice_write(ServiceDef, FALSE), [name |-> "bare"]}
       [] d = "device" -> {[Lamp EXCEPT !.profile = Stamped @@ Hidden,
                                        !.service = deviceservice_write(ServiceDef, FALSE)]
                             @@ Stamped @@ [lastConnected |-> 3, lastReported |-> 4]}
       [] d = "addressable" -> {addressable_write(ServiceDef.addressable, FALSE)}
       [] d = "valuedescriptor" -> {Stamped @@ [name |-> "level", labels |-> <<"l", "m">>]}]

----------------------------------------------------------------------------
(* Configurations                                                          *)

Endpoint(host, port) == [host |-> host, port |-> port]
CatalogDef == "Data" :> Endpoint("core", 1) @@ "Metadata" :> Endpoint("core", 2)

Watcher(name, profile, key) == [name |-> name, profile |-> profile, key |-> key]

FileOf(port, labels, baud) ==
  [keys |-> "Service/Port" :> port @@ "Service/StartupMsg" :> "hello"
              @@ "Device/Discovery" :> FALSE @@ "Service/Host" :> "",
   labels |-> labels, driver |-> <<Pair("Driver/Baud", baud), Pair("Driver/Channel", "11")>>,
   clients |-> "Logging" :> Endpoint("log", 3), watchers |-> <<>>, level |-> "INFO"]

(* Two owners of which one sees the other's keys; the other's file has an  *)
(* empty setting, for which its pairs are never read.                      *)
OwnerDef == {"zigbee", "zigbee;docker"}
InOrderDef == <<"zigbee", "zigbee;docker">>
UnderDef == [o \in OwnerDef |-> IF o = "zigbee" THEN OwnerDef ELSE {o}]
FileDef ==
  [o \in OwnerDef |->
     IF o = "zigbee;docker" THEN FileOf(5, <<>>, "")
     ELSE [FileOf(3, <<<<"a">>, <<"b", "c">>, <<"">>, <<"d">>>>, "9600") EXCEPT
             !.keys = "Logging/EnableRemote" :> TRUE @@ "Logging/File" :> "log" @@ @,
             !.watchers = <<Watcher("lamps", "Lamp", "near"), Watcher("doors", "Door", "lock"),
                            Watcher("lamps", "Lamp", "far")>>]]

----------------------------------------------------------------------------
(* The texts on the wire.  Of two devices one may have a name that ends in *)
(* "value", and the other waits to be discovered; a master device pushes   *)
(* lines that fit into RX's buffer and lines that do not.                  *)
NodeDef == {"p", "q"}
FirstNamesDef == "p" :> {"lamp", "goodvalue"} @@ "q" :> {"newdevice"}
HardwareMACDef == [d \in NodeDef |-> "29081997"]
CommandDef ==
  [n \in {"lamp", "goodvalue", "4689"} |->
     "SensorOne" :> <<"SensorOne">> @@ "both" :> <<"Switch", "SensorTwo">>]
  @@ "MasterDevice" :> ("MasterRequest" :> <<"MasterMethod", "MasterURL", "MasterBody">>)
KindDef ==
  [r \in {"SensorOne", "SensorTwo"} |-> "uint64"] @@ "Switch" :> "bool"
  @@ [r \in {"MasterMethod", "MasterURL", "MasterBody"} |-> "string"]
SettableDef == "Switch" :> {"true", "false"} @@ "SensorTwo" :> {"80"}
SensedDef == "SensorOne" :> {"30"} @@ "SensorTwo" :> {"80"}
LongDef == {Word("device")}
MasterDef == [method : {"POST"}, url : {"http"}, body : {Word("body"), Word("device")}]

----------------------------------------------------------------------------
(* Handlers and requests: one with a body in two pieces and a URL with     *)
(* slashes too many, one that makes no calls, one for each refusal; and    *)
(* calls of every kind.                                                    *)
HandlersDef == <<
  [url |-> <<"/", "callback">>, methods |-> {"PUT", "POST", "DELETE"}, job |-> NULL,
   calls |-> {edgex_metadata_client_get_device("d")}],
  [url |-> <<"/", "device", "/">>, methods |-> {"GET", "PUT", "POST"}, job |-> NULL,
   calls |-> {edgex_data_client_add_event(<<"reading">>, "CBOR"),
              edgex_metadata_client_set_device_opstate("d", "disabled")}],
  [url |-> <<"/", "discovery">>, methods |-> {"POST"}, calls |-> {}, job |-> "discover"],
  edgex_device_handler_metrics, edgex_device_handler_config, ping_handler>>
In(method, url, crlid, body) == [method |-> method, url |-> url, crlid |-> crlid, body |-> body]
ClientRequestDef == {
  In("PUT", <<"/", "/", "/", "callback">>, -1, <<<<"a">>, <<"b">>>>),
  In("GET", <<"/", "/", "device", "/", "x">>, NULL, <<>>),
  In("HEAD", <<"/", "device", "/", "x">>, -1, <<>>),
  In("GET", <<"/", "ping">>, -2, <<>>),
  In("POST", <<"/", "discovery">>, -2, <<>>),
  In("POST", <<"/">>, -2, <<<<"a">>>>)}
JobCallsDef ==
  [doPost |-> {edgex_data_client_add_event(<<"reading">>, "JSON")},
   ae_runner |-> {edgex_data_client_add_event(<<"reading">>, "JSON"), edgex_log_torest(<<"fired">>)},
   discover |-> {edgex_metadata_client_add_device("e", <<"e">>)}]
StartCallsDef == {
  edgex_metadata_client_ping, edgex_data_client_ping,
  edgex_metadata_client_get_deviceservice("d"), edgex_metadata_client_create_deviceservice("d", <<"d">>),
  edgex_metadata_client_get_addressable("d"), edgex_metadata_client_create_addressable("d", <<"d">>),
  edgex_metadata_client_get_deviceprofile("d"), edgex_metadata_client_create_deviceprofile_file("d", <<"d">>),
  edgex_metadata_client_get_devices("d"), edgex_data_client_add_valuedescriptor("d", <<"d">>)}
AppCallsDef == {
  edgex_metadata_client_add_device("d", <<"d">>),
  edgex_metadata_client_update_device("d", <<"d", "new", "labels">>),
  edgex_metadata_client_delete_device("d"), edgex_metadata_client_delete_device_byname("d")}
(* Clients that have no caller, in place of calls of the application.      *)
SpareCallsDef == {
  edgex_metadata_client_get_device_byname("d"),
  edgex_metadata_client_set_device_adminstate("d", "locked"),
  edgex_metadata_client_create_deviceprofile("d", <<"d">>),
  edgex_metadata_client_update_addressable("d", <<"d", "new">>),
  edgex_metadata_client_delete_addressable("d")}

----------------------------------------------------------------------------
(* The machines, one at a time                                             *)

IdleValues ==
  /\ res = CHOOSE r \in ResourceDef : TRUE
  /\ raw = CHOOSE v \in Holds(res.type) : TRUE
  /\ put = NULL /\ answer = Status(0)

HelpersInit ==
  /\ active \in {"values", "map", "sync", "config", "wire", "http", "rewriting"}
  /\ IF active = "values" THEN ValuesInit ELSE IdleValues
  /\ WireInit /\ (active # "wire" => my_name_ = [d \in Node |-> Word(CHOOSE n \in FirstNames[d] : TRUE)])
  /\ MapInit /\ SyncInit /\ ConfigInit /\ HttpInit
  /\ IF active = "rewriting" THEN RewritingInit
     ELSE document = "device" /\ json = NULL /\ kept = NULL /\ written = NULL /\ rewrites = 0

HelpersNext ==
  /\ UNCHANGED active
  /\ \/ active = "values" /\ ValuesNext /\ UNCHANGED <<mapVars, syncVars, configVars, wireVars, httpVars, rewritingVars>>
     \/ active = "map" /\ MapNext /\ UNCHANGED <<valueVars, syncVars, configVars, wireVars, httpVars, rewritingVars>>
     \/ active = "sync" /\ SyncNext /\ UNCHANGED <<valueVars, mapVars, configVars, wireVars, httpVars, rewritingVars>>
     \/ active = "config" /\ ConfigNext /\ UNCHANGED <<valueVars, mapVars, syncVars, wireVars, httpVars, rewritingVars>>
     \/ active = "wire" /\ WireNext /\ UNCHANGED <<valueVars, mapVars, syncVars, configVars, httpVars, rewritingVars>>
     \/ active = "http" /\ HttpNext /\ UNCHANGED <<valueVars, mapVars, syncVars, configVars, wireVars, rewritingVars>>
     \/ /\ active = "rewriting" /\ RewritingNext
        /\ UNCHANGED <<valueVars, mapVars, syncVars, configVars, wireVars, httpVars>>

HelpersSpec ==
  HelpersInit
    /\ [][HelpersNext]_<<active, valueVars, mapVars, syncVars, configVars, wireVars, httpVars, rewritingVars>>

SwapConnections == Permutations(Conn)
=============================================================================
