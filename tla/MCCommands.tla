----------------------------- MODULE MCCommands -----------------------------
(* Commands for TLC: two devices of one profile, which has a command too   *)
(* large for GET, one with both methods and one that hides a resource, and *)
(* a device of another profile whose readings are binary.  And the memory  *)
(* of devices and profiles, instead of the commands, where two devices may *)
(* share a profile, and one of them may be given another.  And Startup,    *)
(* with every form of argument, settings given twice, values that hold a   *)
(* "=", a port that does not fit into 16 bits, and schemes that are built  *)
(* in, plugged in and unknown.                                             *)
EXTENDS Commands, Memory, Startup, TLC

VARIABLE active     \* which of the three runs; the others rest

Res(name, r, w, b) == [name |-> name, readable |-> r, writable |-> w, binary |-> b]
Temp == Res("Temp", TRUE, TRUE, FALSE)
Serial == Res("Serial", TRUE, FALSE, FALSE)
Key == Res("Key", FALSE, TRUE, FALSE)
Image == Res("Image", TRUE, FALSE, TRUE)
Cmd(name, get, set) == [name |-> name, get |-> get, set |-> set]

MCProfile == {"p", "q"}
MCDev == <<"d1", "d2", "d3">>
MCProfileOf == [d \in {"d1", "d2", "d3"} |-> IF d = "d3" THEN "q" ELSE "p"]
MCResources == [p \in MCProfile |-> IF p = "p" THEN <<Temp, Key>> ELSE <<Image>>]
MCCommands_ ==
  [p \in MCProfile |->
     IF p = "p" THEN <<Cmd("Temp", <<Temp>>, <<>>), Cmd("Both", <<Temp, Serial>>, <<Serial>>)>>
                ELSE <<Cmd("Temp", <<Image>>, <<>>)>>]

Empty == [form |-> "empty", good |-> {}]
Garbage == [form |-> "garbage", good |-> {}]
Object(good) == [form |-> "object", good |-> good]

One(dev, cmd, get, body) == [all |-> FALSE, dev |-> dev, cmd |-> cmd, get |-> get, body |-> body]

MCRequest ==
  {One("d1", c, TRUE, Empty) : c \in {"Temp", "Both", "Key", "Other"}}
  \cup {One("d1", "Key", FALSE, b) : b \in {Empty, Garbage, Object({"Key"}), Object({})}}
  \cup {One("d1", "Both", FALSE, Object({"Serial"})), One("d1", "Temp", FALSE, Object({})),
        One(NULL, "Temp", TRUE, Empty)}
  \cup {[all |-> TRUE, dev |-> NULL, cmd |-> "Temp", get |-> TRUE, body |-> Empty]}

ProfilesOfDef == "d1" :> {"P", "Q"} @@ "d2" :> {"P"}

Ask(o, f, v) == [option |-> o, form |-> f, value |-> v]
Host == <<"consul", "://", "host", ":">>
Good == Host \o <<"8500">>

MCCommandLine ==
  {<<>>,
   <<Ask("registry", "short", Good), Ask("name", "long=", <<"b">>)>>,
   <<Ask("profile", "long", <<"a">>), Ask("registry", "long=", <<"etcd", "://", "k", "=", "v">>)>>,
   <<Ask("registry", "short=", Host \o <<"70000">>), Ask("confdir", "short=", <<"dir", "=">>), Ask("profile", "short", <<"a">>)>>,
   <<Ask("registry", "short", Good), Ask("registry", "long", Host)>>,
   <<Ask("name", "short", <<>>)>>,
   <<Ask("name", "short", <<"-", "h">>), Ask("confdir", "long", <<"none">>)>>,
   <<Ask(NULL, "raw", <<"-", "h">>)>>,
   <<Ask(NULL, "raw", <<"--", "=", "consul", "://">>)>>,
   <<Ask("name", "short=", <<>>)>>}
MCEnvironment == {NULL, <<>>, Good, <<"zookeeper", "://", "host", ":", "8500">>}
MCPort == ("8500" :> 2) @@ ("70000" :> 5)
MCConfigFile ==
  (<<<<"res">>, <<>>>> :> "good") @@ (<<<<"res">>, <<"a">>>> :> "broken") @@ (<<<<"dir", "=">>, <<"a">>>> :> "good")
MCStored == {<<<<"b">>>>, <<<<"device-random">>, <<"a">>>>}
MCPlugged == [scheme |-> <<"etcd">>, impl |-> "etcd"]

CommandsInit ==
  /\ active \in {"commands", "memory", "startup"}
  /\ Init /\ MemInit /\ StartupInit
  /\ active # "startup" => asked = <<>> /\ env = NULL

CommandsNext ==
  /\ UNCHANGED active
  /\ \/ active = "commands" /\ Next /\ UNCHANGED <<memVars, startupVars>>
     \/ active = "memory" /\ MemNext /\ UNCHANGED <<vars, startupVars>>
     \/ active = "memory" /\ stage = "freed" /\ UNCHANGED <<vars, memVars, startupVars>>
     \/ active = "startup" /\ StartupNext /\ UNCHANGED <<vars, memVars>>
     \/ active = "startup" /\ Over /\ UNCHANGED <<vars, memVars, startupVars>>

CommandsSpec == CommandsInit /\ [][CommandsNext]_<<active, vars, memVars, startupVars>>

Symmetry == Permutations(Http)
=============================================================================
