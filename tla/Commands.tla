------------------------------ MODULE Commands ------------------------------
(***************************************************************************)
(* The SDK's device commands, device-sdk-c/src/c/device.c: the threads of  *)
(* the REST server look up a command in the list that the profile builds   *)
(* on first use, without a lock, run it on one device or on all that have  *)
(* it, and assemble the reply (with edgex_data_process_event of data.c).   *)
(*                                                                         *)
(* Devices come and go in DevMap; here the map does not change.  Whether a *)
(* device is locked, and whether the driver succeeds, is a choice.         *)
(***************************************************************************)
EXTENDS Null, Integers, Sequences

CONSTANTS
  Dev,          \* the devices of the map, in the order of its iterator
  Http,         \* the threads of the REST server
  Profile,      \* profile structs
  ProfileOf,    \* ProfileOf[d]: the profile of d
  Resources,    \* Resources[p]: device_resources, a sequence of [name,
                \* readable, writable, binary]
  Commands,     \* Commands[p]: device_commands, a sequence of [name, get,
                \* set], of which get and set are sequences of resources
  Request,      \* requests: [all, dev, cmd, get, body]
  MaxCmdOps     \* the configured limit of resources in a command

(* A body of PUT has a form, "empty", "garbage" that is no JSON, or        *)
(* "object", and good: the resources for which it has a value that parses  *)
(* and does not overflow in the transformation.                            *)

Resource == [name : STRING, readable : BOOLEAN, writable : BOOLEAN, binary : BOOLEAN]

ASSUME CommandsAssumptions ==
  /\ Dev \in Seq(DOMAIN ProfileOf) /\ Dev # <<>>
  /\ \A d \in DOMAIN ProfileOf : ProfileOf[d] \in Profile
  /\ Resources \in [Profile -> Seq(Resource)]
  /\ Commands \in [Profile -> Seq([name : STRING, get : Seq(Resource), set : Seq(Resource)])]
  /\ Request \subseteq [all : BOOLEAN, dev : DOMAIN ProfileOf \cup {NULL}, cmd : STRING,
                        get : BOOLEAN, body : [form : {"empty", "garbage", "object"}, good : SUBSET STRING]]
  /\ NULL \notin Http \cup DOMAIN ProfileOf /\ NULL \notin Request
  /\ MaxCmdOps \in Nat

VARIABLES
  list,         \* list[p]: prof->cmdinfo, by the thread that built it, or NULL
  built,        \* built[p][t]: how far t has built the list, 0 before its first node
  http,         \* http[t]: the request that t serves and how far it is
  overlapped    \* history: profiles looked at while a thread built the list

vars == <<list, built, http, overlapped>>

----------------------------------------------------------------------------
(* The list of commands                                                    *)

(* A node of prof->cmdinfo; those of a profile are in the order of at.     *)
Node(prof, at, name, isget, reqs) ==
  [prof |-> prof, at |-> at, name |-> name, isget |-> isget, reqs |-> reqs]

(* infoForRes for the get and the set of a command                         *)
infoForRes(p, i) ==
  LET cmd == Commands[p][i] IN
  {n \in {Node(p, 2 * i - 1, cmd.name, TRUE, cmd.get), Node(p, 2 * i, cmd.name, FALSE, cmd.set)} : n.reqs # <<>>}

infoForDevRes(p, i) ==
  LET res == Resources[p][i]
      at == 2 * (Len(Commands[p]) + i)
  IN {n \in {Node(p, at - 1, res.name, TRUE, <<res>>), Node(p, at, res.name, FALSE, <<res>>)} :
        IF n.isget THEN res.readable ELSE res.writable}

(* populateCmdInfo: the commands, then the resources that no command hides *)
populateCmdInfo(p) ==
  LET Hidden(res) == \E i \in DOMAIN Commands[p] : Commands[p][i].name = res.name IN
  UNION ({infoForRes(p, i) : i \in DOMAIN Commands[p]}
           \cup {infoForDevRes(p, i) : i \in {j \in DOMAIN Resources[p] : ~Hidden(Resources[p][j])}})

(* What a thread that walks along prof->cmdinfo now finds of a name: the   *)
(* list ends where the one who builds it has got to.                       *)
Published(p, owner, name) ==
  IF owner = NULL THEN {} ELSE {n \in populateCmdInfo(p) : n.at <= built[p][owner] /\ n.name = name}

----------------------------------------------------------------------------
(* runOne and what it calls                                                *)

(* The first of the requests that is refused, if any.                      *)
FirstRefused(reqs, Refused(_)) ==
  {i \in DOMAIN reqs : Refused(reqs[i]) /\ \A j \in 1..(i - 1) : ~Refused(reqs[j])}

(* edgex_device_runput: resource by resource, the first that cannot be     *)
(* written or has no good value decides; the driver sees all or nothing.   *)
edgex_device_runput(reqs, body) ==
  LET Refused(r) == ~r.writable \/ r.name \notin body.good
  IN  IF body.form = "garbage" THEN {400}
      ELSE IF \A i \in DOMAIN reqs : ~Refused(reqs[i]) THEN {200, 500}
      ELSE {IF reqs[i].writable THEN 400 ELSE 405 : i \in FirstRefused(reqs, Refused)}

(* edgex_device_runget: 500 if the driver or the assertion fails.          *)
edgex_device_runget(reqs) ==
  IF \E i \in DOMAIN reqs : ~reqs[i].readable THEN {405} ELSE {200, 500}

runOne(node, body) ==
  {423} \cup (IF Len(node.reqs) > MaxCmdOps THEN {500}
              ELSE IF node.isget THEN edgex_device_runget(node.reqs)
              ELSE IF body.form = "empty" THEN {400}
              ELSE edgex_device_runput(node.reqs, body))

(* edgex_data_process_event: one binary reading makes the event CBOR.      *)
Encoding(reqs) == IF \E i \in DOMAIN reqs : reqs[i].binary THEN "CBOR" ELSE "JSON"

----------------------------------------------------------------------------
(* The reply of allCommand.  events: the devices whose events the buffer   *)
(* holds.  used: the length of what is written, without the terminating    *)
(* NUL; bsize: the size that is accounted; size: that allocated; first:    *)
(* the byte in front; end: "nul" is there, the end is "open", or strcat    *)
(* has run over an open end.                                               *)

EventSize == 2      \* of every event

NoReply == [events |-> <<>>, enc |-> "JSON", first |-> "JSON", used |-> 1, bsize |-> 3,
            size |-> 3, end |-> "nul"]

(* strcat looks for the end of a string.                                   *)
Strcat(end) == IF end = "nul" THEN "nul" ELSE "overrun"

(* Defective variant: no room for the comma.                               *)
AppendJSONShort(b, d) ==
  [b EXCEPT !.events = Append(@, d), !.enc = "JSON", !.bsize = @ + EventSize,
            !.size = b.bsize + EventSize,
            !.used = @ + EventSize + (IF b.events = <<>> THEN 0 ELSE 1),
            !.end = Strcat(@)]

(* realloc, then strcat.                                                   *)
AppendJSON(b, d) ==
  LET comma == IF b.events = <<>> THEN 0 ELSE 1
  IN  [b EXCEPT !.events = Append(@, d), !.enc = "JSON",
                !.bsize = @ + EventSize + comma, !.size = b.bsize + EventSize + comma,
                !.used = @ + EventSize + comma,
                !.end = Strcat(@)]

AppendCBOR(b, d) ==
  [b EXCEPT !.events = Append(@, d), !.enc = "CBOR",
            !.first = IF b.events = <<>> THEN "CBOR" ELSE @,
            !.size = b.bsize + EventSize, !.bsize = @ + EventSize,
            !.used = b.bsize - 2 + EventSize,
            !.end = IF @ = "nul" THEN "open" ELSE @]

(* The end of the array; a CBOR array ends in the last byte but one.       *)
EndReply(b) ==
  IF b.enc = "JSON" THEN [b EXCEPT !.used = @ + 1, !.end = Strcat(@)]
                    ELSE [b EXCEPT !.used = b.bsize - 1, !.end = IF @ = "open" THEN "nul" ELSE @]

----------------------------------------------------------------------------
Idle == [pc |-> "idle", req |-> NULL, todo |-> <<>>, src |-> NULL, q |-> <<>>,
         ret |-> 404, reply |-> NoReply, answered |-> <<>>]

Init ==
  /\ list = [p \in Profile |-> NULL]
  /\ built = [p \in Profile |-> [t \in Http |-> 0]]
  /\ http = [t \in Http |-> Idle]
  /\ overlapped = {}

At(t, pc) == http[t].pc = pc

Update(t, h) == http' = [http EXCEPT ![t] = h]

(* The device whose profile t is looking at.                               *)
Looking(t) == ProfileOf[Head(http[t].todo)]

(* edgex_device_handler_device: one device, if the map has it, or all.     *)
Receive(t, req) ==
  /\ At(t, "idle")
  /\ LET todo == IF req.all THEN Dev ELSE IF req.dev = NULL THEN <<>> ELSE <<req.dev>>
     IN Update(t, [Idle EXCEPT !.req = req, !.todo = todo,
                               !.pc = IF todo = <<>> THEN "done" ELSE "find"])
  /\ UNCHANGED <<list, built, overlapped>>

(* What forcmd does after a device that it has looked at.                  *)
NextDevice(h) == [h EXCEPT !.todo = Tail(@),
                           !.pc = IF Tail(h.todo) = <<>> THEN "run" ELSE "find"]

(* edgex_devmap_device_forcmd passes over what is not operational.         *)
PassOver(t) ==
  /\ At(t, "find") /\ http[t].req.all
  /\ Update(t, NextDevice(http[t]))
  /\ UNCHANGED <<list, built, overlapped>>

(* edgex_deviceprofile_findcommand: is there a list yet?                   *)
findcommand(t) ==
  LET p == Looking(t)
      Building(u) == At(u, "build") /\ Looking(u) = p
  IN
  /\ At(t, "find")
  /\ Update(t, [http[t] EXCEPT !.pc = IF list[p] = NULL THEN "build" ELSE "walk",
                               !.src = list[p]])
  /\ overlapped' = IF \E u \in Http : Building(u) THEN overlapped \cup {p} ELSE overlapped
  /\ UNCHANGED <<list, built>>

(* The first node is published at once, the others follow one by one.      *)
Build(t) ==
  LET p == Looking(t)
      ahead == {n \in populateCmdInfo(p) : n.at > built[p][t]}
  IN
  /\ At(t, "build")
  /\ \E n \in ahead : (\A m \in ahead : n.at <= m.at) /\ built' = [built EXCEPT ![p][t] = n.at]
  /\ list' = IF built[p][t] = 0 THEN [list EXCEPT ![p] = t] ELSE list
  /\ UNCHANGED <<http, overlapped>>

Built(t) ==
  LET p == Looking(t) IN
  /\ At(t, "build") /\ \A n \in populateCmdInfo(p) : n.at <= built[p][t]
  /\ Update(t, [http[t] EXCEPT !.pc = "walk", !.src = list[p]])
  /\ UNCHANGED <<list, built, overlapped>>

(* Nothing comes of the look at this device, or a command to run on it.    *)
NotFound(h) ==
  IF h.req.all THEN NextDevice([h EXCEPT !.src = NULL]) ELSE [h EXCEPT !.src = NULL, !.pc = "exists"]

Found(h, node) ==
  LET queued == [h EXCEPT !.q = <<[dev |-> Head(h.todo), node |-> node]>> \o @, !.src = NULL] IN
  IF h.req.all THEN NextDevice(queued) ELSE [queued EXCEPT !.pc = "run"]

(* The walk along the list that was read, to the first that matches.       *)
Walk(t) ==
  LET h == http[t]
      p == Looking(t)
      matching == {n \in Published(p, h.src, h.req.cmd) : n.isget = h.req.get}
  IN
  /\ At(t, "walk")
  /\ \/ matching = {} /\ Update(t, NotFound(h))
     \/ \E n \in matching : (\A m \in matching : n.at <= m.at) /\ Update(t, Found(h, n))
  /\ UNCHANGED <<list, built, overlapped>>

(* Defective variant: any command will do.                                 *)
commandExistsAny(t) ==
  /\ At(t, "exists")
  /\ Update(t, [http[t] EXCEPT !.pc = "done", !.ret = 405])
  /\ UNCHANGED <<list, built, overlapped>>

(* commandExists, with the list that prof->cmdinfo names now               *)
commandExists(t) ==
  LET p == Looking(t)
      known == Published(p, list[p], http[t].req.cmd) # {}
  IN
  /\ At(t, "exists")
  /\ Update(t, [http[t] EXCEPT !.pc = "done", !.ret = IF known THEN 405 ELSE 404])
  /\ UNCHANGED <<list, built, overlapped>>

(* runOne for the device that is next, and what its event adds.  One       *)
(* success makes the whole a success.                                      *)
Run(t, status) ==
  LET h == http[t]
      job == Head(h.q)
      event == job.node.isget /\ status = 200
      enc == Encoding(job.node.reqs)
  IN
  /\ At(t, "run") /\ h.q # <<>>
  /\ Update(t, [h EXCEPT
       !.q = Tail(@), !.todo = <<>>,
       !.ret = IF @ = 200 THEN 200 ELSE status,
       !.answered = IF event THEN Append(@, [dev |-> job.dev, enc |-> enc]) ELSE @,
       !.reply = IF ~event THEN @
                 ELSE IF ~h.req.all THEN [@ EXCEPT !.events = <<job.dev>>, !.first = enc, !.enc = enc]
                 ELSE IF enc = "JSON" THEN AppendJSON(@, job.dev) ELSE AppendCBOR(@, job.dev)])
  /\ UNCHANGED <<list, built, overlapped>>

Reply(t) ==
  /\ At(t, "run") /\ http[t].q = <<>>
  /\ Update(t, [http[t] EXCEPT !.pc = "done",
                  !.reply = IF http[t].req.all /\ http[t].ret = 200 THEN EndReply(@) ELSE @])
  /\ UNCHANGED <<list, built, overlapped>>

(* The thread is ready for another request.                                *)
Done(t) ==
  /\ At(t, "done")
  /\ Update(t, Idle)
  /\ UNCHANGED <<list, built, overlapped>>

Serve(t) ==
  \/ PassOver(t) \/ findcommand(t) \/ Build(t) \/ Built(t) \/ Walk(t) \/ commandExists(t)
  \/ (At(t, "run") /\ http[t].q # <<>>
        /\ \E s \in runOne(Head(http[t].q).node, http[t].req.body) : Run(t, s))
  \/ Reply(t) \/ Done(t)

Next == \E t \in Http : Serve(t) \/ \E req \in Request : Receive(t, req)

Spec == Init /\ [][Next]_vars

----------------------------------------------------------------------------
(* Properties                                                              *)

(* The nodes that a profile defines for a command name.                    *)
Defined(d, cmd) == {n \in populateCmdInfo(ProfileOf[d]) : n.name = cmd}

Accessible(n) == \A i \in DOMAIN n.reqs : IF n.isget THEN n.reqs[i].readable ELSE n.reqs[i].writable

(* What device-sdk.raml says of the status of a command for one device:    *)
(* 404 "if no device exists by the ID provided or the command is unknown", *)
(* 405 "if the requested command exists but not for GET, or the resource   *)
(* is marked as write-only", and success only for what may be done.  Of    *)
(* nodes with one name and method the first is the command.                *)
Documented(req, status) ==
  LET nodes == IF req.dev = NULL THEN {} ELSE Defined(req.dev, req.cmd)
      right == {n \in nodes : n.isget = req.get /\ \A m \in nodes : m.isget = req.get => n.at <= m.at}
  IN /\ (status = 404) <=> (nodes = {})
     /\ nodes # {} /\ right = {} => status = 405
     /\ status = 405 => \A n \in right : ~Accessible(n)
     /\ status = 200 => \E n \in right : Accessible(n) /\ Len(n.reqs) <= MaxCmdOps

(* Every answer about one device is as documented, unless the profile's    *)
(* list was being built while another thread looked at it.                 *)
StatusAsDocumented ==
  \A t \in Http : At(t, "done") /\ ~http[t].req.all =>
    \/ Documented(http[t].req, http[t].ret)
    \/ ProfileOf[http[t].req.dev] \in overlapped

(* A command to all devices succeeds if it does for one of them, and the   *)
(* reply is then one array of the events of those that answered, in order  *)
(* and within its buffer, unless their encodings differ.                   *)
RepliesWhole ==
  \A t \in Http : LET h == http[t] IN
    h.req # NULL /\ h.req.all /\ h.pc \in {"run", "done"} =>
      LET encs == {h.answered[i].enc : i \in DOMAIN h.answered} IN
      /\ h.reply.events = [i \in DOMAIN h.answered |-> h.answered[i].dev]
      /\ encs # {"JSON", "CBOR"} =>
           /\ h.reply.end # "overrun" /\ h.reply.used < h.reply.size
           /\ encs # {} => encs = {h.reply.first} /\ encs = {h.reply.enc}
=============================================================================
