--------------------------- MODULE CommandsProofs --------------------------
(***************************************************************************)
(* Proofs about Commands, for any devices, profiles, commands and threads  *)
(* of the REST server.                                                     *)
(***************************************************************************)
EXTENDS Commands, SequenceTheorems, TLAPS

----------------------------------------------------------------------------
(* Invariants                                                              *)

Device == DOMAIN ProfileOf

(* Of a node: the profile it is of, and what is true of it by its making.  *)
NodeOf == UNION {populateCmdInfo(p) : p \in Profile}

Job == [dev : Device, node : NodeOf]

Encodings == {"JSON", "CBOR"}

Ends == {"nul", "open", "overrun"}

Answer == [dev : Device, enc : Encodings]

ReplyBuffer ==
  [events : Seq(Device), enc : Encodings, first : Encodings, used : Int, bsize : Int,
   size : Int, end : Ends]

(* What a thread of the server may have in hand.                           *)
ThreadState ==
  [pc : {"idle", "find", "build", "walk", "exists", "run", "done"}, req : Request \cup {NULL},
   todo : Seq(Device), src : Http \cup {NULL}, q : Seq(Job), ret : Nat,
   reply : ReplyBuffer, answered : Seq(Answer)]

(* The steps at which a thread looks at the profile of a device.           *)
Looks == {"find", "build", "walk", "exists"}

TypeOK ==
  /\ list \in [Profile -> Http \cup {NULL}]
  /\ built \in [Profile -> [Http -> Nat]]
  /\ http \in [Http -> ThreadState]
  /\ overlapped \subseteq Profile
  /\ \A t \in Http : /\ http[t].pc # "idle" => http[t].req \in Request
                     /\ http[t].pc \in Looks => http[t].todo # <<>>

----------------------------------------------------------------------------
(* The list                                                                *)

Building(t, p) == At(t, "build") /\ Looking(t) = p

Complete(p, t) == \A n \in populateCmdInfo(p) : n.at <= built[p][t]

(* The list of p is there for good.                                        *)
Settled(p) == list[p] # NULL /\ ~Building(list[p], p)

NotBegun(p) == list[p] = NULL => \A t \in Http : built[p][t] = 0

OneBuilder(p) == \A t, u \in Http : Building(t, p) /\ Building(u, p) => t = u

SettledWhole(p) == Settled(p) => Complete(p, list[p]) /\ \A t \in Http : ~Building(t, p)

Walks(t, p) ==
  At(t, "walk") /\ Looking(t) = p =>
    IF http[t].src = NULL THEN populateCmdInfo(p) = {} ELSE Settled(p) /\ http[t].src = list[p]

Asks(t, p) == At(t, "exists") /\ Looking(t) = p => populateCmdInfo(p) = {} \/ Settled(p)

(* Nobody begins a second list of a profile unless two threads looked at   *)
(* it at once; so who finds one that its maker has left finds all of it,   *)
(* and so does whoever has waited, or made it.                             *)
ListInv ==
  \A p \in Profile :
    /\ NotBegun(p)
    /\ p \notin overlapped =>
         OneBuilder(p) /\ SettledWhole(p) /\ \A t \in Http : Walks(t, p) /\ Asks(t, p)

----------------------------------------------------------------------------
(* A request for one device                                                *)

(* The nodes for a request.                                                *)
Matches(req) == {n \in Defined(req.dev, req.cmd) : n.isget = req.get}

Overlapped(req) == ProfileOf[req.dev] \in overlapped

(* One thread, with a request for one device: it looks at that device; at  *)
(* "exists" there is no node for the request; what it runs is the first    *)
(* node of the name and the method, and then the status is as documented.  *)
OneDevice(h) ==
  h.req # NULL /\ ~h.req.all =>
    /\ h.pc \in Looks => h.todo = <<h.req.dev>> /\ h.q = <<>> /\ h.ret = 404
    /\ h.pc = "exists" => Matches(h.req) = {} \/ Overlapped(h.req)
    /\ h.pc = "run" =>
         /\ h.req.dev # NULL
         /\ \/ h.ret = 404 /\ Len(h.q) = 1 /\ h.q[1].node \in Matches(h.req)
               /\ \/ \A m \in Matches(h.req) : h.q[1].node.at <= m.at
                  \/ Overlapped(h.req)
            \/ h.q = <<>> /\ (Documented(h.req, h.ret) \/ Overlapped(h.req))
    /\ h.pc = "done" => Documented(h.req, h.ret) \/ Overlapped(h.req)

OneInv == \A t \in Http : OneDevice(http[t])

----------------------------------------------------------------------------
(* A request for all devices                                               *)

(* The buffer holds the events of those that answered, and if they are of  *)
(* one encoding then in it, and the length is counted right.               *)
Assembled(b, answered) ==
  /\ b.events = [i \in DOMAIN answered |-> answered[i].dev]
  /\ answered = <<>> => b = NoReply
  /\ \A e \in Encodings :
       answered # <<>> /\ (\A i \in DOMAIN answered : answered[i].enc = e) =>
         /\ b.enc = e /\ b.first = e /\ b.end # "overrun"
         /\ b.size = b.bsize /\ b.used = b.bsize - 2
         /\ e = "JSON" => b.end = "nul"

Whole(b, answered) ==
  LET encs == {answered[i].enc : i \in DOMAIN answered} IN
  /\ b.events = [i \in DOMAIN answered |-> answered[i].dev]
  /\ encs # Encodings =>
       /\ b.end # "overrun" /\ b.used < b.size
       /\ encs # {} => encs = {b.first} /\ encs = {b.enc}

AllDevices(h) ==
  h.req # NULL /\ h.req.all =>
    /\ h.pc \in Looks => h.answered = <<>> /\ h.reply = NoReply
    /\ h.pc # "exists"
    /\ h.pc = "run" => Assembled(h.reply, h.answered)
    /\ h.pc = "done" => Whole(h.reply, h.answered)

AllInv == \A t \in Http : AllDevices(http[t])
----------------------------------------------------------------------------
(* The nodes                                                               *)

(* What the profiles are made of.                                          *)
CommandType == [name : STRING, get : Seq(Resource), set : Seq(Resource)]

LEMMA ProfileTypes ==
  ASSUME NEW p \in Profile
  PROVE  Commands[p] \in Seq(CommandType) /\ Resources[p] \in Seq(Resource)
<1>1. Commands \in [Profile -> Seq(CommandType)]
  BY CommandsAssumptions DEF CommandType
<1>2. Resources \in [Profile -> Seq(Resource)]
  BY CommandsAssumptions
<1> QED BY <1>1, <1>2

(* The nodes of a command, and of a resource.                              *)
LEMMA CommandNodes ==
  ASSUME NEW p \in Profile, NEW i \in DOMAIN Commands[p], NEW n \in infoForRes(p, i)
  PROVE  \/ n = Node(p, 2 * i - 1, Commands[p][i].name, TRUE, Commands[p][i].get)
         \/ n = Node(p, 2 * i, Commands[p][i].name, FALSE, Commands[p][i].set)
BY DEF infoForRes

LEMMA ResourceNodes ==
  ASSUME NEW p \in Profile, NEW i \in DOMAIN Resources[p], NEW n \in infoForDevRes(p, i)
  PROVE  LET at == 2 * (Len(Commands[p]) + i) IN
         \/ n = Node(p, at - 1, Resources[p][i].name, TRUE, <<Resources[p][i]>>)
         \/ n = Node(p, at, Resources[p][i].name, FALSE, <<Resources[p][i]>>)
BY DEF infoForDevRes

(* A node is of a command or of a resource.                                *)
LEMMA NodeOrigin ==
  ASSUME NEW p \in Profile, NEW n \in populateCmdInfo(p)
  PROVE  \/ \E i \in DOMAIN Commands[p] : n \in infoForRes(p, i)
         \/ \E i \in DOMAIN Resources[p] : n \in infoForDevRes(p, i)
<1> DEFINE Hidden(res) == \E i \in DOMAIN Commands[p] : Commands[p][i].name = res.name
           Shown == {j \in DOMAIN Resources[p] : ~Hidden(Resources[p][j])}
<1>1. n \in UNION ({infoForRes(p, i) : i \in DOMAIN Commands[p]} \cup {infoForDevRes(p, i) : i \in Shown})
  BY Zenon DEF populateCmdInfo
<1>2. Shown \subseteq DOMAIN Resources[p]
  OBVIOUS
<1> HIDE DEF Shown
<1>3. CASE n \in UNION {infoForRes(p, i) : i \in DOMAIN Commands[p]}
  BY <1>3
<1>4. CASE n \in UNION {infoForDevRes(p, i) : i \in Shown}
  <2>1. PICK i \in Shown : n \in infoForDevRes(p, i)
    BY <1>4
  <2> QED BY <1>2, <2>1
<1> QED BY <1>1, <1>3, <1>4

(* What a node is.                                                         *)
LEMMA NodeFacts ==
  ASSUME NEW p \in Profile, NEW n \in populateCmdInfo(p)
  PROVE  n.at \in Nat \ {0} /\ n.isget \in BOOLEAN /\ n.reqs \in Seq(Resource)
<1>1. Commands[p] \in Seq(CommandType) /\ Resources[p] \in Seq(Resource)
  BY ProfileTypes
<1>0. Len(Commands[p]) \in Nat
  BY <1>1, LenProperties
<1>2. ASSUME NEW i \in DOMAIN Commands[p], n \in infoForRes(p, i)
      PROVE  n.at \in Nat \ {0} /\ n.isget \in BOOLEAN /\ n.reqs \in Seq(Resource)
  <2>1. i \in Nat \ {0} /\ Commands[p][i] \in CommandType
    BY <1>1
  <2>2. Commands[p][i].get \in Seq(Resource) /\ Commands[p][i].set \in Seq(Resource)
    BY <2>1 DEF CommandType
  <2>3. 2 * i - 1 \in Nat \ {0} /\ 2 * i \in Nat \ {0}
    BY <2>1
  <2>4. CASE n = Node(p, 2 * i - 1, Commands[p][i].name, TRUE, Commands[p][i].get)
    BY <2>2, <2>3, <2>4 DEF Node
  <2>5. CASE n = Node(p, 2 * i, Commands[p][i].name, FALSE, Commands[p][i].set)
    BY <2>2, <2>3, <2>5 DEF Node
  <2> QED BY <1>2, <2>4, <2>5, CommandNodes
<1>3. ASSUME NEW i \in DOMAIN Resources[p], n \in infoForDevRes(p, i)
      PROVE  n.at \in Nat \ {0} /\ n.isget \in BOOLEAN /\ n.reqs \in Seq(Resource)
  <2>1. i \in Nat \ {0} /\ Resources[p][i] \in Resource
    BY <1>1
  <2>2. <<Resources[p][i]>> \in Seq(Resource)
    BY <2>1
  <2>3. 2 * (Len(Commands[p]) + i) - 1 \in Nat \ {0} /\ 2 * (Len(Commands[p]) + i) \in Nat \ {0}
    BY <2>1, <1>0
  <2>4. CASE n = Node(p, 2 * (Len(Commands[p]) + i) - 1, Resources[p][i].name, TRUE, <<Resources[p][i]>>)
    BY <2>2, <2>3, <2>4 DEF Node
  <2>5. CASE n = Node(p, 2 * (Len(Commands[p]) + i), Resources[p][i].name, FALSE, <<Resources[p][i]>>)
    BY <2>2, <2>3, <2>5 DEF Node
  <2> QED BY <1>3, <2>4, <2>5, ResourceNodes
<1> QED BY <1>2, <1>3, NodeOrigin

(* No two nodes of a profile have one place.                               *)
LEMMA PlacesDiffer ==
  ASSUME NEW p \in Profile, NEW n \in populateCmdInfo(p), NEW m \in populateCmdInfo(p), n.at = m.at
  PROVE  n = m
<1> DEFINE c == Len(Commands[p])
<1>1. Commands[p] \in Seq(CommandType) /\ Resources[p] \in Seq(Resource)
  BY ProfileTypes
<1>2. c \in Nat /\ DOMAIN Commands[p] = 1..c /\ DOMAIN Resources[p] \subseteq Nat \ {0}
  BY <1>1, LenProperties
<1>3. ASSUME NEW x \in populateCmdInfo(p)
      PROVE  \/ \E i \in 1..c :
                  \/ x = Node(p, 2 * i - 1, Commands[p][i].name, TRUE, Commands[p][i].get)
                  \/ x = Node(p, 2 * i, Commands[p][i].name, FALSE, Commands[p][i].set)
             \/ \E i \in DOMAIN Resources[p] :
                  \/ x = Node(p, 2 * (c + i) - 1, Resources[p][i].name, TRUE, <<Resources[p][i]>>)
                  \/ x = Node(p, 2 * (c + i), Resources[p][i].name, FALSE, <<Resources[p][i]>>)
  BY <1>2, NodeOrigin, CommandNodes, ResourceNodes
<1> HIDE DEF c
<1>4. ASSUME NEW i \in 1..c, NEW j \in DOMAIN Resources[p],
             NEW x, NEW y, x.at \in {2 * i - 1, 2 * i}, y.at \in {2 * (c + j) - 1, 2 * (c + j)}
      PROVE  x.at # y.at
  BY <1>2, <1>4
<1>5. CASE \E i \in 1..c : n = Node(p, 2 * i - 1, Commands[p][i].name, TRUE, Commands[p][i].get)
  BY <1>2, <1>3, <1>5 DEF Node
<1>6. CASE \E i \in 1..c : n = Node(p, 2 * i, Commands[p][i].name, FALSE, Commands[p][i].set)
  BY <1>2, <1>3, <1>6 DEF Node
<1>7. CASE \E i \in DOMAIN Resources[p] :
             n = Node(p, 2 * (c + i) - 1, Resources[p][i].name, TRUE, <<Resources[p][i]>>)
  BY <1>2, <1>3, <1>7 DEF Node
<1>8. CASE \E i \in DOMAIN Resources[p] :
             n = Node(p, 2 * (c + i), Resources[p][i].name, FALSE, <<Resources[p][i]>>)
  BY <1>2, <1>3, <1>8 DEF Node
<1> QED BY <1>3, <1>5, <1>6, <1>7, <1>8

(* What runOne says: 405 only of what cannot be done, and success only of  *)
(* what can.                                                               *)
LEMMA RunOne ==
  ASSUME NEW p \in Profile, NEW n \in populateCmdInfo(p), NEW body, NEW s \in runOne(n, body)
  PROVE  /\ s \in {200, 400, 405, 423, 500}
         /\ s = 405 => ~Accessible(n)
         /\ s = 200 => Accessible(n) /\ Len(n.reqs) <= MaxCmdOps
<1>1. n.isget \in BOOLEAN /\ n.reqs \in Seq(Resource) /\ Len(n.reqs) \in Nat
  BY NodeFacts, LenProperties
<1>2. MaxCmdOps \in Nat
  BY CommandsAssumptions
<1>3. CASE s \in {423, 500}
  BY <1>3
<1>4. CASE s \notin {423, 500} /\ n.isget
  <2>1. s \in edgex_device_runget(n.reqs) /\ Len(n.reqs) <= MaxCmdOps
    BY <1>1, <1>2, <1>4 DEF runOne
  <2> QED BY <1>4, <2>1 DEF edgex_device_runget, Accessible
<1>5. CASE s \notin {423, 500} /\ ~n.isget
  <2>1. Len(n.reqs) <= MaxCmdOps /\ (s = 400 \/ s \in edgex_device_runput(n.reqs, body))
    BY <1>1, <1>2, <1>5 DEF runOne
  <2> DEFINE Refused(r) == ~r.writable \/ r.name \notin body.good
             First == FirstRefused(n.reqs, Refused)
  <2>2. CASE s = 400
    BY <2>2
  <2>3. CASE s # 400 /\ \A i \in DOMAIN n.reqs : ~Refused(n.reqs[i])
    <3>1. s = 200
      BY <1>5, <2>1, <2>3, ZenonT(60) DEF edgex_device_runput
    <3> QED BY <1>5, <2>1, <2>3, <3>1 DEF Accessible
  <2>4. CASE s # 400 /\ ~\A i \in DOMAIN n.reqs : ~Refused(n.reqs[i])
    <3>1. s \in {IF n.reqs[i].writable THEN 400 ELSE 405 : i \in First}
      BY <1>5, <2>1, <2>4, ZenonT(60) DEF edgex_device_runput
    <3>2. First \subseteq DOMAIN n.reqs
      BY DEF FirstRefused
    <3> HIDE DEF First
    <3>3. PICK i \in DOMAIN n.reqs : s = IF n.reqs[i].writable THEN 400 ELSE 405
      BY <3>1, <3>2
    <3>4. s = 405 /\ ~n.reqs[i].writable
      BY <2>4, <3>3
    <3> QED BY <1>5, <3>4 DEF Accessible
  <2> QED BY <2>2, <2>3, <2>4
<1> QED BY <1>1, <1>3, <1>4, <1>5
----------------------------------------------------------------------------
(* Types                                                                   *)

LEMMA Types ==
  /\ Device = DOMAIN ProfileOf /\ NULL \notin Http /\ NULL \notin Device /\ NULL \notin Request
  /\ Dev \in Seq(Device) /\ Dev # <<>> /\ MaxCmdOps \in Nat
  /\ \A d \in Device : ProfileOf[d] \in Profile
  /\ \A req \in Request : req.all \in BOOLEAN /\ req.dev \in Device \cup {NULL} /\ req.get \in BOOLEAN
BY CommandsAssumptions DEF Device

LEMMA NoReplyType == NoReply \in ReplyBuffer
<1>1. <<>> \in Seq(Device)
  OBVIOUS
<1> QED BY <1>1 DEF NoReply, ReplyBuffer, Encodings, Ends

LEMMA IdleType == Idle \in ThreadState
<1>1. <<>> \in Seq(Device) /\ <<>> \in Seq(Job) /\ <<>> \in Seq(Answer)
  OBVIOUS
<1> QED BY <1>1, NoReplyType DEF Idle, ThreadState

(* A thread that looks at a profile has the device that it looks at.       *)
LEMMA LookingType ==
  ASSUME TypeOK, NEW t \in Http, http[t].pc \in Looks
  PROVE  /\ http[t].todo \in Seq(Device) /\ http[t].todo # <<>> /\ http[t].req \in Request
         /\ Head(http[t].todo) \in Device /\ Looking(t) \in Profile
         /\ Tail(http[t].todo) \in Seq(Device)
<1>1. http[t] \in ThreadState /\ http[t].todo # <<>> /\ http[t].req \in Request
  BY DEF TypeOK, Looks
<1>2. http[t].todo \in Seq(Device)
  BY <1>1 DEF ThreadState
<1>3. Head(http[t].todo) \in Device /\ Tail(http[t].todo) \in Seq(Device)
  BY <1>1, <1>2, HeadTailProperties
<1> QED BY <1>1, <1>2, <1>3, Types DEF Looking

(* The state of a thread with a type that fits its step.                   *)
GoodState(h) ==
  /\ h \in ThreadState
  /\ h.pc # "idle" => h.req \in Request
  /\ h.pc \in Looks => h.todo # <<>>

LEMMA UpdateType ==
  ASSUME TypeOK, NEW t \in Http, NEW h, GoodState(h), Update(t, h)
  PROVE  /\ http' \in [Http -> ThreadState] /\ http'[t] = h
         /\ \A u \in Http : u # t => http'[u] = http[u]
         /\ \A u \in Http : GoodState(http'[u])
<1>1. http \in [Http -> ThreadState] /\ \A u \in Http : GoodState(http[u])
  BY DEF TypeOK, GoodState
<1>2. http' = [http EXCEPT ![t] = h] /\ h \in ThreadState
  BY DEF Update, GoodState
<1> QED BY <1>1, <1>2

LEMMA NextDeviceType ==
  ASSUME NEW h \in ThreadState, h.req \in Request, h.todo # <<>>
  PROVE  GoodState(NextDevice(h))
<1>1. h.todo \in Seq(Device) /\ Tail(h.todo) \in Seq(Device)
  BY HeadTailProperties DEF ThreadState
<1> DEFINE pc == IF Tail(h.todo) = <<>> THEN "run" ELSE "find"
<1>2. NextDevice(h) = [h EXCEPT !.todo = Tail(h.todo), !.pc = pc]
  BY DEF NextDevice, ThreadState
<1>3. pc \in {"run", "find"} /\ (pc = "find" => Tail(h.todo) # <<>>)
  OBVIOUS
<1> HIDE DEF pc
<1> QED BY <1>1, <1>2, <1>3 DEF GoodState, ThreadState, Looks

LEMMA ReceiveType ==
  ASSUME TypeOK, NEW t \in Http, NEW req \in Request, Receive(t, req)
  PROVE  \E todo \in Seq(Device) :
           LET h == [Idle EXCEPT !.req = req, !.todo = todo, !.pc = IF todo = <<>> THEN "done" ELSE "find"] IN
           /\ Update(t, h) /\ GoodState(h)
           /\ todo = IF req.all THEN Dev ELSE IF req.dev = NULL THEN <<>> ELSE <<req.dev>>
<1> DEFINE todo == IF req.all THEN Dev ELSE IF req.dev = NULL THEN <<>> ELSE <<req.dev>>
<1>1. todo \in Seq(Device)
  <2>1. <<>> \in Seq(Device) /\ Dev \in Seq(Device) /\ (req.dev # NULL => req.dev \in Device)
    BY Types
  <2> QED BY <2>1
<1> DEFINE h == [Idle EXCEPT !.req = req, !.todo = todo, !.pc = IF todo = <<>> THEN "done" ELSE "find"]
<1>2. Update(t, h)
  BY DEF Receive
<1>3. GoodState(h)
  <2> HIDE DEF todo
  <2> QED BY <1>1, IdleType DEF GoodState, ThreadState, Looks
<1> QED BY <1>1, <1>2, <1>3
LEMMA PassOverType ==
  ASSUME TypeOK, NEW t \in Http, PassOver(t)
  PROVE  Update(t, NextDevice(http[t])) /\ GoodState(NextDevice(http[t]))
<1>1. http[t] \in ThreadState /\ http[t].pc = "find" /\ Update(t, NextDevice(http[t]))
  BY DEF PassOver, At, TypeOK
<1>2. http[t].todo # <<>> /\ http[t].req \in Request
  BY <1>1, LookingType DEF Looks
<1> QED BY <1>1, <1>2, NextDeviceType

LEMMA FindType ==
  ASSUME TypeOK, NEW t \in Http, findcommand(t)
  PROVE  LET p == Looking(t)
             h == [http[t] EXCEPT !.pc = IF list[p] = NULL THEN "build" ELSE "walk", !.src = list[p]] IN
         p \in Profile /\ Update(t, h) /\ GoodState(h)
<1> DEFINE p == Looking(t)
           h == [http[t] EXCEPT !.pc = IF list[p] = NULL THEN "build" ELSE "walk", !.src = list[p]]
<1>1. http[t] \in ThreadState /\ http[t].pc = "find" /\ Update(t, h)
  BY DEF findcommand, At, TypeOK
<1>2. http[t].todo # <<>> /\ http[t].req \in Request /\ p \in Profile
  BY <1>1, LookingType DEF Looks
<1>3. list[p] \in Http \cup {NULL}
  BY <1>2 DEF TypeOK
<1>4. GoodState(h)
  <2> HIDE DEF p
  <2> QED BY <1>1, <1>2, <1>3 DEF GoodState, ThreadState
<1> QED BY <1>1, <1>2, <1>4

LEMMA BuiltType ==
  ASSUME TypeOK, NEW t \in Http, Built(t)
  PROVE  LET p == Looking(t)
             h == [http[t] EXCEPT !.pc = "walk", !.src = list[p]] IN
         p \in Profile /\ Update(t, h) /\ GoodState(h)
<1> DEFINE p == Looking(t)
           h == [http[t] EXCEPT !.pc = "walk", !.src = list[p]]
<1>1. http[t] \in ThreadState /\ http[t].pc = "build" /\ Update(t, h)
  BY DEF Built, At, TypeOK
<1>2. http[t].todo # <<>> /\ http[t].req \in Request /\ p \in Profile
  BY <1>1, LookingType DEF Looks
<1>3. list[p] \in Http \cup {NULL}
  BY <1>2 DEF TypeOK
<1>4. GoodState(h)
  <2> HIDE DEF p
  <2> QED BY <1>1, <1>2, <1>3 DEF GoodState, ThreadState
<1> QED BY <1>1, <1>2, <1>4

(* The walk ends with a node of the profile that matches, or with none.    *)
Matching(t) == {n \in Published(Looking(t), http[t].src, http[t].req.cmd) : n.isget = http[t].req.get}

LEMMA NotFoundType ==
  ASSUME NEW h \in ThreadState, h.req \in Request, h.todo # <<>>
  PROVE  GoodState(NotFound(h))
<1> DEFINE g == [h EXCEPT !.src = NULL]
<1>1. g \in ThreadState /\ g.req \in Request /\ g.todo # <<>>
  BY DEF ThreadState
<1>2. GoodState(NextDevice(g))
  <2> HIDE DEF g
  <2> QED BY <1>1, NextDeviceType
<1>3. GoodState([h EXCEPT !.src = NULL, !.pc = "exists"])
  BY DEF GoodState, ThreadState
<1> QED BY <1>2, <1>3 DEF NotFound

Queued(h, n) == [h EXCEPT !.q = <<[dev |-> Head(h.todo), node |-> n]>> \o h.q, !.src = NULL]

LEMMA FoundType ==
  ASSUME NEW h \in ThreadState, h.req \in Request, h.todo # <<>>, NEW n \in NodeOf
  PROVE  /\ Queued(h, n) \in ThreadState
         /\ Found(h, n) = IF h.req.all THEN NextDevice(Queued(h, n)) ELSE [Queued(h, n) EXCEPT !.pc = "run"]
         /\ GoodState(Found(h, n))
<1> DEFINE job == [dev |-> Head(h.todo), node |-> n]
           g == Queued(h, n)
<1>1. Head(h.todo) \in Device /\ h.q \in Seq(Job)
  BY HeadTailProperties DEF ThreadState
<1>2. job \in Job
  BY <1>1 DEF Job
<1>3. <<job>> \o h.q \in Seq(Job)
  <2>1. <<job>> \in Seq(Job)
    BY <1>2
  <2> HIDE DEF job
  <2> QED BY <1>1, <2>1, ConcatProperties
<1>4. g = [h EXCEPT !.q = <<job>> \o h.q, !.src = NULL]
  BY DEF Queued
<1>5. g \in ThreadState /\ g.req \in Request /\ g.todo # <<>>
  <2> HIDE DEF job, g
  <2> QED BY <1>3, <1>4 DEF ThreadState
<1>6. Found(h, n) = IF h.req.all THEN NextDevice(g) ELSE [g EXCEPT !.pc = "run"]
  BY DEF Found, Queued
<1> HIDE DEF g
<1>7. GoodState(NextDevice(g))
  BY <1>5, NextDeviceType
<1>8. GoodState([g EXCEPT !.pc = "run"])
  BY <1>5 DEF GoodState, ThreadState, Looks
<1> QED BY <1>5, <1>6, <1>7, <1>8 DEF g

LEMMA WalkType ==
  ASSUME TypeOK, NEW t \in Http, Walk(t)
  PROVE  /\ http[t] \in ThreadState /\ http[t].pc = "walk" /\ Looking(t) \in Profile
         /\ http[t].todo # <<>> /\ http[t].req \in Request
         /\ \/ Matching(t) = {} /\ Update(t, NotFound(http[t])) /\ GoodState(NotFound(http[t]))
            \/ \E n \in Matching(t) :
                 /\ n \in NodeOf /\ \A m \in Matching(t) : n.at <= m.at
                 /\ Update(t, Found(http[t], n)) /\ GoodState(Found(http[t], n))
<1>1. http[t] \in ThreadState /\ http[t].pc = "walk"
  BY DEF Walk, At, TypeOK
<1>2. http[t].todo # <<>> /\ http[t].req \in Request /\ Looking(t) \in Profile
  BY <1>1, LookingType DEF Looks
<1>3. \/ Matching(t) = {} /\ Update(t, NotFound(http[t]))
      \/ \E n \in Matching(t) : (\A m \in Matching(t) : n.at <= m.at) /\ Update(t, Found(http[t], n))
  BY DEF Walk, Matching
<1>4. Matching(t) \subseteq NodeOf
  BY <1>2 DEF Matching, Published, NodeOf
<1>5. GoodState(NotFound(http[t])) /\ \A n \in Matching(t) : GoodState(Found(http[t], n))
  BY <1>1, <1>2, <1>4, NotFoundType, FoundType
<1> QED BY <1>1, <1>2, <1>3, <1>4, <1>5

ExistsRet(t) == IF Published(Looking(t), list[Looking(t)], http[t].req.cmd) # {} THEN 405 ELSE 404

Declined(t) == [http[t] EXCEPT !.pc = "done", !.ret = ExistsRet(t)]

LEMMA ExistsType ==
  ASSUME TypeOK, NEW t \in Http, commandExists(t)
  PROVE  /\ http[t] \in ThreadState /\ http[t].pc = "exists" /\ Looking(t) \in Profile
         /\ Declined(t).pc = "done" /\ Declined(t).req = http[t].req /\ Declined(t).ret = ExistsRet(t)
         /\ Update(t, Declined(t)) /\ GoodState(Declined(t))
<1>1. http[t] \in ThreadState /\ http[t].pc = "exists"
  BY DEF commandExists, At, TypeOK
<1>2. Update(t, Declined(t))
  BY DEF commandExists, Declined, ExistsRet
<1>3. http[t].todo # <<>> /\ http[t].req \in Request /\ Looking(t) \in Profile
  BY <1>1, LookingType DEF Looks
<1>4. ExistsRet(t) \in Nat
  BY DEF ExistsRet
<1>5. /\ GoodState(Declined(t)) /\ Declined(t).pc = "done"
      /\ Declined(t).req = http[t].req /\ Declined(t).ret = ExistsRet(t)
  BY <1>1, <1>3, <1>4 DEF Declined, GoodState, ThreadState, Looks
<1> QED BY <1>1, <1>2, <1>3, <1>5

LEMMA EncodingType == \A reqs : Encoding(reqs) \in Encodings
BY DEF Encoding, Encodings

LEMMA BufferFields ==
  ASSUME NEW b \in ReplyBuffer
  PROVE  /\ b.events \in Seq(Device) /\ b.enc \in Encodings /\ b.first \in Encodings
         /\ b.used \in Int /\ b.bsize \in Int /\ b.size \in Int
         /\ b.end \in Ends /\ Strcat(b.end) \in Ends
BY DEF ReplyBuffer, Ends, Strcat

LEMMA UpdateOne ==
  ASSUME NEW b \in ReplyBuffer, NEW ev \in Seq(Device), NEW e \in Encodings
  PROVE  [b EXCEPT !.events = ev, !.first = e, !.enc = e] \in ReplyBuffer
BY DEF ReplyBuffer

LEMMA UpdateEnd ==
  ASSUME NEW b \in ReplyBuffer, NEW u \in Int, NEW x \in Ends
  PROVE  [b EXCEPT !.used = u, !.end = x] \in ReplyBuffer
BY DEF ReplyBuffer

LEMMA AppendType ==
  ASSUME NEW b \in ReplyBuffer, NEW d \in Device
  PROVE  /\ AppendJSON(b, d) \in ReplyBuffer /\ AppendCBOR(b, d) \in ReplyBuffer
         /\ \A enc \in Encodings : [b EXCEPT !.events = <<d>>, !.first = enc, !.enc = enc] \in ReplyBuffer
<1> DEFINE events == Append(b.events, d)
           size == b.bsize + EventSize + (IF b.events = <<>> THEN 0 ELSE 1)
           used == b.used + EventSize + (IF b.events = <<>> THEN 0 ELSE 1)
           strcat == Strcat(b.end)
           csize == b.bsize + EventSize
           cused == b.bsize - 2 + EventSize
           first == IF b.events = <<>> THEN "CBOR" ELSE b.first
           open == IF b.end = "nul" THEN "open" ELSE b.end
           one == <<d>>
<1>1. /\ events \in Seq(Device) /\ one \in Seq(Device) /\ size \in Int /\ used \in Int
      /\ strcat \in Ends /\ csize \in Int /\ cused \in Int /\ first \in Encodings /\ open \in Ends
      /\ "JSON" \in Encodings /\ "CBOR" \in Encodings
  <2>1. events \in Seq(Device)
    BY BufferFields, AppendProperties
  <2>2. size \in Int /\ used \in Int /\ csize \in Int /\ cused \in Int
    BY BufferFields DEF EventSize
  <2>3. strcat \in Ends /\ first \in Encodings /\ open \in Ends
    BY BufferFields DEF Ends, Encodings
  <2> QED BY <2>1, <2>2, <2>3 DEF Encodings
<1>2. AppendJSON(b, d) =
        [b EXCEPT !.events = events, !.enc = "JSON", !.bsize = size, !.size = size, !.used = used, !.end = strcat]
  BY Zenon DEF AppendJSON
<1>3. AppendCBOR(b, d) =
        [b EXCEPT !.events = events, !.enc = "CBOR", !.first = first, !.size = csize, !.bsize = csize,
                  !.used = cused, !.end = open]
  BY Zenon DEF AppendCBOR
<1> HIDE DEF events, size, used, strcat, csize, cused, first, open, one
<1>4. AppendJSON(b, d) \in ReplyBuffer
  BY <1>1, <1>2 DEF ReplyBuffer
<1>5. AppendCBOR(b, d) \in ReplyBuffer
  BY <1>1, <1>3 DEF ReplyBuffer
<1>6. \A enc \in Encodings : [b EXCEPT !.events = one, !.first = enc, !.enc = enc] \in ReplyBuffer
  BY <1>1, UpdateOne
<1> QED BY <1>4, <1>5, <1>6 DEF one

LEMMA EndType == ASSUME NEW b \in ReplyBuffer PROVE EndReply(b) \in ReplyBuffer
<1> DEFINE used == b.used + 1
           strcat == Strcat(b.end)
           cused == b.bsize - 1
           nul == IF b.end = "open" THEN "nul" ELSE b.end
<1>1. used \in Int /\ cused \in Int /\ strcat \in Ends /\ nul \in Ends
  BY BufferFields DEF Ends
<1>2. EndReply(b) = IF b.enc = "JSON" THEN [b EXCEPT !.used = used, !.end = strcat]
                    ELSE [b EXCEPT !.used = cused, !.end = nul]
  BY Zenon DEF EndReply
<1> HIDE DEF used, strcat, cused, nul
<1>3. CASE b.enc = "JSON"
  BY <1>1, <1>2, <1>3, UpdateEnd
<1>4. CASE b.enc # "JSON"
  BY <1>1, <1>2, <1>4, UpdateEnd
<1> QED BY <1>3, <1>4

(* What becomes of a thread that has run its next command.                 *)
IsEvent(h, status) == Head(h.q).node.isget /\ status = 200

RunReply(h, status) ==
  LET job == Head(h.q)
      enc == Encoding(job.node.reqs)
  IN IF ~IsEvent(h, status) THEN h.reply
     ELSE IF ~h.req.all THEN [h.reply EXCEPT !.events = <<job.dev>>, !.first = enc, !.enc = enc]
     ELSE IF enc = "JSON" THEN AppendJSON(h.reply, job.dev) ELSE AppendCBOR(h.reply, job.dev)

RunAnswered(h, status) ==
  LET job == Head(h.q) IN
  IF IsEvent(h, status) THEN Append(h.answered, [dev |-> job.dev, enc |-> Encoding(job.node.reqs)])
  ELSE h.answered

HasRun(h, status) ==
  [h EXCEPT !.q = Tail(h.q), !.todo = <<>>, !.ret = IF h.ret = 200 THEN 200 ELSE status,
            !.answered = RunAnswered(h, status), !.reply = RunReply(h, status)]

LEMMA RunType ==
  ASSUME TypeOK, NEW t \in Http, At(t, "run"), http[t].q # <<>>,
         NEW s \in runOne(Head(http[t].q).node, http[t].req.body), Run(t, s)
  PROVE  /\ http[t] \in ThreadState /\ http[t].req \in Request /\ s \in Nat
         /\ Head(http[t].q) \in Job /\ Tail(http[t].q) \in Seq(Job)
         /\ Update(t, HasRun(http[t], s)) /\ GoodState(HasRun(http[t], s))
<1> DEFINE h == http[t]
           job == Head(h.q)
<1>1. h \in ThreadState /\ h.pc = "run" /\ h.req \in Request
  BY DEF At, TypeOK
<1>2. h.q \in Seq(Job) /\ h.reply \in ReplyBuffer /\ h.answered \in Seq(Answer)
  BY <1>1 DEF ThreadState
<1>3. job \in Job /\ Tail(h.q) \in Seq(Job)
  BY <1>2, HeadTailProperties
<1>4. PICK p \in Profile : job.node \in populateCmdInfo(p)
  BY <1>3 DEF Job, NodeOf
<1>5. s \in {200, 400, 405, 423, 500}
  BY <1>4, RunOne
<1>6. Update(t, HasRun(h, s))
  BY <1>1 DEF Run, HasRun, RunReply, RunAnswered, IsEvent, ThreadState
<1>7. job.dev \in Device /\ Encoding(job.node.reqs) \in Encodings
  BY <1>3, EncodingType DEF Job
<1> HIDE DEF job, h
<1>8. RunReply(h, s) \in ReplyBuffer
  BY <1>2, <1>7, AppendType DEF RunReply, job
<1>9. RunAnswered(h, s) \in Seq(Answer)
  <2> DEFINE answer == [dev |-> job.dev, enc |-> Encoding(job.node.reqs)]
  <2>1. answer \in Answer
    BY <1>7 DEF Answer
  <2>2. RunAnswered(h, s) \in {h.answered, Append(h.answered, answer)}
    BY DEF RunAnswered, job
  <2> HIDE DEF answer
  <2>3. Append(h.answered, answer) \in Seq(Answer)
    BY <1>2, <2>1, AppendProperties
  <2> QED BY <1>2, <2>2, <2>3
<1>10. GoodState(HasRun(h, s))
  <2>1. <<>> \in Seq(Device)
    OBVIOUS
  <2> DEFINE ret == IF h.ret = 200 THEN 200 ELSE s
             q == Tail(h.q)
  <2>2. ret \in Nat
    BY <1>1, <1>5 DEF ThreadState
  <2>3. q \in Seq(Job)
    BY <1>3
  <2>4. HasRun(h, s) = [h EXCEPT !.q = q, !.todo = <<>>, !.ret = ret,
                          !.answered = RunAnswered(h, s), !.reply = RunReply(h, s)]
    BY DEF HasRun
  <2> HIDE DEF ret, q
  <2> QED BY <1>1, <1>8, <1>9, <2>1, <2>2, <2>3, <2>4, ZenonT(60) DEF GoodState, ThreadState, Looks
<1> QED BY <1>1, <1>3, <1>5, <1>6, <1>10 DEF h, job

Ended(h) == [h EXCEPT !.pc = "done", !.reply = IF h.req.all /\ h.ret = 200 THEN EndReply(h.reply) ELSE h.reply]

LEMMA ReplyType ==
  ASSUME TypeOK, NEW t \in Http, Reply(t)
  PROVE  /\ http[t] \in ThreadState /\ http[t].pc = "run" /\ http[t].req \in Request
         /\ Update(t, Ended(http[t])) /\ GoodState(Ended(http[t]))
<1> DEFINE h == http[t]
<1>1. h \in ThreadState /\ h.pc = "run" /\ h.req \in Request
  BY DEF Reply, At, TypeOK
<1>2. Update(t, Ended(h))
  BY <1>1 DEF Reply, Ended, ThreadState
<1> HIDE DEF h
<1>3. h.reply \in ReplyBuffer
  BY <1>1 DEF ThreadState
<1>4. EndReply(h.reply) \in ReplyBuffer
  BY <1>3, EndType
<1>5. GoodState(Ended(h))
  BY <1>1, <1>3, <1>4 DEF Ended, GoodState, ThreadState, Looks
<1> QED BY <1>1, <1>2, <1>5 DEF h

(* The list of a profile grows.                                            *)
LEMMA BuildType ==
  ASSUME TypeOK, NEW t \in Http, Build(t)
  PROVE  LET p == Looking(t) IN
         /\ p \in Profile /\ http' = http /\ overlapped' = overlapped
         /\ list' \in [Profile -> Http \cup {NULL}] /\ built' \in [Profile -> [Http -> Nat]]
         /\ \E n \in populateCmdInfo(p) :
              /\ n.at > built[p][t] /\ n.at \in Nat \ {0}
              /\ built' = [built EXCEPT ![p][t] = n.at]
         /\ list' = IF built[p][t] = 0 THEN [list EXCEPT ![p] = t] ELSE list
<1> DEFINE p == Looking(t)
<1>1. http[t].pc = "build" /\ http[t].pc \in Looks
  BY DEF Build, At, Looks
<1>2. p \in Profile
  BY <1>1, LookingType
<1>3. PICK n \in populateCmdInfo(p) : n.at > built[p][t] /\ built' = [built EXCEPT ![p][t] = n.at]
  BY DEF Build
<1>4. n.at \in Nat \ {0}
  BY <1>2, <1>3, NodeFacts
<1>5. list' = (IF built[p][t] = 0 THEN [list EXCEPT ![p] = t] ELSE list) /\ http' = http /\ overlapped' = overlapped
  BY DEF Build
<1> HIDE DEF p
<1>6. list' \in [Profile -> Http \cup {NULL}]
  BY <1>2, <1>5 DEF TypeOK
<1>7. built' \in [Profile -> [Http -> Nat]]
  BY <1>2, <1>3, <1>4 DEF TypeOK
<1> QED BY <1>2, <1>3, <1>4, <1>5, <1>6, <1>7 DEF p

LEMMA TypeKept ==
  ASSUME TypeOK, NEW t \in Http, NEW h, GoodState(h), Update(t, h),
         UNCHANGED <<list, built>>, overlapped' \subseteq Profile
  PROVE  TypeOK'
<1>1. http' \in [Http -> ThreadState] /\ \A u \in Http : GoodState(http'[u])
  BY UpdateType
<1> QED BY <1>1 DEF TypeOK, GoodState

LEMMA TypeStep == TypeOK /\ [Next]_vars => TypeOK'
<1> SUFFICES ASSUME TypeOK, [Next]_vars PROVE TypeOK'
  OBVIOUS
<1>1. CASE UNCHANGED vars
  BY <1>1 DEF vars, TypeOK
<1> SUFFICES ASSUME NEW t \in Http, Serve(t) \/ \E req \in Request : Receive(t, req) PROVE TypeOK'
  BY <1>1 DEF Next
<1>2. ASSUME NEW req \in Request, Receive(t, req) PROVE TypeOK'
  <2>1. UNCHANGED <<list, built, overlapped>>
    BY <1>2 DEF Receive
  <2>2. \E h : Update(t, h) /\ GoodState(h)
    BY <1>2, ReceiveType
  <2> QED BY <2>1, <2>2, TypeKept DEF TypeOK
<1>3. CASE PassOver(t)
  <2>1. UNCHANGED <<list, built, overlapped>>
    BY <1>3 DEF PassOver
  <2> QED BY <1>3, <2>1, PassOverType, TypeKept DEF TypeOK
<1>4. CASE findcommand(t)
  <2>1. UNCHANGED <<list, built>> /\ overlapped' \subseteq overlapped \cup {Looking(t)}
    BY <1>4 DEF findcommand
  <2> DEFINE p == Looking(t)
             h == [http[t] EXCEPT !.pc = IF list[p] = NULL THEN "build" ELSE "walk", !.src = list[p]]
  <2>2. p \in Profile /\ Update(t, h) /\ GoodState(h)
    BY <1>4, FindType
  <2>3. overlapped' \subseteq Profile
    BY <2>1, <2>2 DEF TypeOK
  <2> HIDE DEF h
  <2> QED BY <2>1, <2>2, <2>3, TypeKept
<1>5. CASE Build(t)
  BY <1>5, BuildType DEF TypeOK
<1>6. CASE Built(t)
  <2>1. UNCHANGED <<list, built, overlapped>>
    BY <1>6 DEF Built
  <2> DEFINE h == [http[t] EXCEPT !.pc = "walk", !.src = list[Looking(t)]]
  <2>2. Update(t, h) /\ GoodState(h)
    BY <1>6, BuiltType
  <2> HIDE DEF h
  <2> QED BY <2>1, <2>2, TypeKept DEF TypeOK
<1>7. CASE Walk(t)
  <2>1. UNCHANGED <<list, built, overlapped>>
    BY <1>7 DEF Walk
  <2>2. \E h : Update(t, h) /\ GoodState(h)
    BY <1>7, WalkType
  <2> QED BY <2>1, <2>2, TypeKept DEF TypeOK
<1>8. CASE commandExists(t)
  <2>1. UNCHANGED <<list, built, overlapped>>
    BY <1>8 DEF commandExists
  <2> QED BY <1>8, <2>1, ExistsType, TypeKept DEF TypeOK
<1>9. ASSUME At(t, "run"), http[t].q # <<>>,
             NEW s \in runOne(Head(http[t].q).node, http[t].req.body), Run(t, s)
      PROVE  TypeOK'
  <2>1. UNCHANGED <<list, built, overlapped>>
    BY <1>9 DEF Run
  <2>2. Update(t, HasRun(http[t], s)) /\ GoodState(HasRun(http[t], s))
    BY <1>9, RunType
  <2> QED BY <2>1, <2>2, TypeKept DEF TypeOK
<1>10. CASE Reply(t)
  <2>1. UNCHANGED <<list, built, overlapped>>
    BY <1>10 DEF Reply
  <2> QED BY <1>10, <2>1, ReplyType, TypeKept DEF TypeOK
<1>11. CASE Done(t)
  <2>1. UNCHANGED <<list, built, overlapped>> /\ Update(t, Idle)
    BY <1>11 DEF Done
  <2>2. GoodState(Idle)
    BY IdleType DEF GoodState, Idle, Looks
  <2> QED BY <2>1, <2>2, TypeKept DEF TypeOK
<1> QED BY <1>2, <1>3, <1>4, <1>5, <1>6, <1>7, <1>8, <1>9, <1>10, <1>11 DEF Serve

LEMMA TypeInit == Init => TypeOK
<1> SUFFICES ASSUME Init PROVE TypeOK
  OBVIOUS
<1>1. Idle \in ThreadState /\ Idle.pc = "idle"
  BY IdleType DEF Idle
<1>2. \A t \in Http : http[t] = Idle
  BY DEF Init
<1>3. http \in [Http -> ThreadState]
  BY <1>1 DEF Init
<1>4. \A t \in Http : http[t].pc \notin Looks
  BY <1>1, <1>2 DEF Looks
<1> QED BY <1>1, <1>2, <1>3, <1>4 DEF TypeOK, Init

(* Type correctness.                                                       *)
THEOREM TypeCorrect == Spec => []TypeOK
BY TypeInit, TypeStep, PTL DEF Spec
----------------------------------------------------------------------------
(* The list                                                                *)

(* A step of one thread leaves the others where they are.                  *)
LEMMA OthersStay ==
  ASSUME TypeOK, NEW t \in Http, NEW h, GoodState(h), Update(t, h), UNCHANGED <<list, built>>
  PROVE  /\ http'[t] = h
         /\ \A u \in Http \ {t} : http'[u] = http[u] /\ Looking(u)' = Looking(u)
         /\ \A u \in Http \ {t}, p \in Profile :
              /\ Building(u, p)' <=> Building(u, p)
              /\ (At(u, "walk") /\ Looking(u) = p)' <=> (At(u, "walk") /\ Looking(u) = p)
              /\ (At(u, "exists") /\ Looking(u) = p)' <=> (At(u, "exists") /\ Looking(u) = p)
<1>1. http'[t] = h /\ \A u \in Http : u # t => http'[u] = http[u]
  BY UpdateType
<1> QED BY <1>1 DEF Looking, Building, At

(* A step of a thread that neither builds nor begins to build, and is not  *)
(* in a walk or in commandExists after it.                                 *)
LEMMA ListQuiet ==
  ASSUME TypeOK, ListInv, NEW t \in Http, NEW h, GoodState(h), Update(t, h),
         UNCHANGED <<list, built, overlapped>>,
         http[t].pc # "build", h.pc \notin {"build", "walk", "exists"}
  PROVE  ListInv'
<1>1. http'[t] = h /\ \A u \in Http, p \in Profile : Building(u, p)' <=> Building(u, p)
  BY OthersStay DEF Building, At
<1>2. \A p \in Profile : (list[p] \in Http \cup {NULL}) /\ (Settled(p)' <=> Settled(p))
  BY <1>1 DEF Settled, TypeOK
<1> SUFFICES ASSUME NEW p \in Profile
             PROVE  /\ NotBegun(p)'
                    /\ p \notin overlapped' =>
                         OneBuilder(p)' /\ SettledWhole(p)' /\ \A u \in Http : Walks(u, p)' /\ Asks(u, p)'
  BY DEF ListInv
<1>3. NotBegun(p)'
  BY DEF ListInv, NotBegun
<1>4. ASSUME p \notin overlapped PROVE OneBuilder(p)' /\ SettledWhole(p)'
  BY <1>1, <1>2, <1>4 DEF ListInv, OneBuilder, SettledWhole, Complete
<1>5. ASSUME p \notin overlapped, NEW u \in Http PROVE Walks(u, p)' /\ Asks(u, p)'
  <2>1. CASE u = t
    BY <1>1, <2>1 DEF Walks, Asks, At
  <2>2. CASE u # t
    BY <1>2, <1>5, <2>2, OthersStay DEF ListInv, Walks, Asks
  <2> QED BY <2>1, <2>2
<1> QED BY <1>3, <1>4, <1>5

(* Who finds no list begins one, alone if nobody is at it; who finds one   *)
(* that nobody builds walks along all of it.                               *)
LEMMA ListFind ==
  ASSUME TypeOK, ListInv, NEW t \in Http, findcommand(t)
  PROVE  ListInv'
<1> DEFINE q == Looking(t)
           h == [http[t] EXCEPT !.pc = IF list[q] = NULL THEN "build" ELSE "walk", !.src = list[q]]
<1>1. q \in Profile /\ Update(t, h) /\ GoodState(h)
  BY FindType
<1>2. /\ UNCHANGED <<list, built>> /\ overlapped \subseteq overlapped'
      /\ q \notin overlapped' => \A u \in Http : ~Building(u, q)
  BY DEF findcommand, Building
<1>3. http[t] \in ThreadState /\ http[t].pc = "find"
  BY DEF findcommand, At, TypeOK
<1>4. h.pc = (IF list[q] = NULL THEN "build" ELSE "walk") /\ h.src = list[q] /\ h.todo = http[t].todo
  BY <1>3 DEF ThreadState
<1> HIDE DEF h
<1>5. /\ http'[t] = h /\ Looking(t)' = q
      /\ \A u \in Http \ {t}, p \in Profile : Building(u, p)' <=> Building(u, p)
      /\ \A p \in Profile : Building(t, p)' <=> p = q /\ list[q] = NULL
      /\ \A p \in Profile : ~Building(t, p)
  <2>1. http'[t] = h /\ \A u \in Http \ {t}, p \in Profile : Building(u, p)' <=> Building(u, p)
    BY <1>1, <1>2, OthersStay
  <2>2. Looking(t)' = q
    BY <1>4, <2>1 DEF Looking
  <2>3. http'[t].pc = "build" <=> list[q] = NULL
    BY <1>4, <2>1
  <2>4. \A p \in Profile : Building(t, p)' <=> p = q /\ list[q] = NULL
    BY <2>2, <2>3 DEF Building, At
  <2>5. \A p \in Profile : ~Building(t, p)
    BY <1>3 DEF Building, At
  <2> QED BY <2>1, <2>2, <2>4, <2>5
<1>6. \A p \in Profile : list[p] \in Http \cup {NULL}
  BY DEF TypeOK
<1> HIDE DEF q
<1>7. \A p \in Profile : p \notin overlapped' => (Settled(p)' <=> Settled(p))
  BY <1>1, <1>2, <1>5, <1>6 DEF Settled
<1> SUFFICES ASSUME NEW p \in Profile
             PROVE  /\ NotBegun(p)'
                    /\ p \notin overlapped' =>
                         OneBuilder(p)' /\ SettledWhole(p)' /\ \A u \in Http : Walks(u, p)' /\ Asks(u, p)'
  BY DEF ListInv
<1>8. NotBegun(p)'
  BY <1>2 DEF ListInv, NotBegun
<1>9. ASSUME p \notin overlapped' PROVE OneBuilder(p)'
  BY <1>2, <1>5, <1>9 DEF ListInv, OneBuilder
<1>10. ASSUME p \notin overlapped' PROVE SettledWhole(p)'
  <2>1. SUFFICES ASSUME Settled(p) PROVE Complete(p, list[p])' /\ \A u \in Http : ~Building(u, p)'
    BY <1>7, <1>10 DEF SettledWhole
  <2>2. Complete(p, list[p]) /\ \A u \in Http : ~Building(u, p)
    BY <1>2, <1>10, <2>1 DEF ListInv, SettledWhole
  <2>3. list[p] # NULL
    BY <2>1 DEF Settled
  <2> QED BY <1>2, <1>5, <2>2, <2>3 DEF Complete
<1>11. ASSUME p \notin overlapped', NEW u \in Http PROVE Walks(u, p)' /\ Asks(u, p)'
  <2>1. CASE u = t
    <3>1. ASSUME At(t, "walk")', p = q PROVE Settled(p)' /\ http'[t].src = list'[p] /\ http'[t].src # NULL
      <4>1. list[q] # NULL /\ http'[t].src = list[q]
        BY <1>4, <1>5, <3>1 DEF At
      <4>2. Settled(p)
        BY <1>2, <1>6, <1>11, <3>1, <4>1 DEF Settled
      <4> QED BY <1>2, <1>7, <1>11, <3>1, <4>1, <4>2
    <3>2. ~At(t, "exists")'
      BY <1>4, <1>5 DEF At
    <3> QED BY <1>5, <2>1, <3>1, <3>2 DEF Walks, Asks
  <2>2. CASE u # t
    <3>1. Walks(u, p) /\ Asks(u, p)
      BY <1>2, <1>11 DEF ListInv
    <3>2. http'[u] = http[u] /\ Looking(u)' = Looking(u)
      BY <1>1, <1>2, <2>2, OthersStay
    <3> QED BY <1>2, <1>7, <1>11, <3>1, <3>2 DEF Walks, Asks, At
  <2> QED BY <2>1, <2>2
<1> QED BY <1>8, <1>9, <1>10, <1>11

(* While the one who builds a list is at it, the list is not settled.      *)
LEMMA ListBuild ==
  ASSUME TypeOK, ListInv, NEW t \in Http, Build(t)
  PROVE  ListInv'
<1>0. PICK q \in Profile : q = Looking(t)
  BY BuildType
<1>1. q \in Profile /\ http' = http /\ overlapped' = overlapped
  BY BuildType
<1>2. PICK n \in populateCmdInfo(q) :
        n.at > built[q][t] /\ n.at \in Nat \ {0} /\ built' = [built EXCEPT ![q][t] = n.at]
  BY <1>0, BuildType
<1>3. list' = IF built[q][t] = 0 THEN [list EXCEPT ![q] = t] ELSE list
  BY <1>0, BuildType
<1>4. Building(t, q)
  BY <1>0 DEF Build, Building
<1>5. NULL \notin Http /\ \A p \in Profile : list[p] \in Http \cup {NULL}
  BY Types DEF TypeOK
<1>6. \A u \in Http, p \in Profile :
        /\ Building(u, p)' <=> Building(u, p)
        /\ Walks(u, p)' <=> (At(u, "walk") /\ Looking(u) = p =>
             IF http[u].src = NULL THEN populateCmdInfo(p) = {} ELSE Settled(p)' /\ http[u].src = list'[p])
        /\ Asks(u, p)' <=> (At(u, "exists") /\ Looking(u) = p => populateCmdInfo(p) = {} \/ Settled(p)')
  BY <1>1 DEF Building, Walks, Asks, At, Looking
<1> SUFFICES ASSUME NEW p \in Profile
             PROVE  /\ NotBegun(p)'
                    /\ p \notin overlapped' =>
                         OneBuilder(p)' /\ SettledWhole(p)' /\ \A u \in Http : Walks(u, p)' /\ Asks(u, p)'
  BY DEF ListInv
<1>7. CASE p # q
  <2>1. list'[p] = list[p] /\ built'[p] = built[p]
    BY <1>1, <1>2, <1>3, <1>7 DEF TypeOK
  <2>2. Settled(p)' <=> Settled(p)
    BY <1>5, <1>6, <2>1 DEF Settled
  <2>3. NotBegun(p)'
    BY <2>1 DEF ListInv, NotBegun
  <2>4. ASSUME p \notin overlapped PROVE OneBuilder(p)' /\ SettledWhole(p)'
    BY <1>5, <1>6, <2>1, <2>2, <2>4 DEF ListInv, OneBuilder, SettledWhole, Complete, Settled
  <2>5. ASSUME p \notin overlapped, NEW u \in Http PROVE Walks(u, p)' /\ Asks(u, p)'
    BY <1>6, <2>1, <2>2, <2>5 DEF ListInv, Walks, Asks
  <2> QED BY <1>1, <2>3, <2>4, <2>5
<1>8. CASE p = q
  <2>1. list'[q] # NULL
    <3>1. CASE built[q][t] = 0
      BY <1>1, <1>3, <1>5, <3>1 DEF TypeOK
    <3>2. CASE built[q][t] # 0
      BY <1>1, <1>3, <3>2 DEF ListInv, NotBegun
    <3> QED BY <3>1, <3>2
  <2>2. NotBegun(p)'
    BY <1>8, <2>1 DEF NotBegun
  <2>3. ASSUME q \notin overlapped PROVE ~Settled(q) /\ ~Settled(q)' /\ OneBuilder(q)
    <3>1. ~Settled(q) /\ OneBuilder(q)
      BY <1>1, <1>4, <2>3 DEF ListInv, SettledWhole
    <3>2. CASE built[q][t] = 0
      <4>1. list'[q] = t
        BY <1>1, <1>3, <3>2 DEF TypeOK
      <4> QED BY <1>1, <1>4, <1>6, <3>1, <4>1 DEF Settled
    <3>3. CASE built[q][t] # 0
      <4>1. list' = list /\ list[q] \in Http
        BY <1>1, <1>3, <1>5, <2>1, <3>3
      <4> QED BY <1>1, <1>6, <3>1, <4>1 DEF Settled
    <3> QED BY <3>1, <3>2, <3>3
  <2>4. ASSUME q \notin overlapped PROVE OneBuilder(q)' /\ SettledWhole(q)'
    BY <1>1, <1>6, <2>3, <2>4 DEF OneBuilder, SettledWhole
  <2>5. ASSUME q \notin overlapped, NEW u \in Http PROVE Walks(u, q)' /\ Asks(u, q)'
    BY <1>1, <1>6, <2>3, <2>5 DEF ListInv, Walks, Asks
  <2> QED BY <1>1, <1>8, <2>2, <2>4, <2>5
<1> QED BY <1>7, <1>8

(* Who has built the list leaves it settled.                               *)
LEMMA ListBuilt ==
  ASSUME TypeOK, ListInv, NEW t \in Http, Built(t)
  PROVE  ListInv'
<1>0. PICK q \in Profile : q = Looking(t)
  BY BuiltType
<1> DEFINE h == [http[t] EXCEPT !.pc = "walk", !.src = list[q]]
<1>1. Update(t, h) /\ GoodState(h)
  BY <1>0, BuiltType
<1>2. UNCHANGED <<list, built, overlapped>> /\ Complete(q, t)
  BY <1>0 DEF Built, Complete
<1>3. http[t] \in ThreadState /\ Building(t, q) /\ http[t].pc = "build"
  BY <1>0 DEF Built, Building, At, TypeOK
<1>4. h.pc = "walk" /\ h.src = list[q] /\ h.todo = http[t].todo
  BY <1>3 DEF ThreadState
<1> HIDE DEF h
<1>5. /\ http'[t] = h /\ Looking(t)' = q
      /\ \A u \in Http \ {t}, p \in Profile : Building(u, p)' <=> Building(u, p)
      /\ \A p \in Profile : ~Building(t, p)' /\ (Building(t, p) <=> p = q)
  BY <1>0, <1>1, <1>2, <1>3, <1>4, OthersStay DEF Building, At, Looking
<1>6. NULL \notin Http /\ \A p \in Profile : list[p] \in Http \cup {NULL}
  BY Types DEF TypeOK
<1>7. \A p \in Profile \ {q} : Settled(p)' <=> Settled(p)
  BY <1>2, <1>5, <1>6 DEF Settled
<1>8. ASSUME q \notin overlapped
      PROVE  /\ ~Settled(q) /\ \A u \in Http : ~Building(u, q)'
             /\ list[q] = NULL => populateCmdInfo(q) = {}
             /\ list[q] # NULL => list[q] = t /\ Settled(q)'
  <2>1. OneBuilder(q) /\ ~Settled(q) /\ NotBegun(q)
    BY <1>3, <1>8 DEF ListInv, SettledWhole
  <2>2. \A u \in Http : ~Building(u, q)'
    BY <1>3, <1>5, <2>1 DEF OneBuilder
  <2>3. ASSUME list[q] = NULL PROVE populateCmdInfo(q) = {}
    <3>1. built[q][t] = 0
      BY <2>1, <2>3 DEF NotBegun
    <3>2. SUFFICES ASSUME NEW n \in populateCmdInfo(q) PROVE FALSE
      OBVIOUS
    <3>3. n.at \in Nat \ {0}
      BY NodeFacts
    <3> QED BY <1>2, <3>1, <3>2, <3>3 DEF Complete
  <2>4. ASSUME list[q] # NULL PROVE list[q] = t /\ Settled(q)'
    <3>1. list[q] = t
      BY <1>3, <1>6, <2>1, <2>4 DEF Settled, OneBuilder
    <3> QED BY <1>2, <1>5, <2>4, <3>1 DEF Settled
  <2> QED BY <2>1, <2>2, <2>3, <2>4
<1> SUFFICES ASSUME NEW p \in Profile
             PROVE  /\ NotBegun(p)'
                    /\ p \notin overlapped' =>
                         OneBuilder(p)' /\ SettledWhole(p)' /\ \A u \in Http : Walks(u, p)' /\ Asks(u, p)'
  BY DEF ListInv
<1>9. NotBegun(p)'
  BY <1>2 DEF ListInv, NotBegun
<1>10. ASSUME p \notin overlapped PROVE OneBuilder(p)' /\ SettledWhole(p)'
  <2>1. CASE p = q
    BY <1>2, <1>5, <1>8, <1>10, <2>1 DEF OneBuilder, SettledWhole, Complete, Settled
  <2>2. CASE p # q
    BY <1>2, <1>5, <1>7, <1>10, <2>2 DEF ListInv, OneBuilder, SettledWhole, Complete
  <2> QED BY <2>1, <2>2
<1>11. ASSUME p \notin overlapped, NEW u \in Http PROVE Walks(u, p)' /\ Asks(u, p)'
  <2>1. CASE u = t
    <3>1. At(t, "walk")' /\ ~At(t, "exists")' /\ http'[t].src = list[q]
      BY <1>4, <1>5 DEF At
    <3>2. CASE p = q
      BY <1>2, <1>8, <1>11, <2>1, <3>1, <3>2 DEF Walks, Asks
    <3>3. CASE p # q
      BY <1>5, <2>1, <3>1, <3>3 DEF Walks, Asks
    <3> QED BY <3>2, <3>3
  <2>2. CASE u # t
    <3>1. Walks(u, p) /\ Asks(u, p)
      BY <1>11 DEF ListInv
    <3>2. http'[u] = http[u] /\ Looking(u)' = Looking(u)
      BY <1>1, <1>2, <2>2, OthersStay
    <3>3. Settled(p) => Settled(p)'
      BY <1>7, <1>8, <1>11
    <3> QED BY <1>2, <3>1, <3>2, <3>3 DEF Walks, Asks, At
  <2> QED BY <2>1, <2>2
<1> QED BY <1>2, <1>9, <1>10, <1>11

(* Who finds nothing has walked along the whole list, or there is none.    *)
LEMMA ListNotFound ==
  ASSUME TypeOK, ListInv, NEW t \in Http, Walk(t), ~http[t].req.all,
         Update(t, NotFound(http[t])), GoodState(NotFound(http[t]))
  PROVE  ListInv'
<1>0. PICK q \in Profile : q = Looking(t)
  BY WalkType
<1> DEFINE h == [http[t] EXCEPT !.src = NULL, !.pc = "exists"]
<1>1. Update(t, h) /\ GoodState(h)
  BY DEF NotFound
<1>2. UNCHANGED <<list, built, overlapped>>
  BY DEF Walk
<1>3. http[t] \in ThreadState /\ http[t].pc = "walk"
  BY DEF Walk, At, TypeOK
<1>4. h.pc = "exists" /\ h.todo = http[t].todo
  BY <1>3 DEF ThreadState
<1> HIDE DEF h
<1>5. /\ http'[t] = h /\ Looking(t)' = q
      /\ \A u \in Http, p \in Profile : Building(u, p)' <=> Building(u, p)
  BY <1>0, <1>1, <1>2, <1>3, <1>4, OthersStay DEF Building, At, Looking
<1>6. \A p \in Profile : (list[p] \in Http \cup {NULL}) /\ (Settled(p)' <=> Settled(p))
  BY <1>2, <1>5 DEF Settled, TypeOK
<1> SUFFICES ASSUME NEW p \in Profile
             PROVE  /\ NotBegun(p)'
                    /\ p \notin overlapped' =>
                         OneBuilder(p)' /\ SettledWhole(p)' /\ \A u \in Http : Walks(u, p)' /\ Asks(u, p)'
  BY DEF ListInv
<1>7. NotBegun(p)'
  BY <1>2 DEF ListInv, NotBegun
<1>8. ASSUME p \notin overlapped PROVE OneBuilder(p)' /\ SettledWhole(p)'
  BY <1>2, <1>5, <1>6, <1>8 DEF ListInv, OneBuilder, SettledWhole, Complete
<1>9. ASSUME p \notin overlapped, NEW u \in Http PROVE Walks(u, p)' /\ Asks(u, p)'
  <2>1. CASE u = t
    <3>1. ~At(t, "walk")'
      BY <1>4, <1>5 DEF At
    <3>2. p = q => populateCmdInfo(p) = {} \/ Settled(p)
      BY <1>0, <1>3, <1>9 DEF ListInv, Walks, At
    <3> QED BY <1>5, <1>6, <2>1, <3>1, <3>2 DEF Walks, Asks
  <2>2. CASE u # t
    <3>1. Walks(u, p) /\ Asks(u, p)
      BY <1>9 DEF ListInv
    <3>2. http'[u] = http[u] /\ Looking(u)' = Looking(u)
      BY <1>1, <1>2, <2>2, OthersStay
    <3> QED BY <1>2, <1>6, <3>1, <3>2 DEF Walks, Asks, At
  <2> QED BY <2>1, <2>2
<1> QED BY <1>2, <1>7, <1>8, <1>9

(* What a thread does after a device, or when it has a command to run.     *)
LEMMA NextDevicePc ==
  ASSUME NEW h \in ThreadState
  PROVE  NextDevice(h).pc \in {"run", "find"}
BY DEF NextDevice, ThreadState

LEMMA WalkPc ==
  ASSUME NEW h \in ThreadState, h.req \in Request, h.todo # <<>>
  PROVE  /\ h.req.all => NotFound(h).pc \in {"run", "find"}
         /\ \A n \in NodeOf : Found(h, n).pc \in {"run", "find"}
<1>1. [h EXCEPT !.src = NULL] \in ThreadState
  BY DEF ThreadState
<1>2. h.req.all => NotFound(h).pc \in {"run", "find"}
  BY <1>1, NextDevicePc DEF NotFound
<1>3. ASSUME NEW n \in NodeOf PROVE Found(h, n).pc \in {"run", "find"}
  <2>1. Queued(h, n) \in ThreadState
    BY FoundType
  <2>2. Found(h, n) = IF h.req.all THEN NextDevice(Queued(h, n)) ELSE [Queued(h, n) EXCEPT !.pc = "run"]
    BY FoundType
  <2>3. NextDevice(Queued(h, n)).pc \in {"run", "find"}
    BY <2>1, NextDevicePc
  <2>4. [Queued(h, n) EXCEPT !.pc = "run"].pc = "run"
    BY <2>1 DEF ThreadState
  <2> QED BY <2>2, <2>3, <2>4
<1> QED BY <1>2, <1>3

LEMMA ListWalk ==
  ASSUME TypeOK, ListInv, NEW t \in Http, Walk(t)
  PROVE  ListInv'
<1>1. /\ http[t] \in ThreadState /\ http[t].pc = "walk" /\ http[t].todo # <<>> /\ http[t].req \in Request
      /\ \/ Update(t, NotFound(http[t])) /\ GoodState(NotFound(http[t]))
         \/ \E n \in NodeOf : Update(t, Found(http[t], n)) /\ GoodState(Found(http[t], n))
  BY WalkType
<1>2. UNCHANGED <<list, built, overlapped>>
  BY DEF Walk
<1>3. CASE Update(t, NotFound(http[t])) /\ GoodState(NotFound(http[t])) /\ ~http[t].req.all
  BY <1>3, ListNotFound
<1>4. CASE Update(t, NotFound(http[t])) /\ GoodState(NotFound(http[t])) /\ http[t].req.all
  BY <1>1, <1>2, <1>4, WalkPc, ListQuiet
<1>5. CASE \E n \in NodeOf : Update(t, Found(http[t], n)) /\ GoodState(Found(http[t], n))
  BY <1>1, <1>2, <1>5, WalkPc, ListQuiet
<1> QED BY <1>1, <1>3, <1>4, <1>5

LEMMA ListStep == TypeOK /\ ListInv /\ [Next]_vars => ListInv'
<1> SUFFICES ASSUME TypeOK, ListInv, [Next]_vars PROVE ListInv'
  OBVIOUS
<1>1. CASE UNCHANGED vars
  BY <1>1 DEF vars, ListInv, NotBegun, OneBuilder, SettledWhole, Settled, Complete, Building, Walks, Asks,
              At, Looking
<1> SUFFICES ASSUME NEW t \in Http, Serve(t) \/ \E req \in Request : Receive(t, req) PROVE ListInv'
  BY <1>1 DEF Next
<1>2. ASSUME NEW req \in Request, Receive(t, req) PROVE ListInv'
  <2>1. UNCHANGED <<list, built, overlapped>> /\ http[t].pc = "idle"
    BY <1>2 DEF Receive, At
  <2>2. PICK todo \in Seq(Device) :
          LET h == [Idle EXCEPT !.req = req, !.todo = todo, !.pc = IF todo = <<>> THEN "done" ELSE "find"] IN
          Update(t, h) /\ GoodState(h)
    BY <1>2, ReceiveType
  <2> DEFINE h == [Idle EXCEPT !.req = req, !.todo = todo, !.pc = IF todo = <<>> THEN "done" ELSE "find"]
  <2>3. h.pc \in {"done", "find"}
    BY DEF Idle
  <2>4. Update(t, h) /\ GoodState(h)
    BY <2>2
  <2> HIDE DEF h
  <2> QED BY <2>1, <2>3, <2>4, ListQuiet
<1>3. CASE PassOver(t)
  <2>1. UNCHANGED <<list, built, overlapped>> /\ http[t].pc = "find" /\ http[t] \in ThreadState
    BY <1>3 DEF PassOver, At, TypeOK
  <2> QED BY <1>3, <2>1, PassOverType, NextDevicePc, ListQuiet
<1>4. CASE findcommand(t)
  BY <1>4, ListFind
<1>5. CASE Build(t)
  BY <1>5, ListBuild
<1>6. CASE Built(t)
  BY <1>6, ListBuilt
<1>7. CASE Walk(t)
  BY <1>7, ListWalk
<1>8. CASE commandExists(t)
  <2>1. UNCHANGED <<list, built, overlapped>>
    BY <1>8 DEF commandExists
  <2> QED BY <1>8, <2>1, ExistsType, ListQuiet
<1>9. ASSUME At(t, "run"), http[t].q # <<>>,
             NEW s \in runOne(Head(http[t].q).node, http[t].req.body), Run(t, s)
      PROVE  ListInv'
  <2>1. UNCHANGED <<list, built, overlapped>> /\ http[t].pc = "run" /\ http[t] \in ThreadState
    BY <1>9 DEF Run, At, TypeOK
  <2>2. Update(t, HasRun(http[t], s)) /\ GoodState(HasRun(http[t], s))
    BY <1>9, RunType
  <2>3. HasRun(http[t], s).pc = "run"
    BY <2>1 DEF HasRun, ThreadState
  <2> QED BY <2>1, <2>2, <2>3, ListQuiet
<1>10. CASE Reply(t)
  <2>1. UNCHANGED <<list, built, overlapped>> /\ http[t].pc = "run" /\ http[t] \in ThreadState
    BY <1>10 DEF Reply, At, TypeOK
  <2>2. Ended(http[t]).pc = "done"
    BY <2>1 DEF Ended, ThreadState
  <2> QED BY <1>10, <2>1, <2>2, ReplyType, ListQuiet
<1>11. CASE Done(t)
  <2>1. UNCHANGED <<list, built, overlapped>> /\ Update(t, Idle) /\ http[t].pc = "done"
    BY <1>11 DEF Done, At
  <2>2. GoodState(Idle) /\ Idle.pc = "idle"
    BY IdleType DEF GoodState, Idle, Looks
  <2> QED BY <2>1, <2>2, ListQuiet
<1> QED BY <1>2, <1>3, <1>4, <1>5, <1>6, <1>7, <1>8, <1>9, <1>10, <1>11 DEF Serve

LEMMA ListInit == Init => ListInv
<1> SUFFICES ASSUME Init, NEW p \in Profile
             PROVE  /\ NotBegun(p)
                    /\ OneBuilder(p) /\ SettledWhole(p) /\ \A t \in Http : Walks(t, p) /\ Asks(t, p)
  BY DEF ListInv
<1>1. \A t \in Http : http[t].pc = "idle"
  BY DEF Init, Idle
<1>2. list[p] = NULL /\ \A t \in Http : built[p][t] = 0
  BY DEF Init
<1> QED BY <1>1, <1>2 DEF NotBegun, OneBuilder, SettledWhole, Settled, Building, Walks, Asks, At
----------------------------------------------------------------------------
(* A request for one device                                                *)

LEMMA OneKept ==
  ASSUME TypeOK, OneInv, NEW t \in Http, NEW h, GoodState(h), Update(t, h),
         overlapped \subseteq overlapped', OneDevice(h)
  PROVE  OneInv'
<1>1. \A req : Overlapped(req) => Overlapped(req)'
  BY DEF Overlapped
<1>2. http'[t] = h /\ \A u \in Http : u # t => http'[u] = http[u]
  BY UpdateType
<1>3. \A g : OneDevice(g) => OneDevice(g)'
  BY <1>1 DEF OneDevice
<1>4. \A u \in Http : OneDevice(http'[u])
  BY <1>2 DEF OneInv
<1>5. \A u \in Http : OneDevice(http[u])'
  BY <1>1, <1>4 DEF OneDevice
<1> QED BY <1>5 DEF OneInv

(* The first of the nodes that match is the one.                           *)
LEMMA TheFirst ==
  ASSUME NEW req \in Request, req.dev # NULL, NEW n \in Matches(req), \A m \in Matches(req) : n.at <= m.at
  PROVE  /\ n \in populateCmdInfo(ProfileOf[req.dev]) /\ ProfileOf[req.dev] \in Profile
         /\ n \in Defined(req.dev, req.cmd) /\ n.isget = req.get
         /\ {k \in Defined(req.dev, req.cmd) :
               k.isget = req.get /\ \A m \in Defined(req.dev, req.cmd) : m.isget = req.get => k.at <= m.at} = {n}
<1> DEFINE p == ProfileOf[req.dev]
<1>1. p \in Profile
  BY Types
<1>2. \A m \in Matches(req) : m \in populateCmdInfo(p) /\ m \in Defined(req.dev, req.cmd) /\ m.isget = req.get
  BY DEF Matches, Defined
<1>3. \A m \in Defined(req.dev, req.cmd) : m.isget = req.get => m \in Matches(req)
  BY DEF Matches
<1> HIDE DEF p
<1>4. \A m \in Matches(req) : m.at \in Nat
  BY <1>1, <1>2, NodeFacts
<1>5. ASSUME NEW k \in Matches(req), \A m \in Matches(req) : k.at <= m.at PROVE k = n
  <2>1. k.at = n.at
    BY <1>4, <1>5
  <2> QED BY <1>1, <1>2, <2>1, PlacesDiffer
<1> QED BY <1>1, <1>2, <1>3, <1>5 DEF p

(* A list that is there for good, or a profile without commands, shows all *)
(* the nodes of a name.                                                    *)
LEMMA AllPublished ==
  ASSUME NEW p \in Profile, NEW owner, NEW name,
         \/ populateCmdInfo(p) = {}
         \/ owner # NULL /\ Complete(p, owner)
  PROVE  Published(p, owner, name) = {n \in populateCmdInfo(p) : n.name = name}
BY DEF Published, Complete

LEMMA OneReceive ==
  ASSUME TypeOK, NEW t \in Http, NEW req \in Request, Receive(t, req)
  PROVE  \E h : Update(t, h) /\ GoodState(h) /\ OneDevice(h)
<1>1. PICK todo \in Seq(Device) :
        LET h == [Idle EXCEPT !.req = req, !.todo = todo, !.pc = IF todo = <<>> THEN "done" ELSE "find"] IN
        /\ Update(t, h) /\ GoodState(h)
        /\ todo = IF req.all THEN Dev ELSE IF req.dev = NULL THEN <<>> ELSE <<req.dev>>
  BY ReceiveType
<1> DEFINE h == [Idle EXCEPT !.req = req, !.todo = todo, !.pc = IF todo = <<>> THEN "done" ELSE "find"]
<1>2. Update(t, h) /\ GoodState(h)
  BY <1>1
<1>3. /\ h.req = req /\ h.todo = todo /\ h.q = <<>> /\ h.ret = 404
      /\ h.pc = IF todo = <<>> THEN "done" ELSE "find"
  BY DEF Idle
<1>4. ASSUME ~req.all, req.dev = NULL PROVE h.pc = "done" /\ Documented(req, 404)
  BY <1>1, <1>3, <1>4 DEF Documented
<1>5. ASSUME ~req.all, req.dev # NULL PROVE h.pc = "find" /\ h.todo = <<req.dev>>
  BY <1>1, <1>3, <1>5
<1> HIDE DEF h
<1>6. OneDevice(h)
  BY <1>3, <1>4, <1>5 DEF OneDevice, Looks
<1> QED BY <1>2, <1>6

(* Whoever looks at the device of the request.                             *)
LEMMA OneLooks ==
  ASSUME TypeOK, OneInv, NEW t \in Http, http[t].pc \in Looks, ~http[t].req.all
  PROVE  /\ http[t] \in ThreadState /\ http[t].req \in Request /\ http[t].req # NULL
         /\ http[t].todo = <<http[t].req.dev>> /\ http[t].q = <<>> /\ http[t].ret = 404
         /\ http[t].req.dev \in Device /\ http[t].req.dev # NULL /\ Looking(t) = ProfileOf[http[t].req.dev]
<1>1. http[t] \in ThreadState /\ http[t].req \in Request /\ http[t].req # NULL
  BY LookingType, Types DEF TypeOK
<1>2. http[t].todo = <<http[t].req.dev>> /\ http[t].q = <<>> /\ http[t].ret = 404
  BY <1>1 DEF OneInv, OneDevice
<1>3. Head(http[t].todo) \in Device /\ Head(http[t].todo) = http[t].req.dev
  BY <1>2, LookingType
<1> QED BY <1>1, <1>2, <1>3, Types DEF Looking

(* A request for all devices is none for one.                              *)
LEMMA OneOfAll == ASSUME NEW h, h.req.all PROVE OneDevice(h)
BY DEF OneDevice
(* The walk, for a request for one device.                                 *)
LEMMA OneWalk ==
  ASSUME TypeOK, ListInv, OneInv, NEW t \in Http, Walk(t), ~http[t].req.all
  PROVE  \E h : Update(t, h) /\ GoodState(h) /\ OneDevice(h)
<1> DEFINE g == http[t]
           req == g.req
           p == ProfileOf[req.dev]
<1>1. g.pc = "walk" /\ g.pc \in Looks
  BY DEF Walk, At, Looks
<1>2. /\ g \in ThreadState /\ req \in Request /\ req # NULL /\ g.todo = <<req.dev>> /\ g.q = <<>>
      /\ g.ret = 404 /\ req.dev \in Device /\ req.dev # NULL /\ Looking(t) = p /\ p \in Profile
  BY <1>1, OneLooks, Types
<1>3. Matching(t) \subseteq Matches(req)
  BY <1>2 DEF Matching, Published, Matches, Defined
<1>4. ASSUME p \notin overlapped PROVE Matches(req) \subseteq Matching(t)
  <2>1. Walks(t, p)
    BY <1>2, <1>4 DEF ListInv
  <2>2. IF g.src = NULL THEN populateCmdInfo(p) = {} ELSE Settled(p) /\ g.src = list[p]
    BY <1>1, <1>2, <2>1 DEF Walks, At
  <2>3. populateCmdInfo(p) = {} \/ (g.src # NULL /\ Complete(p, g.src))
    BY <1>2, <1>4, <2>2 DEF ListInv, SettledWhole
  <2>4. Published(p, g.src, req.cmd) = Defined(req.dev, req.cmd)
    BY <1>2, <2>3, AllPublished DEF Defined
  <2> QED BY <1>2, <2>4 DEF Matching, Matches
<1>5. CASE Matching(t) = {} /\ Update(t, NotFound(g)) /\ GoodState(NotFound(g))
  <2> DEFINE h == [g EXCEPT !.src = NULL, !.pc = "exists"]
  <2>1. NotFound(g) = h
    BY DEF NotFound
  <2>2. h.pc = "exists" /\ h.req = req /\ h.todo = g.todo /\ h.q = g.q /\ h.ret = g.ret
    BY <1>2 DEF ThreadState
  <2>3. Matches(req) = {} \/ Overlapped(req)
    BY <1>4, <1>5 DEF Overlapped
  <2> HIDE DEF h, g
  <2>4. OneDevice(h)
    BY <1>2, <2>2, <2>3 DEF OneDevice, Looks
  <2> QED BY <1>5, <2>1, <2>4
<1>6. ASSUME NEW n \in Matching(t), n \in NodeOf, \A m \in Matching(t) : n.at <= m.at,
             Update(t, Found(g, n)), GoodState(Found(g, n))
      PROVE  OneDevice(Found(g, n))
  <2> DEFINE job == [dev |-> Head(g.todo), node |-> n]
             h == [Queued(g, n) EXCEPT !.pc = "run"]
  <2>1. Found(g, n) = h
    BY DEF Found, Queued
  <2>2. Queued(g, n) = [g EXCEPT !.q = <<job>> \o g.q, !.src = NULL]
    BY DEF Queued
  <2>3. <<job>> \o g.q = <<job>>
    BY <1>2, ConcatEmptySeq DEF ThreadState
  <2>4. job.node = n /\ Len(<<job>>) = 1 /\ <<job>>[1] = job
    OBVIOUS
  <2>5. h.pc = "run" /\ h.req = req /\ h.q = <<job>> /\ h.ret = 404
    <3> HIDE DEF job
    <3> QED BY <1>2, <2>2, <2>3 DEF ThreadState
  <2>6. n \in Matches(req) /\ ((\A m \in Matches(req) : n.at <= m.at) \/ Overlapped(req))
    BY <1>3, <1>4, <1>6 DEF Overlapped
  <2> HIDE DEF h, g, job
  <2>7. OneDevice(h)
    BY <1>2, <2>4, <2>5, <2>6 DEF OneDevice, Looks
  <2> QED BY <2>1, <2>7
<1> QED BY <1>5, <1>6, WalkType

(* The answer of one who finds nothing.                                    *)
LEMMA OneExists ==
  ASSUME TypeOK, ListInv, OneInv, NEW t \in Http, commandExists(t)
  PROVE  \E h : Update(t, h) /\ GoodState(h) /\ OneDevice(h)
<1> DEFINE g == http[t]
           req == g.req
           p == ProfileOf[req.dev]
           q == Looking(t)
           known == Published(q, list[q], req.cmd)
           ret == ExistsRet(t)
           h == Declined(t)
<1>1. g.pc = "exists" /\ g.pc \in Looks /\ g \in ThreadState
  BY ExistsType DEF Looks
<1>2. Update(t, h) /\ GoodState(h)
  BY ExistsType
<1>3. h.pc = "done" /\ h.req = req /\ h.ret = ret
  BY ExistsType
<1>4. CASE req.all
  <2> HIDE DEF h, req
  <2> QED BY <1>2, <1>3, <1>4, OneOfAll
<1>5. CASE ~req.all
  <2>1. req \in Request /\ req.dev \in Device /\ req.dev # NULL /\ q = p /\ p \in Profile /\ req # NULL
    BY <1>1, <1>5, OneLooks, Types
  <2>2. ASSUME p \notin overlapped PROVE Documented(req, ret)
    <3>1. Asks(t, p) /\ SettledWhole(p)
      BY <2>1, <2>2 DEF ListInv
    <3>2. populateCmdInfo(p) = {} \/ (list[p] # NULL /\ Complete(p, list[p]))
      BY <1>1, <2>1, <3>1 DEF Asks, At, SettledWhole, Settled
    <3>3. known = Defined(req.dev, req.cmd)
      <4>1. \A name : Published(p, list[p], name) = {n \in populateCmdInfo(p) : n.name = name}
        <5>1. p \in Profile
          BY <2>1
        <5> HIDE DEF p
        <5> QED BY <3>2, <5>1, AllPublished
      <4>2. known = Published(p, list[p], req.cmd)
        BY <2>1
      <4> HIDE DEF known
      <4> QED BY <4>1, <4>2 DEF Defined
    <3>4. Matches(req) = {}
      BY <1>1, <1>5, <2>1, <2>2 DEF OneInv, OneDevice, Overlapped
    <3>5. \A n \in Defined(req.dev, req.cmd) : n.isget # req.get
      BY <3>4 DEF Matches
    <3>6. ret = IF Defined(req.dev, req.cmd) # {} THEN 405 ELSE 404
      BY <3>3 DEF ExistsRet
    <3> HIDE DEF g, req, ret
    <3> QED BY <2>1, <3>5, <3>6 DEF Documented
  <2>3. Documented(req, ret) \/ Overlapped(req)
    BY <2>2 DEF Overlapped
  <2> HIDE DEF h, ret, req
  <2>4. OneDevice(h)
    BY <1>3, <2>3 DEF OneDevice, Looks
  <2> QED BY <1>2, <2>4
<1> QED BY <1>4, <1>5

LEMMA OneLeft ==
  ASSUME NEW S, NEW q \in Seq(S), Len(q) = 1
  PROVE  Tail(q) = <<>> /\ Head(q) = q[1]
<1>1. q # <<>> /\ Head(q) = q[1]
  OBVIOUS
<1>2. Tail(q) \in Seq(S) /\ Len(Tail(q)) = 0
  BY <1>1, HeadTailProperties
<1> QED BY <1>1, <1>2, EmptySeq

(* The answer of one who has run the command.                              *)
LEMMA OneRuns ==
  ASSUME TypeOK, OneInv, NEW t \in Http, At(t, "run"), http[t].q # <<>>,
         NEW s \in runOne(Head(http[t].q).node, http[t].req.body), Run(t, s)
  PROVE  \E h : Update(t, h) /\ GoodState(h) /\ OneDevice(h)
<1> DEFINE g == http[t]
           req == g.req
           h == HasRun(g, s)
           n == g.q[1].node
<1>1. g \in ThreadState /\ req \in Request /\ Update(t, h) /\ GoodState(h) /\ g.pc = "run"
  BY RunType DEF At
<1>2. /\ h.pc = "run" /\ h.req = req /\ h.q = Tail(g.q)
      /\ h.ret = IF g.ret = 200 THEN 200 ELSE s
  BY <1>1 DEF HasRun, ThreadState
<1>3. CASE req.all
  <2> HIDE DEF h, req
  <2> QED BY <1>1, <1>2, <1>3, OneOfAll
<1>4. CASE ~req.all
  <2>1. req # NULL
    BY <1>1, Types
  <2>2. /\ req.dev # NULL /\ g.ret = 404 /\ Len(g.q) = 1 /\ n \in Matches(req)
        /\ (\A m \in Matches(req) : n.at <= m.at) \/ Overlapped(req)
    BY <1>1, <1>4, <2>1 DEF OneInv, OneDevice
  <2>3. g.q \in Seq(Job)
    BY <1>1 DEF ThreadState
  <2>4. h.q = <<>> /\ h.ret = s /\ Head(g.q).node = n
    <3>1. Tail(g.q) = <<>> /\ Head(g.q) = g.q[1]
      BY <2>2, <2>3, OneLeft
    <3>2. h.q = Tail(g.q) /\ h.ret = s
      BY <1>2, <2>2
    <3> QED BY <3>1, <3>2
  <2>5. ASSUME \A m \in Matches(req) : n.at <= m.at PROVE Documented(req, s)
    <3> HIDE DEF g, req, n
    <3>1. /\ n \in populateCmdInfo(ProfileOf[req.dev]) /\ ProfileOf[req.dev] \in Profile
          /\ n \in Defined(req.dev, req.cmd) /\ n.isget = req.get
          /\ {k \in Defined(req.dev, req.cmd) :
                k.isget = req.get /\ \A m \in Defined(req.dev, req.cmd) : m.isget = req.get => k.at <= m.at} = {n}
      BY <1>1, <2>2, <2>5, TheFirst
    <3>2. s \in runOne(n, req.body)
      BY <2>4 DEF g, req
    <3>3. /\ s \in {200, 400, 405, 423, 500}
          /\ s = 405 => ~Accessible(n)
          /\ s = 200 => Accessible(n) /\ Len(n.reqs) <= MaxCmdOps
      BY <3>1, <3>2, RunOne
    <3> QED BY <2>2, <3>1, <3>3 DEF Documented
  <2>6. Documented(req, s) \/ Overlapped(req)
    BY <2>2, <2>5
  <2> HIDE DEF h, req, g
  <2>7. OneDevice(h)
    BY <1>2, <2>2, <2>4, <2>6 DEF OneDevice, Looks
  <2> QED BY <1>1, <2>7
<1> QED BY <1>3, <1>4

LEMMA OneReply ==
  ASSUME TypeOK, OneInv, NEW t \in Http, Reply(t)
  PROVE  OneDevice(Ended(http[t]))
<1> DEFINE g == http[t]
           h == Ended(g)
<1>1. g \in ThreadState /\ g.pc = "run" /\ g.q = <<>>
  BY ReplyType DEF Reply
<1>2. h.pc = "done" /\ h.req = g.req /\ h.ret = g.ret
  BY <1>1 DEF Ended, ThreadState
<1>3. OneDevice(g)
  BY DEF OneInv
<1>4. Len(g.q) # 1
  BY <1>1
<1> HIDE DEF h, g
<1>5. OneDevice(h)
  BY <1>1, <1>2, <1>3, <1>4 DEF OneDevice, Looks
<1> QED BY <1>5 DEF h, g

(* Whoever only goes on to build the list, or to walk along it.            *)
LEMMA OneGoesOn ==
  ASSUME TypeOK, OneInv, NEW t \in Http, http[t].pc \in {"find", "build"},
         NEW pc \in {"build", "walk"}, NEW src
  PROVE  OneDevice([http[t] EXCEPT !.pc = pc, !.src = src])
<1> DEFINE g == http[t]
           h == [g EXCEPT !.pc = pc, !.src = src]
<1>1. g \in ThreadState /\ g.pc \in Looks /\ OneDevice(g)
  BY DEF TypeOK, Looks, OneInv
<1>2. h.pc = pc /\ h.req = g.req /\ h.todo = g.todo /\ h.q = g.q /\ h.ret = g.ret
  BY <1>1 DEF ThreadState
<1> HIDE DEF g, h
<1>3. OneDevice(h)
  BY <1>1, <1>2 DEF OneDevice, Looks
<1> QED BY <1>3 DEF g, h

LEMMA OneStep == TypeOK /\ ListInv /\ OneInv /\ [Next]_vars => OneInv'
<1> SUFFICES ASSUME TypeOK, ListInv, OneInv, [Next]_vars PROVE OneInv'
  OBVIOUS
<1>1. CASE UNCHANGED vars
  BY <1>1 DEF vars, OneInv, OneDevice, Overlapped
<1> SUFFICES ASSUME NEW t \in Http, Serve(t) \/ \E req \in Request : Receive(t, req) PROVE OneInv'
  BY <1>1 DEF Next
<1>2. ASSUME NEW req \in Request, Receive(t, req) PROVE OneInv'
  <2>1. overlapped' = overlapped
    BY <1>2 DEF Receive
  <2> QED BY <1>2, <2>1, OneReceive, OneKept
<1>3. CASE PassOver(t)
  <2>1. overlapped' = overlapped /\ http[t].req.all /\ http[t] \in ThreadState
    BY <1>3 DEF PassOver, TypeOK
  <2>2. NextDevice(http[t]).req = http[t].req
    BY <2>1 DEF NextDevice, ThreadState
  <2>3. OneDevice(NextDevice(http[t]))
    BY <2>1, <2>2, OneOfAll
  <2> QED BY <1>3, <2>1, <2>3, PassOverType, OneKept
<1>4. CASE findcommand(t)
  <2> DEFINE p == Looking(t)
             pc == IF list[p] = NULL THEN "build" ELSE "walk"
             h == [http[t] EXCEPT !.pc = pc, !.src = list[p]]
  <2>1. Update(t, h) /\ GoodState(h)
    BY <1>4, FindType
  <2>2. http[t].pc = "find" /\ overlapped \subseteq overlapped'
    BY <1>4 DEF findcommand, At
  <2>3. pc \in {"build", "walk"}
    OBVIOUS
  <2> HIDE DEF pc
  <2>4. OneDevice(h)
    BY <2>2, <2>3, OneGoesOn
  <2> HIDE DEF h
  <2> QED BY <2>1, <2>2, <2>4, OneKept
<1>5. CASE Build(t)
  <2>1. http' = http /\ overlapped' = overlapped
    BY <1>5, BuildType
  <2> QED BY <2>1 DEF OneInv, OneDevice, Overlapped
<1>6. CASE Built(t)
  <2> DEFINE h == [http[t] EXCEPT !.pc = "walk", !.src = list[Looking(t)]]
  <2>1. Update(t, h) /\ GoodState(h)
    BY <1>6, BuiltType
  <2>2. http[t].pc = "build" /\ overlapped' = overlapped
    BY <1>6 DEF Built, At
  <2>3. OneDevice(h)
    BY <2>2, OneGoesOn
  <2> HIDE DEF h
  <2> QED BY <2>1, <2>2, <2>3, OneKept
<1>7. CASE Walk(t)
  <2>1. overlapped' = overlapped
    BY <1>7 DEF Walk
  <2>2. CASE ~http[t].req.all
    BY <1>7, <2>1, <2>2, OneWalk, OneKept
  <2>3. CASE http[t].req.all
    <3>1. http[t] \in ThreadState
      BY DEF TypeOK
    <3>2. NotFound(http[t]).req = http[t].req /\ \A n : Found(http[t], n).req = http[t].req
      BY <3>1 DEF NotFound, Found, NextDevice, ThreadState
    <3>3. OneDevice(NotFound(http[t])) /\ \A n : OneDevice(Found(http[t], n))
      BY <2>3, <3>2, OneOfAll
    <3> QED BY <1>7, <2>1, <3>3, WalkType, OneKept
  <2> QED BY <2>2, <2>3
<1>8. CASE commandExists(t)
  <2>1. overlapped' = overlapped
    BY <1>8 DEF commandExists
  <2> QED BY <1>8, <2>1, OneExists, OneKept
<1>9. ASSUME At(t, "run"), http[t].q # <<>>,
             NEW s \in runOne(Head(http[t].q).node, http[t].req.body), Run(t, s)
      PROVE  OneInv'
  <2>1. overlapped' = overlapped
    BY <1>9 DEF Run
  <2> QED BY <1>9, <2>1, OneRuns, OneKept
<1>10. CASE Reply(t)
  <2>1. overlapped' = overlapped
    BY <1>10 DEF Reply
  <2> QED BY <1>10, <2>1, ReplyType, OneReply, OneKept
<1>11. CASE Done(t)
  <2>1. overlapped' = overlapped /\ Update(t, Idle)
    BY <1>11 DEF Done
  <2>2. GoodState(Idle) /\ OneDevice(Idle)
    BY IdleType DEF GoodState, Idle, Looks, OneDevice
  <2> QED BY <2>1, <2>2, OneKept
<1> QED BY <1>2, <1>3, <1>4, <1>5, <1>6, <1>7, <1>8, <1>9, <1>10, <1>11 DEF Serve

LEMMA OneInit == Init => OneInv
<1> SUFFICES ASSUME Init, NEW t \in Http PROVE OneDevice(http[t])
  BY DEF OneInv
<1>1. http[t].req = NULL
  BY DEF Init, Idle
<1> QED BY <1>1 DEF OneDevice
----------------------------------------------------------------------------
(* A request for all devices                                               *)

LEMMA AllKept ==
  ASSUME TypeOK, AllInv, NEW t \in Http, NEW h, GoodState(h), Update(t, h), AllDevices(h)
  PROVE  AllInv'
<1>1. http'[t] = h /\ \A u \in Http : u # t => http'[u] = http[u]
  BY UpdateType
<1>2. \A u \in Http : AllDevices(http'[u])
  BY <1>1 DEF AllInv
<1> QED BY <1>2 DEF AllInv, AllDevices

(* A request for one device is none for all.                               *)
LEMMA AllOfOne == ASSUME NEW h, ~h.req.all PROVE AllDevices(h)
BY DEF AllDevices

(* Nothing is answered yet, and the buffer is as it is to begin with.      *)
LEMMA NothingYet == Assembled(NoReply, <<>>)
BY DEF Assembled, NoReply

LEMMA AllNext ==
  ASSUME NEW h \in ThreadState, h.answered = <<>>, h.reply = NoReply
  PROVE  AllDevices(NextDevice(h))
<1> DEFINE g == NextDevice(h)
<1>1. g.pc \in {"find", "run"} /\ g.answered = <<>> /\ g.reply = NoReply
  BY DEF NextDevice, ThreadState
<1> HIDE DEF g
<1>2. AllDevices(g)
  BY <1>1, NothingYet DEF AllDevices
<1> QED BY <1>2 DEF g

LEMMA AllLooks ==
  ASSUME TypeOK, AllInv, NEW t \in Http, http[t].pc \in Looks, http[t].req.all
  PROVE  /\ http[t] \in ThreadState /\ http[t].req \in Request /\ http[t].todo # <<>>
         /\ http[t].answered = <<>> /\ http[t].reply = NoReply /\ http[t].pc # "exists"
<1>1. http[t] \in ThreadState /\ http[t].req \in Request /\ http[t].req # NULL /\ http[t].todo # <<>>
  BY LookingType, Types DEF TypeOK
<1> QED BY <1>1 DEF AllInv, AllDevices

LEMMA AllReceive ==
  ASSUME TypeOK, NEW t \in Http, NEW req \in Request, Receive(t, req)
  PROVE  \E h : Update(t, h) /\ GoodState(h) /\ AllDevices(h)
<1>1. PICK todo \in Seq(Device) :
        LET h == [Idle EXCEPT !.req = req, !.todo = todo, !.pc = IF todo = <<>> THEN "done" ELSE "find"] IN
        /\ Update(t, h) /\ GoodState(h)
        /\ todo = IF req.all THEN Dev ELSE IF req.dev = NULL THEN <<>> ELSE <<req.dev>>
  BY ReceiveType
<1> DEFINE h == [Idle EXCEPT !.req = req, !.todo = todo, !.pc = IF todo = <<>> THEN "done" ELSE "find"]
<1>2. Update(t, h) /\ GoodState(h)
  BY <1>1
<1>3. h.req = req /\ h.answered = <<>> /\ h.reply = NoReply /\ h.pc = IF todo = <<>> THEN "done" ELSE "find"
  BY DEF Idle
<1>4. req.all => h.pc = "find"
  BY <1>1, <1>3, Types
<1> HIDE DEF h
<1>5. AllDevices(h)
  BY <1>3, <1>4 DEF AllDevices
<1> QED BY <1>2, <1>5

(* What becomes of the buffer when an event is added.                      *)
LEMMA JSONFields ==
  ASSUME NEW b \in ReplyBuffer, NEW d
  PROVE  LET c == AppendJSON(b, d) IN
         \E comma \in {0, 1} :
           /\ c.events = Append(b.events, d) /\ c.enc = "JSON" /\ c.first = b.first
           /\ c.bsize = b.bsize + EventSize + comma /\ c.size = b.bsize + EventSize + comma
           /\ c.used = b.used + EventSize + comma /\ c.end = Strcat(b.end)
<1> DEFINE comma == IF b.events = <<>> THEN 0 ELSE 1
           bsize == b.bsize + EventSize + comma
           used == b.used + EventSize + comma
           end == Strcat(b.end)
           events == Append(b.events, d)
           c == AppendJSON(b, d)
<1>1. c = [b EXCEPT !.events = events, !.enc = "JSON", !.bsize = bsize, !.size = bsize, !.used = used, !.end = end]
  BY Zenon DEF AppendJSON
<1> HIDE DEF events, bsize, used, end, c
<1>2. /\ c.events = events /\ c.enc = "JSON" /\ c.first = b.first /\ c.bsize = bsize /\ c.size = bsize
      /\ c.used = used /\ c.end = end
  BY <1>1 DEF ReplyBuffer
<1>3. comma \in {0, 1}
  OBVIOUS
<1> QED BY <1>2, <1>3 DEF events, bsize, used, end, c

LEMMA CBORFields ==
  ASSUME NEW b \in ReplyBuffer, NEW d
  PROVE  LET c == AppendCBOR(b, d) IN
         /\ c.events = Append(b.events, d) /\ c.enc = "CBOR"
         /\ c.first = IF b.events = <<>> THEN "CBOR" ELSE b.first
         /\ c.bsize = b.bsize + EventSize /\ c.size = b.bsize + EventSize
         /\ c.used = b.bsize - 2 + EventSize /\ c.end = IF b.end = "nul" THEN "open" ELSE b.end
<1> DEFINE bsize == b.bsize + EventSize
           used == b.bsize - 2 + EventSize
           end == IF b.end = "nul" THEN "open" ELSE b.end
           first == IF b.events = <<>> THEN "CBOR" ELSE b.first
           events == Append(b.events, d)
           c == AppendCBOR(b, d)
<1>1. c = [b EXCEPT !.events = events, !.enc = "CBOR", !.first = first, !.size = bsize, !.bsize = bsize,
                    !.used = used, !.end = end]
  BY Zenon DEF AppendCBOR
<1> HIDE DEF events, bsize, used, end, first, c
<1>2. /\ c.events = events /\ c.enc = "CBOR" /\ c.first = first /\ c.bsize = bsize /\ c.size = bsize
      /\ c.used = used /\ c.end = end
  BY <1>1 DEF ReplyBuffer
<1> QED BY <1>2 DEF events, bsize, used, end, first, c

LEMMA EndFields ==
  ASSUME NEW b \in ReplyBuffer
  PROVE  LET c == EndReply(b) IN
         /\ c.events = b.events /\ c.enc = b.enc /\ c.first = b.first /\ c.size = b.size
         /\ c.used = IF b.enc = "JSON" THEN b.used + 1 ELSE b.bsize - 1
         /\ c.end = IF b.enc = "JSON" THEN Strcat(b.end) ELSE IF b.end = "open" THEN "nul" ELSE b.end
<1> DEFINE jused == b.used + 1
           cused == b.bsize - 1
           jend == Strcat(b.end)
           cend == IF b.end = "open" THEN "nul" ELSE b.end
           c == EndReply(b)
<1>1. c = IF b.enc = "JSON" THEN [b EXCEPT !.used = jused, !.end = jend]
          ELSE [b EXCEPT !.used = cused, !.end = cend]
  BY Zenon DEF EndReply
<1> HIDE DEF jused, cused, jend, cend, c
<1>2. /\ c.events = b.events /\ c.enc = b.enc /\ c.first = b.first /\ c.size = b.size
      /\ c.used = (IF b.enc = "JSON" THEN jused ELSE cused)
      /\ c.end = (IF b.enc = "JSON" THEN jend ELSE cend)
  BY <1>1 DEF ReplyBuffer
<1> QED BY <1>2 DEF jused, cused, jend, cend, c

(* The events keep up with the answers.                                    *)
LEMMA EventsKeepUp ==
  ASSUME NEW events \in Seq(Device), NEW answered \in Seq(Answer), NEW x \in Answer,
         events = [i \in DOMAIN answered |-> answered[i].dev]
  PROVE  LET more == Append(answered, x) IN
         /\ more # <<>> /\ Len(answered) \in Nat /\ DOMAIN more = 1..(Len(answered) + 1)
         /\ DOMAIN answered = 1..Len(answered)
         /\ more[Len(answered) + 1] = x /\ \A i \in DOMAIN answered : more[i] = answered[i]
         /\ Append(events, x.dev) = [i \in DOMAIN more |-> more[i].dev]
<1> DEFINE more == Append(answered, x)
           n == Len(answered)
           all == Append(events, x.dev)
<1>1. /\ more \in Seq(Answer) /\ more # <<>> /\ n \in Nat /\ DOMAIN answered = 1..n
      /\ DOMAIN more = 1..(n + 1) /\ more[n + 1] = x /\ \A i \in 1..n : more[i] = answered[i]
  BY AppendProperties, LenProperties
<1>2. events = [i \in 1..n |-> answered[i].dev] /\ Len(events) = n
  BY <1>1, LenProperties
<1>3. x.dev \in Device
  BY DEF Answer
<1>4. all \in Seq(Device) /\ Len(all) = n + 1 /\ all[n + 1] = x.dev /\ \A i \in 1..n : all[i] = events[i]
  BY <1>2, <1>3, AppendProperties
<1>5. all = [i \in 1..(n + 1) |-> all[i]]
  BY <1>4, LenProperties
<1>6. \A i \in 1..(n + 1) : all[i] = more[i].dev
  BY <1>1, <1>2, <1>4
<1> HIDE DEF all, more, n
<1>7. all = [i \in 1..(n + 1) |-> more[i].dev]
  BY <1>5, <1>6
<1> QED BY <1>1, <1>7 DEF all, more, n

LEMMA Adds ==
  ASSUME NEW b \in ReplyBuffer, NEW d \in Device, NEW answered \in Seq(Answer), NEW enc \in Encodings,
         Assembled(b, answered)
  PROVE  Assembled(IF enc = "JSON" THEN AppendJSON(b, d) ELSE AppendCBOR(b, d),
                   Append(answered, [dev |-> d, enc |-> enc]))
<1> DEFINE x == [dev |-> d, enc |-> enc]
           a == Append(answered, x)
           n == Len(answered)
           c == IF enc = "JSON" THEN AppendJSON(b, d) ELSE AppendCBOR(b, d)
<1>1. x \in Answer /\ x.dev = d /\ x.enc = enc
  BY DEF Answer
<1>2. b.events \in Seq(Device) /\ b.events = [i \in DOMAIN answered |-> answered[i].dev]
  BY BufferFields DEF Assembled
<1> HIDE DEF x
<1>3. /\ a # <<>> /\ n \in Nat /\ DOMAIN a = 1..(n + 1) /\ DOMAIN answered = 1..n
      /\ a[n + 1] = x /\ \A i \in DOMAIN answered : a[i] = answered[i]
      /\ Append(b.events, d) = [i \in DOMAIN a |-> a[i].dev]
  BY <1>1, <1>2, EventsKeepUp
<1>4. answered = <<>> => b = NoReply
  BY DEF Assembled
<1>5. b.events = <<>> <=> answered = <<>>
  BY <1>2, <1>3
<1>6. b.used \in Int /\ b.bsize \in Int /\ b.size \in Int /\ b.end \in Ends
  BY BufferFields
<1> HIDE DEF a, n
<1>7. ASSUME NEW e \in Encodings, \A i \in DOMAIN a : a[i].enc = e
      PROVE  /\ enc = e
             /\ b.end # "overrun" /\ b.size = b.bsize /\ b.used = b.bsize - 2
             /\ answered # <<>> => b.enc = e /\ b.first = e
             /\ answered = <<>> => b.enc = "JSON" /\ b.first = "JSON"
             /\ e = "JSON" => b.end = "nul"
  <2>1. enc = e
    BY <1>1, <1>3, <1>7
  <2>2. CASE answered = <<>>
    <3>1. b = NoReply
      BY <1>4, <2>2
    <3> QED BY <2>1, <2>2, <3>1 DEF NoReply
  <2>3. CASE answered # <<>>
    <3>1. \A i \in DOMAIN answered : answered[i].enc = e
      BY <1>3, <1>7
    <3> QED BY <2>1, <2>3, <3>1 DEF Assembled
  <2> QED BY <2>2, <2>3
<1>8. CASE enc = "JSON"
  <2>1. c = AppendJSON(b, d)
    BY <1>8
  <2>2. PICK comma \in {0, 1} :
          /\ c.events = Append(b.events, d) /\ c.enc = "JSON" /\ c.first = b.first
          /\ c.bsize = b.bsize + EventSize + comma /\ c.size = b.bsize + EventSize + comma
          /\ c.used = b.used + EventSize + comma /\ c.end = Strcat(b.end)
    BY <2>1, JSONFields
  <2> HIDE DEF c
  <2>3. ASSUME NEW e \in Encodings, \A i \in DOMAIN a : a[i].enc = e
        PROVE  /\ c.enc = e /\ c.first = e /\ c.end # "overrun"
               /\ c.size = c.bsize /\ c.used = c.bsize - 2
               /\ e = "JSON" => c.end = "nul"
    <3>1. /\ enc = e /\ b.end = "nul" /\ b.size = b.bsize /\ b.used = b.bsize - 2 /\ b.first = "JSON"
      BY <1>7, <1>8, <2>3
    <3> QED BY <1>6, <1>8, <2>2, <3>1 DEF Strcat, EventSize
  <2>4. c.events = [i \in DOMAIN a |-> a[i].dev]
    BY <1>3, <2>2
  <2>5. a # <<>>
    BY <1>3
  <2>6. Assembled(c, a)
    BY <2>3, <2>4, <2>5 DEF Assembled
  <2> QED BY <2>6 DEF c, a, x
<1>9. CASE enc = "CBOR"
  <2>1. c = AppendCBOR(b, d)
    BY <1>9
  <2>2. /\ c.events = Append(b.events, d) /\ c.enc = "CBOR"
        /\ c.first = IF b.events = <<>> THEN "CBOR" ELSE b.first
        /\ c.bsize = b.bsize + EventSize /\ c.size = b.bsize + EventSize
        /\ c.used = b.bsize - 2 + EventSize /\ c.end = IF b.end = "nul" THEN "open" ELSE b.end
    BY <2>1, CBORFields
  <2> HIDE DEF c
  <2>3. ASSUME NEW e \in Encodings, \A i \in DOMAIN a : a[i].enc = e
        PROVE  /\ c.enc = e /\ c.first = e /\ c.end # "overrun"
               /\ c.size = c.bsize /\ c.used = c.bsize - 2
               /\ e = "JSON" => c.end = "nul"
    <3>1. /\ enc = e /\ b.end # "overrun" /\ b.size = b.bsize /\ b.used = b.bsize - 2
          /\ answered # <<>> => b.first = e
      BY <1>7, <1>9, <2>3
    <3> QED BY <1>5, <1>6, <1>9, <2>2, <3>1 DEF EventSize, Ends
  <2>4. c.events = [i \in DOMAIN a |-> a[i].dev]
    BY <1>3, <2>2
  <2>5. a # <<>>
    BY <1>3
  <2>6. Assembled(c, a)
    BY <2>3, <2>4, <2>5 DEF Assembled
  <2> QED BY <2>6 DEF c, a, x
<1> QED BY <1>8, <1>9 DEF Encodings

(* The reply, before and after the array is closed.                        *)
LEMMA AssembledWhole ==
  ASSUME NEW b \in ReplyBuffer, NEW answered \in Seq(Answer), Assembled(b, answered)
  PROVE  Whole(b, answered) /\ Whole(EndReply(b), answered)
<1> DEFINE encs == {answered[i].enc : i \in DOMAIN answered}
           c == EndReply(b)
<1>1. b.used \in Int /\ b.bsize \in Int /\ b.size \in Int /\ b.end \in Ends /\ b.enc \in Encodings
  BY BufferFields
<1>2. /\ c.events = b.events /\ c.enc = b.enc /\ c.first = b.first /\ c.size = b.size
      /\ c.used = IF b.enc = "JSON" THEN b.used + 1 ELSE b.bsize - 1
      /\ c.end = IF b.enc = "JSON" THEN Strcat(b.end) ELSE IF b.end = "open" THEN "nul" ELSE b.end
  BY EndFields
<1>3. \A i \in DOMAIN answered : answered[i].enc \in Encodings
  <2>1. \A i \in DOMAIN answered : answered[i] \in Answer
    BY LenProperties
  <2> QED BY <2>1 DEF Answer
<1>4. answered = <<>> <=> encs = {}
  <2>1. IF answered = <<>> THEN DOMAIN answered = {} ELSE 1 \in DOMAIN answered
    BY EmptySeq, LenProperties
  <2>2. CASE answered = <<>>
    BY <2>1, <2>2
  <2>3. CASE answered # <<>>
    <3>1. answered[1].enc \in encs
      BY <2>1, <2>3
    <3> QED BY <2>3, <3>1
  <2> QED BY <2>2, <2>3
<1> HIDE DEF c
<1>5. CASE encs = {}
  <2>1. b = NoReply
    BY <1>4, <1>5 DEF Assembled
  <2>2. b.enc = "JSON" /\ b.end = "nul" /\ b.used = 1 /\ b.size = 3
    BY <2>1 DEF NoReply
  <2>3. b.events = [i \in DOMAIN answered |-> answered[i].dev]
    BY DEF Assembled
  <2>4. c.end # "overrun" /\ c.used < c.size
    BY <1>2, <2>2 DEF Strcat
  <2>5. c.events = b.events
    BY <1>2
  <2>6. Whole(b, answered)
    <3>1. b.end # "overrun" /\ b.used < b.size
      BY <2>2
    <3> QED BY <1>5, <2>3, <3>1 DEF Whole, Encodings
  <2>7. Whole(c, answered)
    BY <1>5, <2>3, <2>4, <2>5 DEF Whole, Encodings
  <2> QED BY <2>6, <2>7 DEF c
<1>6. ASSUME encs # {}, encs # Encodings
      PROVE  \E e \in Encodings : encs = {e}
  <2>1. encs \subseteq {"JSON", "CBOR"}
    BY <1>3 DEF Encodings
  <2> HIDE DEF encs
  <2> QED BY <1>6, <2>1 DEF Encodings
<1>7. CASE encs # {} /\ encs # Encodings
  <2>1. PICK e \in Encodings : encs = {e}
    BY <1>6, <1>7
  <2>2. \A i \in DOMAIN answered : answered[i].enc = e
    BY <2>1
  <2>3. /\ b.enc = e /\ b.first = e /\ b.end # "overrun" /\ b.size = b.bsize /\ b.used = b.bsize - 2
        /\ e = "JSON" => b.end = "nul"
    BY <1>4, <1>7, <2>2 DEF Assembled
  <2>4. c.end # "overrun" /\ c.used < c.size /\ c.enc = e /\ c.first = e
    BY <1>1, <1>2, <2>3 DEF Strcat, Ends, Encodings
  <2>5. b.used < b.size
    BY <1>1, <2>3
  <2>6. b.events = [i \in DOMAIN answered |-> answered[i].dev]
    BY DEF Assembled
  <2> HIDE DEF encs
  <2> QED BY <1>2, <2>1, <2>3, <2>4, <2>5, <2>6 DEF Whole, c, encs
<1>8. CASE encs = Encodings
  BY <1>2, <1>8 DEF Whole, Assembled, c
<1> QED BY <1>5, <1>7, <1>8 DEF c

LEMMA AllRuns ==
  ASSUME TypeOK, AllInv, NEW t \in Http, At(t, "run"), http[t].q # <<>>,
         NEW s \in runOne(Head(http[t].q).node, http[t].req.body), Run(t, s)
  PROVE  AllDevices(HasRun(http[t], s))
<1> DEFINE g == http[t]
           h == HasRun(g, s)
           job == Head(g.q)
           enc == Encoding(job.node.reqs)
<1>1. g \in ThreadState /\ g.req \in Request /\ g.req # NULL /\ g.pc = "run" /\ job \in Job
  BY RunType, Types DEF At
<1>2. /\ h.req = g.req /\ h.pc = "run"
      /\ h.reply = RunReply(g, s) /\ h.answered = RunAnswered(g, s)
  BY <1>1 DEF HasRun, ThreadState
<1>3. CASE ~g.req.all
  <2> HIDE DEF h, g
  <2> QED BY <1>2, <1>3, AllOfOne DEF h, g
<1>4. CASE g.req.all
  <2>1. Assembled(g.reply, g.answered)
    BY <1>1, <1>4 DEF AllInv, AllDevices
  <2>2. g.reply \in ReplyBuffer /\ g.answered \in Seq(Answer) /\ job.dev \in Device /\ enc \in Encodings
    BY <1>1, EncodingType DEF ThreadState, Job
  <2>3. CASE ~IsEvent(g, s)
    BY <1>2, <2>1, <2>3 DEF RunReply, RunAnswered, AllDevices, Looks
  <2>4. CASE IsEvent(g, s)
    <3>1. RunReply(g, s) = IF enc = "JSON" THEN AppendJSON(g.reply, job.dev) ELSE AppendCBOR(g.reply, job.dev)
      BY <1>4, <2>4 DEF RunReply
    <3>2. RunAnswered(g, s) = Append(g.answered, [dev |-> job.dev, enc |-> enc])
      BY <2>4 DEF RunAnswered
    <3> HIDE DEF g, job, enc, h
    <3>3. Assembled(RunReply(g, s), RunAnswered(g, s))
      BY <2>1, <2>2, <3>1, <3>2, Adds
    <3>4. AllDevices(h)
      BY <1>2, <3>3 DEF AllDevices, Looks
    <3> QED BY <3>4 DEF h, g
  <2> QED BY <2>3, <2>4
<1> QED BY <1>3, <1>4

LEMMA AllReply ==
  ASSUME TypeOK, AllInv, NEW t \in Http, Reply(t)
  PROVE  AllDevices(Ended(http[t]))
<1> DEFINE g == http[t]
           h == Ended(g)
<1>1. g \in ThreadState /\ g.req \in Request /\ g.req # NULL /\ g.pc = "run"
  BY ReplyType, Types
<1>2. /\ h.req = g.req /\ h.pc = "done" /\ h.answered = g.answered
      /\ h.reply = g.reply \/ h.reply = EndReply(g.reply)
  BY <1>1 DEF Ended, ThreadState
<1>3. CASE ~g.req.all
  <2> HIDE DEF h, g
  <2> QED BY <1>2, <1>3, AllOfOne DEF h, g
<1>4. CASE g.req.all
  <2>1. Assembled(g.reply, g.answered) /\ g.reply \in ReplyBuffer /\ g.answered \in Seq(Answer)
    BY <1>1, <1>4 DEF AllInv, AllDevices, ThreadState
  <2> HIDE DEF h, g
  <2>2. Whole(h.reply, h.answered)
    BY <1>2, <2>1, AssembledWhole
  <2>3. AllDevices(h)
    BY <1>2, <2>2 DEF AllDevices, Looks
  <2> QED BY <2>3 DEF h, g
<1> QED BY <1>3, <1>4

LEMMA AllWalk ==
  ASSUME TypeOK, AllInv, NEW t \in Http, Walk(t)
  PROVE  AllDevices(NotFound(http[t])) /\ \A n \in NodeOf : AllDevices(Found(http[t], n))
<1> DEFINE g == http[t]
<1>1. g.pc = "walk" /\ g.pc \in Looks /\ g \in ThreadState /\ g.req \in Request /\ g.todo # <<>>
  BY WalkType DEF Looks
<1>2. CASE ~g.req.all
  <2>1. NotFound(g).req = g.req /\ \A n : Found(g, n).req = g.req
    BY <1>1 DEF NotFound, Found, NextDevice, ThreadState
  <2> QED BY <1>2, <2>1, AllOfOne
<1>3. CASE g.req.all
  <2>1. g.answered = <<>> /\ g.reply = NoReply
    BY <1>1, <1>3, AllLooks
  <2> DEFINE k == [g EXCEPT !.src = NULL]
  <2>2. k \in ThreadState /\ k.answered = <<>> /\ k.reply = NoReply /\ NotFound(g) = NextDevice(k)
    BY <1>1, <1>3, <2>1 DEF NotFound, ThreadState
  <2> HIDE DEF k
  <2>3. AllDevices(NotFound(g))
    BY <2>2, AllNext
  <2>4. ASSUME NEW n \in NodeOf PROVE AllDevices(Found(g, n))
    <3>1. Queued(g, n) \in ThreadState /\ Found(g, n) = NextDevice(Queued(g, n))
      BY <1>1, <1>3, FoundType
    <3>2. Queued(g, n).answered = <<>> /\ Queued(g, n).reply = NoReply
      BY <1>1, <2>1 DEF Queued, ThreadState
    <3> QED BY <3>1, <3>2, AllNext
  <2> QED BY <2>3, <2>4
<1> QED BY <1>2, <1>3

(* Whoever only goes on to build the list, or to walk along it.            *)
LEMMA AllGoesOn ==
  ASSUME TypeOK, AllInv, NEW t \in Http, http[t].pc \in {"find", "build"},
         NEW pc \in {"build", "walk"}, NEW src
  PROVE  AllDevices([http[t] EXCEPT !.pc = pc, !.src = src])
<1> DEFINE g == http[t]
           h == [g EXCEPT !.pc = pc, !.src = src]
<1>1. g \in ThreadState /\ g.pc \in Looks /\ AllDevices(g)
  BY DEF TypeOK, Looks, AllInv
<1>2. h.pc = pc /\ h.req = g.req /\ h.answered = g.answered /\ h.reply = g.reply
  BY <1>1 DEF ThreadState
<1> HIDE DEF g, h
<1>3. AllDevices(h)
  BY <1>1, <1>2 DEF AllDevices, Looks
<1> QED BY <1>3 DEF g, h

LEMMA AllStep == TypeOK /\ AllInv /\ [Next]_vars => AllInv'
<1> SUFFICES ASSUME TypeOK, AllInv, [Next]_vars PROVE AllInv'
  OBVIOUS
<1>1. CASE UNCHANGED vars
  BY <1>1 DEF vars, AllInv, AllDevices
<1> SUFFICES ASSUME NEW t \in Http, Serve(t) \/ \E req \in Request : Receive(t, req) PROVE AllInv'
  BY <1>1 DEF Next
<1>2. ASSUME NEW req \in Request, Receive(t, req) PROVE AllInv'
  BY <1>2, AllReceive, AllKept
<1>3. CASE PassOver(t)
  <2>1. http[t].pc \in Looks /\ http[t].req.all
    BY <1>3 DEF PassOver, At, Looks
  <2>2. AllDevices(NextDevice(http[t]))
    BY <2>1, AllLooks, AllNext
  <2> QED BY <1>3, <2>2, PassOverType, AllKept
<1>4. CASE findcommand(t)
  <2> DEFINE p == Looking(t)
             pc == IF list[p] = NULL THEN "build" ELSE "walk"
             h == [http[t] EXCEPT !.pc = pc, !.src = list[p]]
  <2>1. Update(t, h) /\ GoodState(h)
    BY <1>4, FindType
  <2>2. http[t].pc = "find"
    BY <1>4 DEF findcommand, At
  <2>3. pc \in {"build", "walk"}
    OBVIOUS
  <2> HIDE DEF pc
  <2>4. AllDevices(h)
    BY <2>2, <2>3, AllGoesOn
  <2> HIDE DEF h
  <2> QED BY <2>1, <2>4, AllKept
<1>5. CASE Build(t)
  <2>1. http' = http
    BY <1>5, BuildType
  <2> QED BY <2>1 DEF AllInv, AllDevices
<1>6. CASE Built(t)
  <2> DEFINE h == [http[t] EXCEPT !.pc = "walk", !.src = list[Looking(t)]]
  <2>1. Update(t, h) /\ GoodState(h)
    BY <1>6, BuiltType
  <2>2. http[t].pc = "build"
    BY <1>6 DEF Built, At
  <2>3. AllDevices(h)
    BY <2>2, AllGoesOn
  <2> HIDE DEF h
  <2> QED BY <2>1, <2>3, AllKept
<1>7. CASE Walk(t)
  BY <1>7, AllWalk, WalkType, AllKept
<1>8. CASE commandExists(t)
  <2>1. http[t].pc = "exists" /\ Declined(t).req = http[t].req /\ Update(t, Declined(t)) /\ GoodState(Declined(t))
    BY <1>8, ExistsType
  <2>2. ~http[t].req.all
    BY <2>1, AllLooks DEF Looks
  <2>3. AllDevices(Declined(t))
    BY <2>1, <2>2, AllOfOne
  <2> QED BY <2>1, <2>3, AllKept
<1>9. ASSUME At(t, "run"), http[t].q # <<>>,
             NEW s \in runOne(Head(http[t].q).node, http[t].req.body), Run(t, s)
      PROVE  AllInv'
  BY <1>9, RunType, AllRuns, AllKept
<1>10. CASE Reply(t)
  BY <1>10, ReplyType, AllReply, AllKept
<1>11. CASE Done(t)
  <2>1. Update(t, Idle)
    BY <1>11 DEF Done
  <2>2. GoodState(Idle) /\ AllDevices(Idle)
    BY IdleType DEF GoodState, Idle, Looks, AllDevices
  <2> QED BY <2>1, <2>2, AllKept
<1> QED BY <1>2, <1>3, <1>4, <1>5, <1>6, <1>7, <1>8, <1>9, <1>10, <1>11 DEF Serve

LEMMA AllInit == Init => AllInv
<1> SUFFICES ASSUME Init, NEW t \in Http PROVE AllDevices(http[t])
  BY DEF AllInv
<1>1. http[t].req = NULL
  BY DEF Init, Idle
<1> QED BY <1>1 DEF AllDevices

----------------------------------------------------------------------------
(* What holds of the commands                                              *)

IInv == TypeOK /\ ListInv /\ OneInv /\ AllInv

LEMMA Inductive == Spec => []IInv
<1>1. Init => IInv
  BY TypeInit, ListInit, OneInit, AllInit DEF IInv
<1>2. IInv /\ [Next]_vars => IInv'
  BY TypeStep, ListStep, OneStep, AllStep DEF IInv
<1> QED BY <1>1, <1>2, PTL DEF Spec

(* A profile's list is built by one thread, and whoever walks along it     *)
(* finds all of it, as long as no two threads looked at the profile while  *)
(* it was being built (edgex_deviceprofile_findcommand takes no lock).     *)
THEOREM ListWhole == Spec => []ListInv
<1>1. IInv => ListInv
  BY DEF IInv
<1> QED BY <1>1, Inductive, PTL

(* Every answer about one device has the status that device-sdk.raml       *)
(* documents, but for a list that is looked at while it is being built.    *)
THEOREM AnswersAsDocumented == Spec => []StatusAsDocumented
<1>1. IInv => StatusAsDocumented
  <2> SUFFICES ASSUME IInv, NEW t \in Http, At(t, "done"), ~http[t].req.all
               PROVE  Documented(http[t].req, http[t].ret) \/ ProfileOf[http[t].req.dev] \in overlapped
    BY DEF StatusAsDocumented
  <2>1. http[t].req # NULL /\ http[t].pc = "done"
    BY Types DEF IInv, TypeOK, At
  <2>2. OneDevice(http[t])
    BY DEF IInv, OneInv
  <2> QED BY <2>1, <2>2 DEF OneDevice, Overlapped
<1> QED BY <1>1, Inductive, PTL

(* The reply to a command for all devices is one array of the events of    *)
(* those that answered, in order and within its buffer, unless their       *)
(* encodings differ.                                                       *)
THEOREM AllRepliesWhole == Spec => []RepliesWhole
<1>1. IInv => RepliesWhole
  <2> SUFFICES ASSUME IInv, NEW t \in Http, http[t].req # NULL, http[t].req.all, http[t].pc \in {"run", "done"}
               PROVE  Whole(http[t].reply, http[t].answered)
    BY DEF RepliesWhole, Whole, Encodings
  <2>1. AllDevices(http[t]) /\ http[t] \in ThreadState
    BY DEF IInv, AllInv, TypeOK
  <2>2. http[t].reply \in ReplyBuffer /\ http[t].answered \in Seq(Answer)
    BY <2>1 DEF ThreadState
  <2> QED BY <2>1, <2>2, AssembledWhole DEF AllDevices
<1> QED BY <1>1, Inductive, PTL
=============================================================================
