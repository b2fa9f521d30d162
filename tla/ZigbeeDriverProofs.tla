------------------------- MODULE ZigbeeDriverProofs -------------------------
(***************************************************************************)
(* Proofs about ZigbeeDriver, for any number of handler threads, workers,  *)
(* devices and names and every capacity and bound.                         *)
(***************************************************************************)
EXTENDS ZigbeeDriver, SequenceTheorems, FiniteSetTheorems, TLAPS

----------------------------------------------------------------------------
(* The queue operators                                                     *)

(* Any tail is a sequence of the same kind.                                *)
LEMMA TailFacts ==
  ASSUME NEW S, NEW q \in Seq(S), q # <<>>
  PROVE  /\ Head(q) \in S /\ Head(q) = q[1] /\ 1 \in DOMAIN q
         /\ Tail(q) \in Seq(S)
         /\ Len(q) \in Nat /\ Len(q) > 0 /\ Len(Tail(q)) = Len(q) - 1
         /\ DOMAIN q = 1..Len(q) /\ DOMAIN Tail(q) = 1..(Len(q) - 1)
         /\ \A i \in DOMAIN Tail(q) : i + 1 \in DOMAIN q /\ Tail(q)[i] = q[i + 1]
<1>1. /\ Head(q) \in S /\ Tail(q) \in Seq(S) /\ Len(Tail(q)) = Len(q) - 1
      /\ \A i \in 1..Len(Tail(q)) : Tail(q)[i] = q[i + 1]
  BY HeadTailProperties
<1>2. Len(q) \in Nat \ {0} /\ DOMAIN q = 1..Len(q)
  BY EmptySeq, LenProperties
<1>3. DOMAIN Tail(q) = 1..Len(Tail(q))
  BY <1>1, LenProperties
<1>4. Head(q) = q[1]
  OBVIOUS
<1>5. QED
  BY <1>1, <1>2, <1>3, <1>4

LEMMA AppendFacts ==
  ASSUME NEW S, NEW q \in Seq(S), NEW m \in S
  PROVE  /\ Append(q, m) \in Seq(S)
         /\ Len(q) \in Nat /\ Len(Append(q, m)) = Len(q) + 1
         /\ DOMAIN q = 1..Len(q) /\ DOMAIN Append(q, m) = 1..(Len(q) + 1)
         /\ \A i \in DOMAIN q : Append(q, m)[i] = q[i]
         /\ Append(q, m)[Len(q) + 1] = m
<1>1. /\ Append(q, m) \in Seq(S) /\ Len(Append(q, m)) = Len(q) + 1
      /\ Len(q) \in Nat /\ DOMAIN q = 1..Len(q)
      /\ \A i \in 1..Len(q) : Append(q, m)[i] = q[i]
      /\ Append(q, m)[Len(q) + 1] = m
  BY AppendProperties, LenProperties
<1>2. DOMAIN Append(q, m) = 1..Len(Append(q, m))
  BY <1>1, LenProperties
<1>3. QED
  BY <1>1, <1>2

(* A full queue is not empty.                                              *)
LEMMA FullFacts ==
  ASSUME NEW S, NEW q \in Seq(S), Len(q) = Cap
  PROVE  q # <<>>
BY EmptySeq, DriverAssumptions

(* enQueue yields a queue of the same kind, within its capacity.           *)
LEMMA EnqueueType ==
  ASSUME NEW S, NEW q \in Seq(S), NEW m \in S
  PROVE  Enqueue(q, m, Cap) \in Seq(S)
<1>1. CASE Len(q) = Cap
  BY <1>1, FullFacts, TailFacts, AppendFacts DEF Enqueue
<1>2. CASE Len(q) # Cap
  BY <1>2, AppendFacts DEF Enqueue
<1>3. QED
  BY <1>1, <1>2

(* r is q with m put behind it, at the place n, and the first k elements   *)
(* of q discarded.                                                         *)
Shifted(q, m, r, k, n) ==
  /\ k \in 0..1 /\ n \in Nat /\ Len(q) \in Nat /\ n = Len(q) - k + 1
  /\ Len(r) = n /\ n \in DOMAIN r /\ r[n] = m
  /\ k = 1 => 1 \in DOMAIN q /\ Head(q) = q[1]
  /\ \A i \in DOMAIN q : i \in Nat \ {0}
  /\ \A i \in DOMAIN r :
       /\ i \in Nat \ {0}
       /\ i # n => i < n /\ i + k \in DOMAIN q /\ r[i] = q[i + k]
  /\ \A i \in DOMAIN q : i > k => i - k \in DOMAIN r /\ r[i - k] = q[i]

(* enQueue keeps the order and discards the first string of a full queue.  *)
LEMMA EnqueueShifts ==
  ASSUME NEW S, NEW q \in Seq(S), NEW m \in S
  PROVE  /\ Len(q) = Cap => \E n \in Nat : Shifted(q, m, Enqueue(q, m, Cap), 1, n)
         /\ Len(q) # Cap => \E n \in Nat : Shifted(q, m, Enqueue(q, m, Cap), 0, n)
<1> DEFINE r == Enqueue(q, m, Cap)
<1>1. Len(q) \in Nat /\ DOMAIN q = 1..Len(q)
  BY LenProperties
<1>2. CASE Len(q) = Cap
  <2> DEFINE t == Tail(q)
  <2>1. /\ t \in Seq(S) /\ Len(t) = Len(q) - 1 /\ Len(q) > 0
        /\ \A i \in 1..(Len(q) - 1) : t[i] = q[i + 1]
        /\ Head(q) = q[1]
    BY <1>2, FullFacts, TailFacts
  <2>2. r = Append(t, m)
    BY <1>2 DEF Enqueue
  <2> HIDE DEF t, r
  <2>3. /\ Len(r) = Len(t) + 1 /\ DOMAIN r = 1..(Len(t) + 1) /\ r[Len(t) + 1] = m
        /\ \A i \in 1..Len(t) : r[i] = t[i]
    BY <2>1, <2>2, AppendFacts
  <2>4. /\ Len(r) = Len(q) /\ DOMAIN r = 1..Len(q) /\ r[Len(q)] = m
        /\ \A i \in 1..(Len(q) - 1) : r[i] = q[i + 1]
    BY <1>1, <2>1, <2>3
  <2>5. Shifted(q, m, r, 1, Len(q))
    BY <1>1, <2>1, <2>4 DEF Shifted
  <2>6. QED
    BY <1>1, <1>2, <2>5 DEF r
<1>3. CASE Len(q) # Cap
  <2>1. r = Append(q, m)
    BY <1>3 DEF Enqueue
  <2> HIDE DEF r
  <2>2. /\ Len(r) = Len(q) + 1 /\ DOMAIN r = 1..(Len(q) + 1) /\ r[Len(q) + 1] = m
        /\ \A i \in 1..Len(q) : r[i] = q[i]
    BY <1>1, <2>1, AppendFacts
  <2>3. Shifted(q, m, r, 0, Len(q) + 1)
    BY <1>1, <2>2 DEF Shifted
  <2>4. QED
    BY <1>1, <1>3, <2>3 DEF r
<1>4. QED
  BY <1>2, <1>3

----------------------------------------------------------------------------
(* Types                                                                   *)

Discovery == [at : {"send", "sleep", "add", "tell"}, count : 0..Rounds,
              rep : FoundMessage \cup {NULL}]

QueueTypes ==
  /\ QueueTX \in Seq(CommandMessage)
  /\ QueueGetHandler \in Seq(GetMessage)
  /\ QueuePush \in Seq(PushMessage)
  /\ QueueDiscovery \in Seq(FoundMessage)
  /\ txbuf \in CommandMessage \cup {NULL}
  /\ pushbuf \in PushMessage \cup {NULL}

ZigbeeTypes ==
  /\ wire \in [Device -> Seq(CommandMessage)]
  /\ serial \in Seq(GetMessage \cup FoundMessage \cup PushMessage)
  /\ my_name \in [Device -> Name]
  /\ sw \in [Device -> Nat]
  /\ pushes \in 0..MaxPushes

ServiceTypes ==
  /\ get \in [Handler -> GetCall \cup {NULL}]
  /\ disc \in [Discoverer -> Discovery \cup {NULL}]
  /\ \A x \in Discoverer :
       disc[x] # NULL /\ disc[x].at \in {"add", "tell"} => disc[x].rep \in FoundMessage
  /\ jobs \in Nat
  /\ discolock \in Worker \cup Requester \cup {NULL}
  /\ meta \subseteq Name /\ known \subseteq meta
  /\ calls \in 0..MaxCalls /\ requests \in 0..MaxRequests

HistoryTypes ==
  /\ lastId \in Nat
  /\ written \subseteq Nat
  /\ evicted \subseteq CommandMessage
  /\ answers \subseteq [req : GetCall, rep : GetMessage]
  /\ mixed \in BOOLEAN
  /\ posted \in [Device -> Nat]

(* Every queue carries messages of its own kind, every thread works on     *)
(* what it was given, and every device name is one of Name.                *)
TypeOK == QueueTypes /\ ZigbeeTypes /\ ServiceTypes /\ HistoryTypes

----------------------------------------------------------------------------
(* Invariants                                                              *)

(* A job of the pool that runs random_discover holds svc->discolock.       *)
LockInv == \A x \in Worker : disc[x] # NULL => discolock = x

(* The commands in the order of their ids: written, in TX's hands, queued. *)
CommandOrder ==
  /\ \A i \in DOMAIN QueueTX : QueueTX[i].id \in 1..lastId
  /\ \A i, j \in DOMAIN QueueTX : i < j => QueueTX[i].id < QueueTX[j].id
  /\ txbuf # NULL => /\ txbuf.id \in 1..lastId
                     /\ \A i \in DOMAIN QueueTX : txbuf.id < QueueTX[i].id
  /\ \A k \in written : /\ k \in 1..lastId
                        /\ txbuf # NULL => k < txbuf.id
                        /\ \A i \in DOMAIN QueueTX : k < QueueTX[i].id

(* A command that was discarded is in no other place, and each command is  *)
(* in some place.                                                          *)
CommandPlace ==
  /\ \A c \in evicted : /\ c.id \in 1..lastId /\ c.id \notin written
                        /\ txbuf # NULL => c.id # txbuf.id
                        /\ \A i \in DOMAIN QueueTX : c.id < QueueTX[i].id
  /\ \A k \in 1..lastId : \/ k \in written
                          \/ txbuf # NULL /\ txbuf.id = k
                          \/ \E i \in DOMAIN QueueTX : QueueTX[i].id = k
                          \/ \E c \in evicted : c.id = k

CommandCount ==
  /\ IsFiniteSet(written) /\ IsFiniteSet(evicted)
  /\ Len(QueueTX) + (IF txbuf = NULL THEN 0 ELSE 1)
       + Cardinality(written) + Cardinality(evicted) = lastId

(* The readings in the order of their ids: posted, in PushEvent's hands,   *)
(* queued, on the serial line.                                             *)
Pushed == {i \in DOMAIN serial : serial[i].cmd = "PUSH"}

ReadingOrder ==
  /\ \A i \in Pushed : serial[i].id \in 1..pushes
  /\ \A i, j \in Pushed : i < j => serial[i].id < serial[j].id
  /\ \A i \in DOMAIN QueuePush :
       /\ QueuePush[i].id \in 1..pushes
       /\ \A j \in DOMAIN QueuePush : i < j => QueuePush[i].id < QueuePush[j].id
       /\ \A j \in Pushed : QueuePush[i].id < serial[j].id
  /\ pushbuf # NULL => /\ pushbuf.id \in 1..pushes
                       /\ \A i \in DOMAIN QueuePush : pushbuf.id < QueuePush[i].id
                       /\ \A i \in Pushed : pushbuf.id < serial[i].id
  /\ \A d \in Device : /\ posted[d] \in 0..pushes
                       /\ pushbuf # NULL => posted[d] < pushbuf.id
                       /\ \A i \in DOMAIN QueuePush : posted[d] < QueuePush[i].id
                       /\ \A i \in Pushed : posted[d] < serial[i].id

----------------------------------------------------------------------------
(* Type correctness                                                        *)

(* The commands that the driver hands to enQueue.                          *)
LEMMA CommandTypes ==
  ASSUME NEW n \in Name, NEW i \in Nat
  PROVE  /\ \A r \in Res :
              [[cmd |-> "GET", name |-> n, id |-> 0, res |-> r] EXCEPT !.id = i] \in CommandMessage
         /\ \A m \in MACs :
              [[cmd |-> "ADD", name |-> n, id |-> 0, mac |-> m] EXCEPT !.id = i] \in CommandMessage
         /\ \A c \in {"PUT", "DISCOVERY"} :
              [Command(c, n) EXCEPT !.id = i] \in CommandMessage
BY DEF CommandMessage, GetMessage, AddMessage, PlainMessage, Command

LEMMA SendTypes ==
  ASSUME QueueTX \in Seq(CommandMessage), lastId \in Nat, evicted \subseteq CommandMessage,
         NEW c, [c EXCEPT !.id = lastId + 1] \in CommandMessage, Send(c)
  PROVE  /\ QueueTX' \in Seq(CommandMessage) /\ lastId' \in Nat
         /\ evicted' \subseteq CommandMessage
<1>1. QueueTX' \in Seq(CommandMessage)
  BY EnqueueType DEF Send
<1>2. lastId' \in Nat
  BY DEF Send
<1>3. evicted' \subseteq CommandMessage
  BY FullFacts, TailFacts DEF Send
<1>4. QED
  BY <1>1, <1>2, <1>3

LEMMA InitTypes == Init => TypeOK
<1> SUFFICES ASSUME Init PROVE TypeOK
  OBVIOUS
<1> USE DriverAssumptions DEF Init
<1>1. QueueTypes
  BY EmptySeq DEF QueueTypes
<1>2. ZigbeeTypes
  BY EmptySeq DEF ZigbeeTypes
<1>3. ServiceTypes
  BY DEF ServiceTypes
<1>4. HistoryTypes
  BY DEF HistoryTypes
<1>5. QED
  BY <1>1, <1>2, <1>3, <1>4 DEF TypeOK

LEMMA NextTypes == TypeOK /\ [Next]_vars => TypeOK'
<1> SUFFICES ASSUME TypeOK, [Next]_vars PROVE TypeOK'
  OBVIOUS
<1> USE DEF TypeOK, threads, queues, zigbee, service, sent, seen
<1>1. CASE RX
  <2>1. QueueTypes'
    <3>1. Head(serial) \in GetMessage \cup FoundMessage \cup PushMessage
      BY <1>1, TailFacts DEF RX, ZigbeeTypes
    <3>2. /\ Head(serial).cmd = "GET" => Head(serial) \in GetMessage
          /\ Head(serial).cmd = "DISCOVERY" => Head(serial) \in FoundMessage
          /\ Head(serial).cmd = "PUSH" => Head(serial) \in PushMessage
      BY <3>1 DEF GetMessage, FoundMessage, PushMessage
    <3>3. QED
      BY <1>1, <3>2, EnqueueType DEF RX, QueueTypes
  <2>2. ZigbeeTypes'
    BY <1>1, TailFacts DEF RX, ZigbeeTypes
  <2>3. QED
    BY <1>1, <2>1, <2>2 DEF RX, ServiceTypes, HistoryTypes
<1>2. CASE TXDeQueue
  BY <1>2, TailFacts DEF TXDeQueue, QueueTypes, ZigbeeTypes, ServiceTypes, HistoryTypes
<1>3. CASE TXWrite
  <2>1. txbuf \in CommandMessage /\ txbuf.id \in Nat
    BY <1>3 DEF TXWrite, QueueTypes, CommandMessage, GetMessage, AddMessage, PlainMessage
  <2>2. QueueTypes' /\ ServiceTypes' /\ HistoryTypes'
    BY <1>3, <2>1 DEF TXWrite, QueueTypes, ServiceTypes, HistoryTypes
  <2>3. ZigbeeTypes'
    BY <1>3, <2>1, AppendFacts DEF TXWrite, ZigbeeTypes
  <2>4. QED
    BY <2>2, <2>3
<1>4. CASE PushDeQueue
  BY <1>4, TailFacts DEF PushDeQueue, QueueTypes, ZigbeeTypes, ServiceTypes, HistoryTypes
<1>5. CASE PushPost
  <2>1. pushbuf.id \in Nat
    BY <1>5 DEF PushPost, QueueTypes, PushMessage
  <2>2. QED
    BY <1>5, <2>1 DEF PushPost, QueueTypes, ZigbeeTypes, ServiceTypes, HistoryTypes
<1>6. ASSUME NEW h \in Handler, NEW n \in known, NEW r \in Res, GetSend(h, n, r)
      PROVE  TypeOK'
  <2>1. n \in Name /\ lastId + 1 \in Nat
    BY DEF ServiceTypes, HistoryTypes
  <2>2. QueueTX' \in Seq(CommandMessage) /\ lastId' \in Nat /\ evicted' \subseteq CommandMessage
    BY <1>6, <2>1, CommandTypes, SendTypes DEF GetSend, QueueTypes, HistoryTypes
  <2>3. get' \in [Handler -> GetCall \cup {NULL}]
    BY <1>6, <2>1, DriverAssumptions DEF GetSend, ServiceTypes, GetCall
  <2>4. mixed' \in BOOLEAN
    BY <1>6 DEF GetSend
  <2>5. calls' \in 0..MaxCalls
    BY <1>6, DriverAssumptions DEF GetSend, ServiceTypes
  <2>6. QueueTypes' /\ HistoryTypes'
    BY <1>6, <2>2, <2>4 DEF GetSend, QueueTypes, HistoryTypes
  <2>7. ZigbeeTypes' /\ ServiceTypes'
    BY <1>6, <2>3, <2>5 DEF GetSend, ZigbeeTypes, ServiceTypes
  <2>8. QED
    BY <2>6, <2>7
<1>7. ASSUME NEW h \in Handler, NEW n \in known, Put(h, n) PROVE TypeOK'
  <2>1. n \in Name /\ lastId + 1 \in Nat
    BY DEF ServiceTypes, HistoryTypes
  <2>2. QueueTX' \in Seq(CommandMessage) /\ lastId' \in Nat /\ evicted' \subseteq CommandMessage
    BY <1>7, <2>1, CommandTypes, SendTypes DEF Put, QueueTypes, HistoryTypes
  <2>3. calls' \in 0..MaxCalls
    BY <1>7, DriverAssumptions DEF Put, ServiceTypes
  <2>4. QueueTypes' /\ HistoryTypes'
    BY <1>7, <2>2 DEF Put, QueueTypes, HistoryTypes
  <2>5. ZigbeeTypes' /\ ServiceTypes'
    BY <1>7, <2>3 DEF Put, ZigbeeTypes, ServiceTypes
  <2>6. QED
    BY <2>4, <2>5
<1>8. ASSUME NEW h \in Handler, GetPoll(h) PROVE TypeOK'
  <2>1. get[h] \in GetCall /\ get[h].count - 1 \in 0..MaxPolls
    BY <1>8, DriverAssumptions DEF GetPoll, ServiceTypes, GetCall
  <2>2. get' \in [Handler -> GetCall \cup {NULL}]
    BY <1>8, <2>1 DEF GetPoll, ServiceTypes, GetCall
  <2>3. /\ QueueGetHandler' \in Seq(GetMessage)
        /\ answers' \subseteq [req : GetCall, rep : GetMessage]
    <3>1. CASE UNCHANGED <<QueueGetHandler, answers>>
      BY <3>1 DEF QueueTypes, HistoryTypes
    <3>2. CASE /\ QueueGetHandler # <<>> /\ QueueGetHandler' = Tail(QueueGetHandler)
               /\ answers' = answers \cup {[req |-> get[h], rep |-> Head(QueueGetHandler)]}
      <4>1. /\ Head(QueueGetHandler) \in GetMessage
            /\ Tail(QueueGetHandler) \in Seq(GetMessage)
        BY <3>2, TailFacts DEF QueueTypes
      <4>2. QED
        BY <3>2, <4>1, <2>1 DEF HistoryTypes
    <3>3. QED
      BY <1>8, <3>1, <3>2 DEF GetPoll
  <2>4. QED
    BY <1>8, <2>2, <2>3 DEF GetPoll, QueueTypes, ZigbeeTypes, ServiceTypes, HistoryTypes
<1>9. ASSUME NEW h \in Handler, GetTimeout(h) PROVE TypeOK'
  BY <1>9 DEF GetTimeout, QueueTypes, ZigbeeTypes, ServiceTypes, HistoryTypes
<1>10. ASSUME NEW r \in Requester, DiscoveryTryLock(r) \/ DiscoverySubmit(r) PROVE TypeOK'
  <2>1. /\ jobs' \in Nat /\ requests' \in 0..MaxRequests
        /\ discolock' \in Worker \cup Requester \cup {NULL}
    BY <1>10, DriverAssumptions DEF DiscoveryTryLock, DiscoverySubmit, ServiceTypes
  <2>2. UNCHANGED <<queues, threads, zigbee, sent, seen, get, disc, meta, known, calls>>
    BY <1>10 DEF DiscoveryTryLock, DiscoverySubmit
  <2>3. QED
    BY <2>1, <2>2 DEF QueueTypes, ZigbeeTypes, ServiceTypes, HistoryTypes
<1>11. ASSUME NEW x \in Discoverer, Begin(x)
       PROVE  /\ disc' \in [Discoverer -> Discovery \cup {NULL}]
              /\ \A y \in Discoverer :
                   disc'[y] # NULL /\ disc'[y].at \in {"add", "tell"} => disc'[y].rep \in FoundMessage
  BY <1>11, DriverAssumptions DEF Begin, ServiceTypes, Discovery
<1>12. ASSUME NEW x \in Worker, DoDiscovery(x) PROVE TypeOK'
  <2>1. x \in Discoverer /\ Begin(x) /\ jobs' \in Nat
    BY <1>12 DEF DoDiscovery, Discoverer, ServiceTypes
  <2>2. QED
    BY <1>12, <2>1, <1>11 DEF DoDiscovery, QueueTypes, ZigbeeTypes, ServiceTypes, HistoryTypes
<1>13. ASSUME NEW x \in SigInt, IntHandler(x) PROVE TypeOK'
  <2>1. x \in Discoverer /\ Begin(x)
    BY <1>13 DEF IntHandler, Discoverer
  <2>2. QED
    BY <1>13, <2>1, <1>11, DriverAssumptions
      DEF IntHandler, QueueTypes, ZigbeeTypes, ServiceTypes, HistoryTypes
<1>14. ASSUME NEW x \in Discoverer, DiscoverSend(x) PROVE TypeOK'
  <2>1. NewDevice \in Name /\ lastId + 1 \in Nat
    BY DriverAssumptions DEF HistoryTypes
  <2>2. QueueTX' \in Seq(CommandMessage) /\ lastId' \in Nat /\ evicted' \subseteq CommandMessage
    BY <1>14, <2>1, CommandTypes, SendTypes DEF DiscoverSend, QueueTypes, HistoryTypes
  <2>3. disc[x] \in Discovery /\ disc[x].count - 1 \in 0..Rounds
    BY <1>14, DriverAssumptions DEF DiscoverSend, At, ServiceTypes, Discovery
  <2>4. disc' \in [Discoverer -> Discovery \cup {NULL}]
    BY <1>14, <2>3 DEF DiscoverSend, ServiceTypes, Discovery
  <2>5. ASSUME NEW y \in Discoverer, disc'[y] # NULL, disc'[y].at \in {"add", "tell"}
        PROVE  disc'[y].rep \in FoundMessage
    <3>1. y # x
      BY <1>14, <2>3, <2>5 DEF DiscoverSend, ServiceTypes, Discovery
    <3>2. QED
      BY <1>14, <2>5, <3>1 DEF DiscoverSend, ServiceTypes
  <2>6. QED
    BY <1>14, <2>2, <2>4, <2>5
      DEF DiscoverSend, QueueTypes, ZigbeeTypes, ServiceTypes, HistoryTypes
<1>15. ASSUME NEW x \in Discoverer, DiscoverCollect(x) PROVE TypeOK'
  <2>1. disc[x] \in Discovery
    BY <1>15 DEF DiscoverCollect, At, ServiceTypes
  <2>2. CASE QueueDiscovery = <<>>
    <3>1. disc' = [disc EXCEPT ![x].at = "send"] /\ UNCHANGED QueueDiscovery
      BY <1>15, <2>2 DEF DiscoverCollect
    <3>2. ServiceTypes'
      BY <1>15, <2>1, <3>1 DEF DiscoverCollect, ServiceTypes, Discovery
    <3>3. QED
      BY <1>15, <3>1, <3>2 DEF DiscoverCollect, QueueTypes, ZigbeeTypes, HistoryTypes
  <2>3. CASE QueueDiscovery # <<>>
    <3>1. /\ disc' = [disc EXCEPT ![x].at = "add", ![x].rep = Head(QueueDiscovery)]
          /\ QueueDiscovery' = Tail(QueueDiscovery)
      BY <1>15, <2>3 DEF DiscoverCollect
    <3>2. Head(QueueDiscovery) \in FoundMessage /\ Tail(QueueDiscovery) \in Seq(FoundMessage)
      BY <2>3, TailFacts DEF QueueTypes
    <3>3. ServiceTypes'
      BY <1>15, <2>1, <3>1, <3>2 DEF DiscoverCollect, ServiceTypes, Discovery
    <3>4. QED
      BY <1>15, <3>1, <3>2, <3>3 DEF DiscoverCollect, QueueTypes, ZigbeeTypes, HistoryTypes
  <2>4. QED
    BY <2>2, <2>3
<1>16. ASSUME NEW x \in Discoverer, DiscoverAdd(x) PROVE TypeOK'
  <2>1. disc[x] \in Discovery /\ disc[x].rep \in FoundMessage
    BY <1>16 DEF DiscoverAdd, At, ServiceTypes
  <2>2. PICK a \in {"send", "tell"} : disc' = [disc EXCEPT ![x].at = a]
    BY <1>16 DEF DiscoverAdd
  <2>3. meta' \subseteq Name /\ known' \subseteq meta'
    BY <1>16, DriverAssumptions DEF DiscoverAdd, ServiceTypes
  <2>4. ServiceTypes'
    BY <1>16, <2>1, <2>2, <2>3 DEF DiscoverAdd, ServiceTypes, Discovery
  <2>5. QED
    BY <1>16, <2>4 DEF DiscoverAdd, QueueTypes, ZigbeeTypes, HistoryTypes
<1>17. ASSUME NEW x \in Discoverer, DiscoverTell(x) PROVE TypeOK'
  <2>1. disc[x] \in Discovery /\ disc[x].rep \in FoundMessage
    BY <1>17 DEF DiscoverTell, At, ServiceTypes
  <2>2. disc[x].rep.name \in Name /\ disc[x].rep.mac \in MACs /\ lastId + 1 \in Nat
    BY <2>1 DEF FoundMessage, HistoryTypes
  <2>3. QueueTX' \in Seq(CommandMessage) /\ lastId' \in Nat /\ evicted' \subseteq CommandMessage
    BY <1>17, <2>2, CommandTypes, SendTypes DEF DiscoverTell, QueueTypes, HistoryTypes
  <2>4. ServiceTypes'
    BY <1>17, <2>1 DEF DiscoverTell, ServiceTypes, Discovery
  <2>5. QED
    BY <1>17, <2>3, <2>4 DEF DiscoverTell, QueueTypes, ZigbeeTypes, HistoryTypes
<1>18. ASSUME NEW x \in Discoverer, DiscoverEnd(x) PROVE TypeOK'
  BY <1>18 DEF DiscoverEnd, QueueTypes, ZigbeeTypes, ServiceTypes, HistoryTypes
<1>19. ASSUME NEW n \in Name, MetadataCallback(n) PROVE TypeOK'
  BY <1>19 DEF MetadataCallback, QueueTypes, ZigbeeTypes, ServiceTypes, HistoryTypes
<1>20. ASSUME NEW d \in Device, DeviceReceive(d) PROVE TypeOK'
  <2>1. /\ Head(wire[d]) \in CommandMessage
        /\ wire' = [wire EXCEPT ![d] = Tail(wire[d])] /\ Tail(wire[d]) \in Seq(CommandMessage)
    BY <1>20, TailFacts DEF DeviceReceive, ZigbeeTypes
  <2>2. Head(wire[d]).id \in Nat /\ Head(wire[d]).name \in Name
    BY <2>1 DEF CommandMessage, GetMessage, AddMessage, PlainMessage
  <2>3. serial' \in Seq(GetMessage \cup FoundMessage \cup PushMessage)
    <3>1. CASE UNCHANGED serial
      BY <3>1 DEF ZigbeeTypes
    <3>2. CASE /\ Head(wire[d]).cmd = "GET"
               /\ Publish([cmd |-> "GET", name |-> Head(wire[d]).name,
                           id |-> Head(wire[d]).id, res |-> Head(wire[d]).res])
      <4>1. Head(wire[d]) \in GetMessage
        BY <3>2, <2>1 DEF CommandMessage, GetMessage, AddMessage, PlainMessage
      <4>2. [cmd |-> "GET", name |-> Head(wire[d]).name,
             id |-> Head(wire[d]).id, res |-> Head(wire[d]).res] \in GetMessage
        BY <4>1 DEF GetMessage
      <4>3. QED
        BY <3>2, <4>2, AppendFacts DEF Publish, ZigbeeTypes
    <3>3. CASE Publish([cmd |-> "DISCOVERY", name |-> Head(wire[d]).name, mac |-> MAC[d]])
      <4>1. [cmd |-> "DISCOVERY", name |-> Head(wire[d]).name, mac |-> MAC[d]] \in FoundMessage
        BY <2>2 DEF FoundMessage, MACs
      <4>2. QED
        BY <3>3, <4>1, AppendFacts DEF Publish, ZigbeeTypes
    <3>4. QED
      BY <1>20, <3>1, <3>2, <3>3 DEF DeviceReceive
  <2>4. sw' \in [Device -> Nat] /\ my_name' \in [Device -> Name]
    BY <1>20, <2>2, DriverAssumptions DEF DeviceReceive, ZigbeeTypes
  <2>5. ZigbeeTypes'
    BY <1>20, <2>1, <2>3, <2>4 DEF DeviceReceive, ZigbeeTypes
  <2>6. QED
    BY <1>20, <2>5 DEF DeviceReceive, QueueTypes, ServiceTypes, HistoryTypes
<1>21. ASSUME NEW d \in Device, Lost(d) PROVE TypeOK'
  <2>1. wire' = [wire EXCEPT ![d] = Tail(wire[d])] /\ Tail(wire[d]) \in Seq(CommandMessage)
    BY <1>21, TailFacts DEF Lost, ZigbeeTypes
  <2>2. QED
    BY <1>21, <2>1 DEF Lost, QueueTypes, ZigbeeTypes, ServiceTypes, HistoryTypes
<1>22. ASSUME NEW d \in Device, DevicePush(d) PROVE TypeOK'
  <2>1. pushes' \in 0..MaxPushes /\ pushes + 1 \in Nat
    BY <1>22, DriverAssumptions DEF DevicePush, ZigbeeTypes
  <2>2. [cmd |-> "PUSH", name |-> my_name[d], id |-> pushes + 1, dev |-> d] \in PushMessage
    BY <2>1 DEF PushMessage, ZigbeeTypes
  <2>3. serial' \in Seq(GetMessage \cup FoundMessage \cup PushMessage)
    <3>1. CASE UNCHANGED serial
      BY <3>1 DEF ZigbeeTypes
    <3>2. CASE Publish([cmd |-> "PUSH", name |-> my_name[d], id |-> pushes + 1, dev |-> d])
      BY <3>2, <2>2, AppendFacts DEF Publish, ZigbeeTypes
    <3>3. QED
      BY <1>22, <3>1, <3>2 DEF DevicePush
  <2>4. QED
    BY <1>22, <2>1, <2>3 DEF DevicePush, QueueTypes, ZigbeeTypes, ServiceTypes, HistoryTypes
<1>23. CASE UNCHANGED vars
  BY <1>23 DEF vars, QueueTypes, ZigbeeTypes, ServiceTypes, HistoryTypes
<1>24. QED
  BY <1>1, <1>2, <1>3, <1>4, <1>5, <1>6, <1>7, <1>8, <1>9, <1>10, <1>12, <1>13, <1>14,
     <1>15, <1>16, <1>17, <1>18, <1>19, <1>20, <1>21, <1>22, <1>23
    DEF Next, Driver, GetStep, Discover

----------------------------------------------------------------------------
(* The discovery lock                                                      *)

LEMMA LockNext == TypeOK /\ LockInv /\ [Next]_vars => LockInv'
<1> SUFFICES ASSUME TypeOK, LockInv, [Next]_vars, NEW x \in Worker, disc'[x] # NULL
             PROVE  discolock' = x
  BY DEF LockInv
<1> USE DEF LockInv, service, threads, queues, zigbee, sent, seen
<1>1. /\ disc \in [Discoverer -> Discovery \cup {NULL}] /\ x \in Discoverer
      /\ disc[x] # NULL => discolock = x
      /\ x # NULL /\ x \notin Requester /\ x \notin SigInt
  BY DriverAssumptions DEF TypeOK, ServiceTypes, Discoverer
<1>2. CASE UNCHANGED <<disc, discolock>>
  BY <1>1, <1>2
<1>3. ASSUME NEW r \in Requester, DiscoveryTryLock(r) \/ DiscoverySubmit(r)
      PROVE  discolock' = x
  BY <1>1, <1>3 DEF DiscoveryTryLock, DiscoverySubmit
<1>4. ASSUME NEW y \in Worker, DoDiscovery(y) PROVE discolock' = x
  BY <1>1, <1>4 DEF DoDiscovery, Begin
<1>5. ASSUME NEW y \in SigInt, IntHandler(y) PROVE discolock' = x
  BY <1>1, <1>5 DEF IntHandler, Begin
<1>6. ASSUME NEW y \in Discoverer,
             DiscoverSend(y) \/ DiscoverCollect(y) \/ DiscoverAdd(y) \/ DiscoverTell(y)
      PROVE  discolock' = x
  <2>1. disc[y] # NULL /\ UNCHANGED discolock
    BY <1>6 DEF DiscoverSend, DiscoverCollect, DiscoverAdd, DiscoverTell, At
  <2>2. disc'[x] = disc[x] \/ x = y
    BY <1>1, <1>6 DEF DiscoverSend, DiscoverCollect, DiscoverAdd, DiscoverTell
  <2>3. QED
    BY <1>1, <2>1, <2>2
<1>7. ASSUME NEW y \in Discoverer, DiscoverEnd(y) PROVE discolock' = x
  <2>1. disc' = [disc EXCEPT ![y] = NULL] /\ disc[y] # NULL
    BY <1>7 DEF DiscoverEnd, At
  <2>2. x # y /\ disc[x] # NULL
    BY <1>1, <2>1
  <2>3. y \notin Worker
    BY <1>1, <2>1, <2>2
  <2>4. QED
    BY <1>1, <1>7, <2>2, <2>3 DEF DiscoverEnd
<1>8. QED
  <2>1. CASE \/ Driver
             \/ \E h \in Handler, n \in known, r \in Res : GetSend(h, n, r)
             \/ \E h \in Handler, n \in known : Put(h, n)
             \/ \E h \in Handler : GetStep(h)
    BY <2>1, <1>2 DEF Driver, RX, TXDeQueue, TXWrite, PushDeQueue, PushPost, GetSend, Put,
                      GetStep, GetPoll, GetTimeout
  <2>2. CASE \/ \E n \in Name : MetadataCallback(n)
             \/ \E d \in Device : DeviceReceive(d) \/ Lost(d) \/ DevicePush(d)
             \/ UNCHANGED vars
    BY <2>2, <1>2 DEF MetadataCallback, DeviceReceive, Lost, DevicePush, vars
  <2>3. QED
    BY <2>1, <2>2, <1>3, <1>4, <1>5, <1>6, <1>7 DEF Next, Discover

(* What the steps are for the commands: enQueue(QueueTX, m), deQueue and   *)
(* the write of TX, or nothing.                                            *)
EnqueuesTX(m) ==
  /\ m \in CommandMessage /\ m.id = lastId + 1 /\ lastId' = lastId + 1
  /\ QueueTX' = Enqueue(QueueTX, m, Cap)
  /\ evicted' = IF Len(QueueTX) = Cap THEN evicted \cup {Head(QueueTX)} ELSE evicted
  /\ UNCHANGED <<txbuf, written>>

LEMMA SendEnqueues ==
  ASSUME NEW c, [c EXCEPT !.id = lastId + 1] \in CommandMessage,
         [c EXCEPT !.id = lastId + 1].id = lastId + 1,
         Send(c), UNCHANGED <<txbuf, written>>
  PROVE  \E m : EnqueuesTX(m)
BY DEF Send, EnqueuesTX

LEMMA CommandIds ==
  ASSUME NEW n \in Name, NEW i \in Nat
  PROVE  /\ \A r \in Res :
              [[cmd |-> "GET", name |-> n, id |-> 0, res |-> r] EXCEPT !.id = i].id = i
         /\ \A m \in MACs :
              [[cmd |-> "ADD", name |-> n, id |-> 0, mac |-> m] EXCEPT !.id = i].id = i
         /\ \A c : [Command(c, n) EXCEPT !.id = i].id = i
BY DEF Command

LEMMA CommandSteps ==
  ASSUME TypeOK, [Next]_vars
  PROVE  \/ \E m : EnqueuesTX(m)
         \/ TXDeQueue \/ TXWrite
         \/ UNCHANGED <<QueueTX, txbuf, lastId, written, evicted>>
<1> USE DEF service, threads, queues, zigbee, sent, seen
<1>0. lastId + 1 \in Nat /\ known \subseteq Name /\ NewDevice \in Name
  BY DriverAssumptions DEF TypeOK, HistoryTypes, ServiceTypes
<1>1. ASSUME NEW h \in Handler, NEW n \in known, NEW r \in Res, GetSend(h, n, r)
      PROVE  \E m : EnqueuesTX(m)
  <2> DEFINE c == [cmd |-> "GET", name |-> n, id |-> 0, res |-> r]
             m == [c EXCEPT !.id = lastId + 1]
  <2>1. m \in CommandMessage /\ m.id = lastId + 1
    BY <1>0, CommandTypes, CommandIds
  <2>2. Send(c) /\ UNCHANGED <<txbuf, written>>
    BY <1>1 DEF GetSend
  <2> HIDE DEF c
  <2>3. QED
    BY <2>1, <2>2, SendEnqueues
<1>2. ASSUME NEW h \in Handler, NEW n \in known, Put(h, n) PROVE \E m : EnqueuesTX(m)
  <2>1. Send(Command("PUT", n)) /\ UNCHANGED <<txbuf, written>>
    BY <1>2 DEF Put
  <2>2. [Command("PUT", n) EXCEPT !.id = lastId + 1] \in CommandMessage
    BY <1>0, CommandTypes
  <2>3. [Command("PUT", n) EXCEPT !.id = lastId + 1].id = lastId + 1
    BY <1>0, CommandIds
  <2>4. QED
    BY <2>1, <2>2, <2>3, SendEnqueues
<1>3. ASSUME NEW x \in Discoverer, DiscoverSend(x) PROVE \E m : EnqueuesTX(m)
  <2>1. Send(Command("DISCOVERY", NewDevice)) /\ UNCHANGED <<txbuf, written>>
    BY <1>3 DEF DiscoverSend
  <2>2. [Command("DISCOVERY", NewDevice) EXCEPT !.id = lastId + 1] \in CommandMessage
    BY <1>0, CommandTypes
  <2>3. [Command("DISCOVERY", NewDevice) EXCEPT !.id = lastId + 1].id = lastId + 1
    BY <1>0, CommandIds
  <2>4. QED
    BY <2>1, <2>2, <2>3, SendEnqueues
<1>4. ASSUME NEW x \in Discoverer, DiscoverTell(x) PROVE \E m : EnqueuesTX(m)
  <2>1. disc[x].rep.name \in Name /\ disc[x].rep.mac \in MACs
    BY <1>4 DEF DiscoverTell, At, TypeOK, ServiceTypes, FoundMessage
  <2>2. QED
    BY <1>0, <1>4, <2>1, CommandTypes, CommandIds, SendEnqueues DEF DiscoverTell
<1>5. CASE RX \/ PushDeQueue \/ PushPost \/ \E h \in Handler : GetStep(h)
  BY <1>5 DEF RX, PushDeQueue, PushPost, GetStep, GetPoll, GetTimeout
<1>6. CASE \/ \E r \in Requester : DiscoveryTryLock(r) \/ DiscoverySubmit(r)
           \/ \E x \in Worker : DoDiscovery(x)
           \/ \E x \in SigInt : IntHandler(x)
  BY <1>6 DEF DiscoveryTryLock, DiscoverySubmit, DoDiscovery, IntHandler
<1>7. CASE \E x \in Discoverer : DiscoverCollect(x) \/ DiscoverAdd(x) \/ DiscoverEnd(x)
  BY <1>7 DEF DiscoverCollect, DiscoverAdd, DiscoverEnd
<1>8. CASE \/ \E n \in Name : MetadataCallback(n)
           \/ \E d \in Device : DeviceReceive(d) \/ Lost(d) \/ DevicePush(d)
           \/ UNCHANGED vars
  <2>1. CASE \E n \in Name : MetadataCallback(n)
    BY <2>1 DEF MetadataCallback
  <2>2. CASE \E d \in Device : DeviceReceive(d)
    BY <2>2 DEF DeviceReceive
  <2>3. CASE \E d \in Device : Lost(d) \/ DevicePush(d)
    BY <2>3 DEF Lost, DevicePush
  <2>4. CASE UNCHANGED vars
    BY <2>4 DEF vars
  <2>5. QED
    BY <1>8, <2>1, <2>2, <2>3, <2>4
<1>9. QED
  BY <1>1, <1>2, <1>3, <1>4, <1>5, <1>6, <1>7, <1>8 DEF Next, Driver, Discover

----------------------------------------------------------------------------
(* The commands                                                            *)

LEMMA IdTypes ==
  ASSUME TypeOK
  PROVE  /\ \A i \in DOMAIN QueueTX : QueueTX[i].id \in Nat
         /\ txbuf # NULL => txbuf.id \in Nat
         /\ \A i \in DOMAIN QueuePush : QueuePush[i].id \in Nat
         /\ pushbuf # NULL => pushbuf.id \in Nat
<1>1. /\ \A c \in CommandMessage : c.id \in Nat
      /\ \A c \in PushMessage : c.id \in Nat
  BY DEF CommandMessage, GetMessage, AddMessage, PlainMessage, PushMessage
<1>2. /\ \A i \in DOMAIN QueueTX : QueueTX[i] \in CommandMessage
      /\ \A i \in DOMAIN QueuePush : QueuePush[i] \in PushMessage
  BY LenProperties, ElementOfSeq DEF TypeOK, QueueTypes
<1>3. QED
  BY <1>1, <1>2 DEF TypeOK, QueueTypes

LEMMA EnqueuedTX ==
  ASSUME TypeOK, NEW m, EnqueuesTX(m)
  PROVE  \E k \in 0..1, n \in Nat :
           /\ k = IF Len(QueueTX) = Cap THEN 1 ELSE 0
           /\ Shifted(QueueTX, m, QueueTX', k, n)
<1>1. /\ QueueTX \in Seq(CommandMessage) /\ m \in CommandMessage
      /\ QueueTX' = Enqueue(QueueTX, m, Cap)
  BY DEF TypeOK, QueueTypes, EnqueuesTX
<1>2. CASE Len(QueueTX) = Cap
  <2>1. \E n \in Nat : Shifted(QueueTX, m, QueueTX', 1, n)
    BY <1>1, <1>2, EnqueueShifts
  <2>2. 1 \in 0..1 /\ 1 = IF Len(QueueTX) = Cap THEN 1 ELSE 0
    BY <1>2
  <2>3. QED
    BY <2>1, <2>2
<1>3. CASE Len(QueueTX) # Cap
  <2>1. \E n \in Nat : Shifted(QueueTX, m, QueueTX', 0, n)
    BY <1>1, <1>3, EnqueueShifts
  <2>2. 0 \in 0..1 /\ 0 = IF Len(QueueTX) = Cap THEN 1 ELSE 0
    BY <1>3
  <2>3. QED
    BY <2>1, <2>2
<1>4. QED
  BY <1>2, <1>3

LEMMA DequeuedTX ==
  ASSUME TypeOK, TXDeQueue
  PROVE  /\ txbuf = NULL /\ txbuf' = QueueTX[1] /\ txbuf' # NULL
         /\ 1 \in DOMAIN QueueTX /\ Len(QueueTX) \in Nat /\ Len(QueueTX') = Len(QueueTX) - 1
         /\ \A i \in DOMAIN QueueTX : i \in Nat \ {0}
         /\ \A i \in DOMAIN QueueTX' : i + 1 \in DOMAIN QueueTX /\ QueueTX'[i] = QueueTX[i + 1]
         /\ \A i \in DOMAIN QueueTX :
              i # 1 => i - 1 \in DOMAIN QueueTX' /\ QueueTX'[i - 1] = QueueTX[i]
         /\ UNCHANGED <<lastId, written, evicted>>
<1>1. /\ QueueTX \in Seq(CommandMessage) /\ QueueTX # <<>> /\ txbuf = NULL
      /\ txbuf' = Head(QueueTX) /\ QueueTX' = Tail(QueueTX)
      /\ UNCHANGED <<lastId, written, evicted>>
  BY DEF TypeOK, QueueTypes, TXDeQueue, sent, seen
<1>2. /\ Head(QueueTX) = QueueTX[1] /\ 1 \in DOMAIN QueueTX /\ Head(QueueTX) \in CommandMessage
      /\ Len(QueueTX) \in Nat /\ Len(QueueTX') = Len(QueueTX) - 1
      /\ DOMAIN QueueTX = 1..Len(QueueTX) /\ DOMAIN QueueTX' = 1..(Len(QueueTX) - 1)
      /\ \A i \in DOMAIN QueueTX' : i + 1 \in DOMAIN QueueTX /\ QueueTX'[i] = QueueTX[i + 1]
  BY <1>1, TailFacts
<1>3. \A i \in DOMAIN QueueTX : i \in Nat \ {0}
  BY <1>2
<1>4. \A i \in DOMAIN QueueTX :
        i # 1 => i - 1 \in DOMAIN QueueTX' /\ QueueTX'[i - 1] = QueueTX[i]
  BY <1>2
<1>5. txbuf' # NULL
  BY <1>1, <1>2, DriverAssumptions
<1>6. QED
  BY <1>1, <1>2, <1>3, <1>4, <1>5

LEMMA OrderNext == TypeOK /\ CommandOrder /\ [Next]_vars => CommandOrder'
<1> SUFFICES ASSUME TypeOK, CommandOrder, [Next]_vars PROVE CommandOrder'
  OBVIOUS
<1>0. lastId \in Nat /\ written \subseteq Nat
  BY DEF TypeOK, HistoryTypes
<1>1. ASSUME NEW m, EnqueuesTX(m) PROVE CommandOrder'
  <2>1. PICK k \in 0..1, n \in Nat : Shifted(QueueTX, m, QueueTX', k, n)
    BY <1>1, EnqueuedTX
  <2>2. m.id = lastId + 1 /\ lastId' = lastId + 1 /\ UNCHANGED <<txbuf, written>>
    BY <1>1 DEF EnqueuesTX
  <2>3. ASSUME NEW i \in DOMAIN QueueTX' PROVE QueueTX'[i].id \in 1..lastId'
    <3>1. \/ QueueTX'[i] = m
          \/ i + k \in DOMAIN QueueTX /\ QueueTX'[i] = QueueTX[i + k]
      BY <2>1 DEF Shifted
    <3>2. m.id \in 1..(lastId + 1)
      BY <1>0, <2>2
    <3>3. ASSUME NEW j \in DOMAIN QueueTX PROVE QueueTX[j].id \in 1..(lastId + 1)
      BY <1>0 DEF CommandOrder
    <3>4. QED
      BY <2>2, <3>1, <3>2, <3>3
  <2>4. \A i, j \in DOMAIN QueueTX' : i < j => QueueTX'[i].id < QueueTX'[j].id
    <3> SUFFICES ASSUME NEW i \in DOMAIN QueueTX', NEW j \in DOMAIN QueueTX', i < j
                 PROVE  QueueTX'[i].id < QueueTX'[j].id
      OBVIOUS
    <3>1. /\ i \in Int /\ j \in Int /\ j <= n /\ QueueTX'[n] = m
          /\ i < n /\ i + k \in DOMAIN QueueTX /\ QueueTX'[i] = QueueTX[i + k]
      BY <2>1 DEF Shifted
    <3>2. QueueTX[i + k].id \in 1..lastId
      BY <3>1 DEF CommandOrder
    <3>3. CASE j = n
      BY <1>0, <2>1, <2>2, <3>1, <3>2, <3>3
    <3>4. CASE j # n
      <4>1. j + k \in DOMAIN QueueTX /\ QueueTX'[j] = QueueTX[j + k] /\ i + k < j + k
        BY <2>1, <3>1, <3>4 DEF Shifted
      <4>2. QED
        BY <3>1, <4>1 DEF CommandOrder
    <3>5. QED
      BY <3>3, <3>4
  <2>5. ASSUME NEW i \in DOMAIN QueueTX'
        PROVE  /\ txbuf # NULL => txbuf.id < QueueTX'[i].id
               /\ \A l \in written : l < QueueTX'[i].id
    <3>1. \/ QueueTX'[i] = m
          \/ i + k \in DOMAIN QueueTX /\ QueueTX'[i] = QueueTX[i + k]
      BY <2>1 DEF Shifted
    <3>2. /\ txbuf # NULL => txbuf.id < m.id
          /\ \A l \in written : l < m.id
      BY <1>0, <2>2 DEF CommandOrder
    <3>3. QED
      BY <3>1, <3>2 DEF CommandOrder
  <2>6. QED
    BY <1>0, <2>2, <2>3, <2>4, <2>5 DEF CommandOrder
<1>2. CASE TXDeQueue
  <2>1. /\ txbuf' = QueueTX[1] /\ txbuf' # NULL
        /\ 1 \in DOMAIN QueueTX
        /\ \A i \in DOMAIN QueueTX : i \in Nat \ {0}
        /\ \A i \in DOMAIN QueueTX' : i + 1 \in DOMAIN QueueTX /\ QueueTX'[i] = QueueTX[i + 1]
        /\ DOMAIN QueueTX' \subseteq Nat \ {0}
        /\ UNCHANGED <<lastId, written>>
    <3>1. DOMAIN QueueTX' \subseteq Nat \ {0}
      BY <1>2, LenProperties, NextTypes DEF TypeOK, QueueTypes
    <3>2. QED
      BY <1>2, <3>1, DequeuedTX
  <2>2. \A i, j \in DOMAIN QueueTX' : i < j => QueueTX'[i].id < QueueTX'[j].id
    BY <2>1 DEF CommandOrder
  <2>3. /\ txbuf'.id \in 1..lastId
        /\ \A i \in DOMAIN QueueTX' : /\ QueueTX'[i].id \in 1..lastId
                                      /\ txbuf'.id < QueueTX'[i].id
    BY <2>1 DEF CommandOrder
  <2>4. \A l \in written : /\ l \in 1..lastId /\ l < txbuf'.id
                           /\ \A i \in DOMAIN QueueTX' : l < QueueTX'[i].id
    BY <2>1 DEF CommandOrder
  <2>5. QED
    BY <2>1, <2>2, <2>3, <2>4 DEF CommandOrder
<1>3. CASE TXWrite
  BY <1>0, <1>3 DEF TXWrite, CommandOrder, queues, sent
<1>4. CASE UNCHANGED <<QueueTX, txbuf, lastId, written, evicted>>
  BY <1>4 DEF CommandOrder
<1>5. QED
  BY <1>1, <1>2, <1>3, <1>4, CommandSteps

(* The ids that have been given are in one of the four places.             *)
LEMMA PlaceNext ==
  TypeOK /\ CommandOrder /\ CommandPlace /\ [Next]_vars => CommandPlace'
<1> SUFFICES ASSUME TypeOK, CommandOrder, CommandPlace, [Next]_vars PROVE CommandPlace'
  OBVIOUS
<1>0. /\ lastId \in Nat
      /\ \A i \in DOMAIN QueueTX : QueueTX[i].id \in Nat
  BY IdTypes DEF TypeOK, HistoryTypes
<1>1. ASSUME NEW m, EnqueuesTX(m) PROVE CommandPlace'
  <2>1. PICK k \in 0..1, n \in Nat :
          /\ k = IF Len(QueueTX) = Cap THEN 1 ELSE 0
          /\ Shifted(QueueTX, m, QueueTX', k, n)
    BY <1>1, EnqueuedTX
  <2>2. /\ m.id = lastId + 1 /\ lastId' = lastId + 1 /\ UNCHANGED <<txbuf, written>>
        /\ evicted' = IF k = 1 THEN evicted \cup {QueueTX[1]} ELSE evicted
        /\ k = 1 => 1 \in DOMAIN QueueTX
    BY <1>1, <2>1 DEF EnqueuesTX, Shifted
  <2>3. ASSUME NEW c \in evicted'
        PROVE  /\ c.id \in 1..lastId' /\ c.id \notin written
               /\ txbuf # NULL => c.id # txbuf.id
               /\ \A i \in DOMAIN QueueTX' : c.id < QueueTX'[i].id
    <3>1. /\ c.id \in 1..lastId /\ c.id \notin written
          /\ txbuf # NULL => c.id # txbuf.id
          /\ \A j \in DOMAIN QueueTX : j > k => c.id < QueueTX[j].id
      <4>1. CASE c \in evicted
        BY <4>1 DEF CommandPlace
      <4>2. CASE k = 1 /\ c = QueueTX[1]
        BY <1>0, <2>1, <2>2, <4>2 DEF CommandOrder, Shifted
      <4>3. QED
        BY <2>2, <4>1, <4>2
    <3>2. ASSUME NEW i \in DOMAIN QueueTX' PROVE c.id < QueueTX'[i].id
      <4>1. \/ QueueTX'[i] = m
            \/ i + k \in DOMAIN QueueTX /\ i + k > k /\ QueueTX'[i] = QueueTX[i + k]
        BY <2>1 DEF Shifted
      <4>2. c.id < m.id
        BY <1>0, <2>2, <3>1
      <4>3. QED
        BY <3>1, <4>1, <4>2
    <3>3. QED
      BY <1>0, <2>2, <3>1, <3>2
  <2>4. ASSUME NEW l \in 1..lastId'
        PROVE  \/ l \in written
               \/ txbuf # NULL /\ txbuf.id = l
               \/ \E i \in DOMAIN QueueTX' : QueueTX'[i].id = l
               \/ \E c \in evicted' : c.id = l
    <3>1. CASE l = lastId + 1
      BY <2>1, <2>2, <3>1 DEF Shifted
    <3>2. CASE l \in 1..lastId
      <4>1. ASSUME NEW i \in DOMAIN QueueTX, QueueTX[i].id = l
            PROVE  \/ \E j \in DOMAIN QueueTX' : QueueTX'[j].id = l
                   \/ \E c \in evicted' : c.id = l
        <5>1. CASE i > k
          BY <2>1, <4>1, <5>1 DEF Shifted
        <5>2. CASE ~(i > k)
          <6>1. i = 1 /\ k = 1
            BY <2>1, <5>2 DEF Shifted
          <6>2. QED
            BY <2>2, <4>1, <6>1
        <5>3. QED
          BY <5>1, <5>2
      <4>2. evicted \subseteq evicted'
        BY <2>2
      <4>3. QED
        BY <3>2, <4>1, <4>2 DEF CommandPlace
    <3>3. QED
      BY <1>0, <2>2, <3>1, <3>2
  <2>5. QED
    BY <2>2, <2>3, <2>4 DEF CommandPlace
<1>2. CASE TXDeQueue
  <2>1. /\ txbuf = NULL /\ txbuf' = QueueTX[1] /\ txbuf' # NULL
        /\ 1 \in DOMAIN QueueTX
        /\ \A i \in DOMAIN QueueTX' : i + 1 \in DOMAIN QueueTX /\ QueueTX'[i] = QueueTX[i + 1]
        /\ \A i \in DOMAIN QueueTX :
             i # 1 => i - 1 \in DOMAIN QueueTX' /\ QueueTX'[i - 1] = QueueTX[i]
        /\ UNCHANGED <<lastId, written, evicted>>
    BY <1>2, DequeuedTX
  <2>2. \A c \in evicted : /\ c.id \in 1..lastId /\ c.id \notin written
                           /\ c.id # txbuf'.id
                           /\ \A i \in DOMAIN QueueTX' : c.id < QueueTX'[i].id
    BY <1>0, <2>1 DEF CommandPlace
  <2>3. ASSUME NEW l \in 1..lastId
        PROVE  \/ l \in written
               \/ txbuf'.id = l
               \/ \E i \in DOMAIN QueueTX' : QueueTX'[i].id = l
               \/ \E c \in evicted : c.id = l
    <3>1. ASSUME NEW i \in DOMAIN QueueTX, QueueTX[i].id = l
          PROVE  txbuf'.id = l \/ \E j \in DOMAIN QueueTX' : QueueTX'[j].id = l
      BY <2>1, <3>1
    <3>2. QED
      BY <2>1, <3>1 DEF CommandPlace
  <2>4. QED
    BY <2>1, <2>2, <2>3 DEF CommandPlace
<1>3. CASE TXWrite
  BY <1>3 DEF TXWrite, CommandPlace, queues, sent
<1>4. CASE UNCHANGED <<QueueTX, txbuf, lastId, written, evicted>>
  BY <1>4 DEF CommandPlace
<1>5. QED
  BY <1>1, <1>2, <1>3, <1>4, CommandSteps

(* So many are in each place that together they are all.                   *)
LEMMA CountNext ==
  TypeOK /\ CommandOrder /\ CommandPlace /\ CommandCount /\ [Next]_vars => CommandCount'
<1> SUFFICES ASSUME TypeOK, CommandOrder, CommandPlace, CommandCount, [Next]_vars
             PROVE  CommandCount'
  OBVIOUS
<1>0. /\ lastId \in Nat
      /\ Cardinality(written) \in Nat /\ Cardinality(evicted) \in Nat
      /\ \A i \in DOMAIN QueueTX : QueueTX[i].id \in Nat
  BY IdTypes, FS_CardinalityType DEF TypeOK, HistoryTypes, CommandCount
<1>1. ASSUME NEW m, EnqueuesTX(m) PROVE CommandCount'
  <2>1. PICK k \in 0..1, n \in Nat :
          /\ k = IF Len(QueueTX) = Cap THEN 1 ELSE 0
          /\ Shifted(QueueTX, m, QueueTX', k, n)
    BY <1>1, EnqueuedTX
  <2>2. /\ lastId' = lastId + 1 /\ UNCHANGED <<txbuf, written>>
        /\ Len(QueueTX) \in Nat /\ Len(QueueTX') = Len(QueueTX) - k + 1
        /\ evicted' = IF k = 1 THEN evicted \cup {QueueTX[1]} ELSE evicted
        /\ k = 1 => 1 \in DOMAIN QueueTX
    BY <1>1, <2>1 DEF EnqueuesTX, Shifted
  <2>3. IsFiniteSet(evicted') /\ Cardinality(evicted') = Cardinality(evicted) + k
    <3>1. CASE k = 0
      BY <1>0, <2>2, <3>1 DEF CommandCount
    <3>2. CASE k = 1
      <4>1. QueueTX[1] \notin evicted
        BY <1>0, <2>2, <3>2 DEF CommandPlace
      <4>2. QED
        BY <2>2, <3>2, <4>1, FS_AddElement DEF CommandCount
    <3>3. QED
      BY <3>1, <3>2
  <2>4. CASE txbuf = NULL
    <3>1. Len(QueueTX) + 0 + Cardinality(written) + Cardinality(evicted) = lastId
      BY <2>4 DEF CommandCount
    <3>2. Len(QueueTX') + 0 + Cardinality(written') + Cardinality(evicted') = lastId'
      <4> DEFINE cw == Cardinality(written)
                 ce == Cardinality(evicted)
                 l  == Len(QueueTX)
      <4>1. /\ Len(QueueTX') = l - k + 1 /\ Cardinality(written') = cw
            /\ Cardinality(evicted') = ce + k /\ lastId' = lastId + 1
            /\ l + 0 + cw + ce = lastId
            /\ l \in Nat /\ cw \in Nat /\ ce \in Nat /\ k \in 0..1
        BY <1>0, <2>2, <2>3, <3>1
      <4> HIDE DEF cw, ce, l
      <4>2. CASE k = 0
        BY <4>1, <4>2
      <4>3. CASE k = 1
        BY <4>1, <4>3
      <4>4. QED
        BY <4>1, <4>2, <4>3
    <3>3. QED
      BY <2>2, <2>3, <2>4, <3>2 DEF CommandCount
  <2>5. CASE txbuf # NULL
    <3>1. Len(QueueTX) + 1 + Cardinality(written) + Cardinality(evicted) = lastId
      BY <2>5 DEF CommandCount
    <3>2. Len(QueueTX') + 1 + Cardinality(written') + Cardinality(evicted') = lastId'
      <4> DEFINE cw == Cardinality(written)
                 ce == Cardinality(evicted)
                 l  == Len(QueueTX)
      <4>1. /\ Len(QueueTX') = l - k + 1 /\ Cardinality(written') = cw
            /\ Cardinality(evicted') = ce + k /\ lastId' = lastId + 1
            /\ l + 1 + cw + ce = lastId
            /\ l \in Nat /\ cw \in Nat /\ ce \in Nat /\ k \in 0..1
        BY <1>0, <2>2, <2>3, <3>1
      <4> HIDE DEF cw, ce, l
      <4>2. CASE k = 0
        BY <4>1, <4>2
      <4>3. CASE k = 1
        BY <4>1, <4>3
      <4>4. QED
        BY <4>1, <4>2, <4>3
    <3>3. QED
      BY <2>2, <2>3, <2>5, <3>2 DEF CommandCount
  <2>6. QED
    BY <2>4, <2>5
<1>2. CASE TXDeQueue
  BY <1>0, <1>2, DequeuedTX DEF CommandCount
<1>3. CASE TXWrite
  <2>1. /\ txbuf # NULL /\ txbuf' = NULL /\ written' = written \cup {txbuf.id}
        /\ UNCHANGED <<QueueTX, lastId, evicted>>
    BY <1>3 DEF TXWrite, queues, sent
  <2>2. txbuf.id \notin written
    BY <2>1 DEF CommandOrder
  <2>3. IsFiniteSet(written') /\ Cardinality(written') = Cardinality(written) + 1
    BY <2>1, <2>2, FS_AddElement DEF CommandCount
  <2>4. Len(QueueTX) \in Nat
    BY LenProperties DEF TypeOK, QueueTypes
  <2>5. Len(QueueTX) + 1 + Cardinality(written) + Cardinality(evicted) = lastId
    BY <2>1 DEF CommandCount
  <2>6. Len(QueueTX') + 0 + Cardinality(written') + Cardinality(evicted') = lastId'
    BY <1>0, <2>1, <2>3, <2>4, <2>5
  <2>7. IsFiniteSet(evicted')
    BY <2>1 DEF CommandCount
  <2>8. QED
    BY <2>1, <2>3, <2>6, <2>7 DEF CommandCount
<1>4. CASE UNCHANGED <<QueueTX, txbuf, lastId, written, evicted>>
  BY <1>4 DEF CommandCount
<1>5. QED
  BY <1>1, <1>2, <1>3, <1>4, CommandSteps

----------------------------------------------------------------------------
(* The readings                                                            *)

(* What the steps are for the readings.                                    *)
LEMMA ReadingSteps ==
  ASSUME TypeOK, [Next]_vars
  PROVE  \/ RX \/ PushDeQueue \/ PushPost
         \/ \E d \in Device : DeviceReceive(d) \/ DevicePush(d)
         \/ UNCHANGED <<serial, QueuePush, pushbuf, pushes, posted>>
<1> USE DEF service, threads, queues, zigbee, sent, seen
<1>1. CASE \/ TXDeQueue \/ TXWrite
           \/ \E h \in Handler, n \in known, r \in Res : GetSend(h, n, r)
           \/ \E h \in Handler, n \in known : Put(h, n)
           \/ \E h \in Handler : GetStep(h)
  BY <1>1 DEF TXDeQueue, TXWrite, GetSend, Put, GetStep, GetPoll, GetTimeout
<1>2. CASE \/ \E r \in Requester : DiscoveryTryLock(r) \/ DiscoverySubmit(r)
           \/ \E x \in Worker : DoDiscovery(x)
           \/ \E x \in SigInt : IntHandler(x)
  BY <1>2 DEF DiscoveryTryLock, DiscoverySubmit, DoDiscovery, IntHandler
<1>3. CASE \E x \in Discoverer : Discover(x)
  BY <1>3 DEF Discover, DiscoverSend, DiscoverCollect, DiscoverAdd, DiscoverTell, DiscoverEnd
<1>4. CASE \/ \E n \in Name : MetadataCallback(n)
           \/ \E d \in Device : Lost(d)
           \/ UNCHANGED vars
  BY <1>4 DEF MetadataCallback, Lost, vars
<1>5. QED
  BY <1>1, <1>2, <1>3, <1>4 DEF Next, Driver

LEMMA ReadingNext == TypeOK /\ ReadingOrder /\ [Next]_vars => ReadingOrder'
<1> SUFFICES ASSUME TypeOK, ReadingOrder, [Next]_vars PROVE ReadingOrder'
  OBVIOUS
<1> DEFINE Line == GetMessage \cup FoundMessage \cup PushMessage
<1>0. /\ serial \in Seq(Line) /\ QueuePush \in Seq(PushMessage)
      /\ pushbuf \in PushMessage \cup {NULL}
      /\ posted \in [Device -> Nat] /\ pushes \in Nat
      /\ \A i \in DOMAIN QueuePush : QueuePush[i].id \in Nat
      /\ pushbuf # NULL => pushbuf.id \in Nat
      /\ NULL \notin PushMessage
  <2>1. serial \in Seq(Line) /\ pushes \in Nat
    BY DriverAssumptions DEF TypeOK, ZigbeeTypes
  <2>2. /\ QueuePush \in Seq(PushMessage) /\ pushbuf \in PushMessage \cup {NULL}
        /\ posted \in [Device -> Nat]
    BY DEF TypeOK, QueueTypes, HistoryTypes
  <2> HIDE DEF Line
  <2>3. QED
    BY <2>1, <2>2, IdTypes, DriverAssumptions
<1> HIDE DEF Line
<1>1. CASE RX
  <2> DEFINE m == Head(serial)
  <2>1. /\ serial # <<>> /\ serial' = Tail(serial)
        /\ UNCHANGED <<pushbuf, pushes, posted>>
        /\ QueuePush' = IF m.cmd = "PUSH" THEN Enqueue(QueuePush, m, Cap) ELSE QueuePush
    BY <1>1 DEF RX, threads, seen
  <2>2. /\ m = serial[1] /\ 1 \in DOMAIN serial /\ m \in Line
        /\ DOMAIN serial = 1..Len(serial) /\ DOMAIN serial' = 1..(Len(serial) - 1)
        /\ Len(serial) \in Nat
        /\ \A i \in DOMAIN serial' : i + 1 \in DOMAIN serial /\ serial'[i] = serial[i + 1]
    BY <1>0, <2>1, TailFacts
  <2> HIDE DEF m
  <2>3. /\ \A i \in Pushed' : i \in Nat \ {0} /\ i + 1 \in Pushed /\ serial'[i] = serial[i + 1]
        /\ Pushed \subseteq Nat \ {0}
    BY <2>2 DEF Pushed
  <2>4. /\ \A i \in Pushed' : serial'[i].id \in 1..pushes
        /\ \A i, j \in Pushed' : i < j => serial'[i].id < serial'[j].id
        /\ \A d \in Device, i \in Pushed' : posted[d] < serial'[i].id
        /\ \A i \in Pushed' : pushbuf # NULL => pushbuf.id < serial'[i].id
    BY <2>3 DEF ReadingOrder
  <2>5. CASE m.cmd # "PUSH"
    BY <2>1, <2>3, <2>4, <2>5 DEF ReadingOrder
  <2>6. CASE m.cmd = "PUSH"
    <3>1. m \in PushMessage /\ 1 \in Pushed /\ QueuePush' = Enqueue(QueuePush, m, Cap)
      BY <2>1, <2>2, <2>6 DEF Line, Pushed, GetMessage, FoundMessage
    <3>2. PICK k \in 0..1, n \in Nat : Shifted(QueuePush, m, QueuePush', k, n)
      BY <1>0, <3>1, EnqueueShifts
    <3>3. /\ m.id \in 1..pushes
          /\ \A i \in Pushed' : m.id < serial'[i].id
          /\ \A i \in DOMAIN QueuePush : QueuePush[i].id < m.id
          /\ pushbuf # NULL => pushbuf.id < m.id
          /\ \A d \in Device : posted[d] < m.id
      BY <2>2, <2>3, <3>1 DEF ReadingOrder
    <3>4. ASSUME NEW i \in DOMAIN QueuePush'
          PROVE  \/ i = n /\ QueuePush'[i] = m
                 \/ /\ i < n /\ i + k \in DOMAIN QueuePush
                    /\ QueuePush'[i] = QueuePush[i + k]
      BY <3>2 DEF Shifted
    <3>5. ASSUME NEW i \in DOMAIN QueuePush'
          PROVE  /\ QueuePush'[i].id \in 1..pushes
                 /\ \A j \in Pushed' : QueuePush'[i].id < serial'[j].id
                 /\ pushbuf # NULL => pushbuf.id < QueuePush'[i].id
                 /\ \A d \in Device : posted[d] < QueuePush'[i].id
      BY <2>3, <3>3, <3>4 DEF ReadingOrder
    <3>6. ASSUME NEW i \in DOMAIN QueuePush', NEW j \in DOMAIN QueuePush', i < j
          PROVE  QueuePush'[i].id < QueuePush'[j].id
      <4>1. /\ i \in Nat /\ j \in Nat /\ k \in Nat /\ j <= n
            /\ i + k \in DOMAIN QueuePush /\ QueuePush'[i] = QueuePush[i + k]
        BY <3>2, <3>6 DEF Shifted
      <4>2. CASE j = n
        BY <3>2, <3>3, <4>1, <4>2 DEF Shifted
      <4>3. CASE j # n
        <5>1. /\ j + k \in DOMAIN QueuePush /\ QueuePush'[j] = QueuePush[j + k]
              /\ i + k < j + k
          BY <3>2, <3>6, <4>1, <4>3 DEF Shifted
        <5>2. QED
          BY <4>1, <5>1 DEF ReadingOrder
      <4>4. QED
        BY <4>2, <4>3
    <3>7. QED
      BY <2>1, <2>4, <3>5, <3>6 DEF ReadingOrder
  <2>7. QED
    BY <2>5, <2>6
<1>2. CASE PushDeQueue
  <2>1. /\ QueuePush # <<>> /\ pushbuf = NULL /\ pushbuf' = Head(QueuePush)
        /\ QueuePush' = Tail(QueuePush) /\ UNCHANGED <<serial, pushes, posted>>
    BY <1>2 DEF PushDeQueue, zigbee, seen
  <2>2. /\ pushbuf' = QueuePush[1] /\ 1 \in DOMAIN QueuePush
        /\ \A i \in DOMAIN QueuePush' :
             i \in Nat \ {0} /\ i + 1 \in DOMAIN QueuePush /\ QueuePush'[i] = QueuePush[i + 1]
    BY <1>0, <2>1, TailFacts
  <2>3. Pushed' = Pushed
    BY <2>1 DEF Pushed
  <2>4. /\ \A i \in DOMAIN QueuePush' :
             /\ QueuePush'[i].id \in 1..pushes
             /\ \A j \in Pushed : QueuePush'[i].id < serial[j].id
             /\ \A d \in Device : posted[d] < QueuePush'[i].id
             /\ pushbuf'.id < QueuePush'[i].id
        /\ \A i, j \in DOMAIN QueuePush' : i < j => QueuePush'[i].id < QueuePush'[j].id
    BY <2>2 DEF ReadingOrder
  <2>5. /\ pushbuf'.id \in 1..pushes
        /\ \A i \in Pushed : pushbuf'.id < serial[i].id
        /\ \A d \in Device : posted[d] < pushbuf'.id
    BY <2>2 DEF ReadingOrder
  <2>6. QED
    BY <2>1, <2>3, <2>4, <2>5 DEF ReadingOrder
<1>3. CASE PushPost
  <2>1. /\ pushbuf # NULL /\ pushbuf' = NULL /\ UNCHANGED <<serial, QueuePush, pushes>>
        /\ \A d \in Device : posted'[d] = posted[d] \/ posted'[d] = pushbuf.id
    BY <1>0, <1>3 DEF PushPost, queues, zigbee
  <2>2. Pushed' = Pushed
    BY <2>1 DEF Pushed
  <2>3. QED
    BY <2>1, <2>2 DEF ReadingOrder
<1>4. ASSUME NEW d \in Device, DeviceReceive(d) PROVE ReadingOrder'
  <2>1. UNCHANGED <<QueuePush, pushbuf, pushes, posted>>
    BY <1>4 DEF DeviceReceive, queues, threads, seen
  <2>2. \/ UNCHANGED serial
        \/ \E m \in Line : m.cmd # "PUSH" /\ serial' = Append(serial, m)
    <3>1. Head(wire[d]) \in CommandMessage /\ Head(wire[d]).name \in Name
      BY <1>4, TailFacts DEF DeviceReceive, TypeOK, ZigbeeTypes,
                             CommandMessage, GetMessage, AddMessage, PlainMessage
    <3>2. Head(wire[d]).cmd = "GET"
            => [cmd |-> "GET", name |-> Head(wire[d]).name, id |-> Head(wire[d]).id,
                res |-> Head(wire[d]).res] \in GetMessage
      BY <3>1 DEF CommandMessage, GetMessage, AddMessage, PlainMessage
    <3>3. [cmd |-> "DISCOVERY", name |-> Head(wire[d]).name, mac |-> MAC[d]] \in FoundMessage
      BY <3>1 DEF FoundMessage, MACs
    <3>4. QED
      BY <1>4, <3>2, <3>3 DEF DeviceReceive, Publish, Line
  <2>3. Pushed' = Pushed /\ \A i \in Pushed : serial'[i] = serial[i]
    <3>1. CASE UNCHANGED serial
      BY <3>1 DEF Pushed
    <3>2. ASSUME NEW m \in Line, m.cmd # "PUSH", serial' = Append(serial, m)
          PROVE  Pushed' = Pushed /\ \A i \in Pushed : serial'[i] = serial[i]
      BY <1>0, <3>2, AppendFacts DEF Pushed
    <3>3. QED
      BY <2>2, <3>1, <3>2
  <2>4. QED
    BY <2>1, <2>3 DEF ReadingOrder
<1>5. ASSUME NEW d \in Device, DevicePush(d) PROVE ReadingOrder'
  <2>1. pushes' = pushes + 1 /\ UNCHANGED <<QueuePush, pushbuf, posted>>
    BY <1>5 DEF DevicePush, queues, threads, seen
  <2>2. CASE UNCHANGED serial
    <3>1. Pushed' = Pushed
      BY <2>2 DEF Pushed
    <3>2. QED
      BY <1>0, <2>1, <2>2, <3>1 DEF ReadingOrder
  <2>3. CASE serial' # serial
    <3> DEFINE m == [cmd |-> "PUSH", name |-> my_name[d], id |-> pushes + 1, dev |-> d]
               n == Len(serial) + 1
    <3>1. serial' = Append(serial, m)
      BY <1>5, <2>3 DEF DevicePush, Publish
    <3>2. m \in Line /\ m.id = pushes + 1
      BY <1>0 DEF Line, PushMessage, TypeOK, ZigbeeTypes
    <3> HIDE DEF m
    <3>3. /\ Pushed' \subseteq Pushed \cup {n} /\ serial'[n] = m
          /\ \A i \in Pushed : serial'[i] = serial[i] /\ i < n /\ i \in Nat
          /\ n \in Nat
      BY <1>0, <3>1, <3>2, AppendFacts DEF Pushed
    <3> HIDE DEF n
    <3>4. /\ serial'[n].id = pushes + 1
          /\ \A i \in Pushed : serial'[i].id \in 1..pushes
          /\ \A i, j \in Pushed : i < j => serial'[i].id < serial'[j].id
      BY <3>2, <3>3 DEF ReadingOrder
    <3>5. /\ \A i \in Pushed' : serial'[i].id \in 1..pushes'
          /\ \A i, j \in Pushed' : i < j => serial'[i].id < serial'[j].id
      <4>1. \A i \in Pushed' : serial'[i].id \in 1..pushes'
        BY <1>0, <2>1, <3>3, <3>4
      <4>2. ASSUME NEW i \in Pushed', NEW j \in Pushed', i < j
            PROVE  serial'[i].id < serial'[j].id
        <5>1. i \in Pushed
          BY <3>3, <4>2
        <5>2. QED
          BY <1>0, <3>3, <3>4, <4>2, <5>1
      <4>3. QED
        BY <4>1, <4>2
    <3>6. ASSUME NEW l \in 0..pushes, \A i \in Pushed : l < serial[i].id
          PROVE  \A i \in Pushed' : l < serial'[i].id
      BY <1>0, <3>3, <3>4, <3>6
    <3>7. /\ \A i \in DOMAIN QueuePush : QueuePush[i].id \in 0..pushes
          /\ pushbuf # NULL => pushbuf.id \in 0..pushes
          /\ \A e \in Device : posted[e] \in 0..pushes
          /\ 0..pushes \subseteq 0..pushes' /\ 1..pushes \subseteq 1..pushes'
      BY <1>0, <2>1 DEF ReadingOrder
    <3>8. QED
      BY <2>1, <3>5, <3>6, <3>7 DEF ReadingOrder
  <2>4. QED
    BY <2>2, <2>3
<1>6. CASE UNCHANGED <<serial, QueuePush, pushbuf, pushes, posted>>
  BY <1>6 DEF ReadingOrder, Pushed
<1>7. QED
  BY <1>1, <1>2, <1>3, <1>4, <1>5, <1>6, ReadingSteps

----------------------------------------------------------------------------
(* The results                                                             *)

(* The types, the lock of the discovery, where the commands are and in     *)
(* which order, and the order of the pushed readings.                      *)
DriverInv == TypeOK /\ LockInv /\ CommandOrder /\ CommandPlace /\ CommandCount /\ ReadingOrder

LEMMA InitInvariant == Init => DriverInv
<1> SUFFICES ASSUME Init PROVE DriverInv
  OBVIOUS
<1>1. TypeOK
  BY InitTypes
<1>2. LockInv
  BY DEF Init, LockInv, Discoverer
<1>3. CommandOrder /\ CommandPlace
  BY DEF Init, CommandOrder, CommandPlace
<1>4. CommandCount
  <2>1. IsFiniteSet({}) /\ Cardinality({}) = 0
    BY FS_EmptySet
  <2>2. QED
    BY <2>1 DEF Init, CommandCount
<1>5. ReadingOrder
  BY DriverAssumptions DEF Init, ReadingOrder, Pushed
<1>6. QED
  BY <1>1, <1>2, <1>3, <1>4, <1>5 DEF DriverInv

THEOREM DriverInvariant == SafetySpec => []DriverInv
<1>1. DriverInv /\ [Next]_vars => DriverInv'
  BY NextTypes, LockNext, OrderNext, PlaceNext, CountNext, ReadingNext DEF DriverInv
<1>2. QED
  BY InitInvariant, <1>1, PTL DEF SafetySpec

(* Types: every queue carries messages of its own kind only, although one  *)
(* receive buffer and one enQueue serve them all (device-random.c).        *)
THEOREM TypeCorrect == SafetySpec => []TypeOK
<1>1. DriverInv => TypeOK
  BY DEF DriverInv
<1>2. QED
  BY DriverInvariant, <1>1, PTL

(* Jobs of the pool never run random_discover at the same time, however    *)
(* many discoveries are asked for and however many threads the pool has:   *)
(* the requester's trylock and the job's lock are on svc->discolock.       *)
THEOREM JobsExclusive == SafetySpec => []DiscoveryExclusive
<1>1. DriverInv => DiscoveryExclusive
  BY DEF DriverInv, LockInv, DiscoveryExclusive
<1>2. QED
  BY DriverInvariant, <1>1, PTL

(* Every command that was handed to QueueTX is in exactly one place: in    *)
(* the queue, in TX's hands, written, or discarded by a full queue.        *)
THEOREM CommandsConserved == SafetySpec => []CommandConservation
<1>1. DriverInv => CommandConservation
  <2> SUFFICES ASSUME DriverInv PROVE CommandConservation
    OBVIOUS
  <2> DEFINE inTX == IF txbuf = NULL THEN {} ELSE {txbuf.id}
             out == {c.id : c \in evicted}
  <2>1. TypeOK /\ CommandOrder /\ CommandPlace /\ CommandCount
    BY DEF DriverInv
  <2>2. Ids(QueueTX) \cup inTX \cup written \cup out = 1..lastId
    BY <2>1 DEF CommandOrder, CommandPlace, Ids
  <2>3. Cardinality(inTX) = IF txbuf = NULL THEN 0 ELSE 1
    BY FS_EmptySet, FS_Singleton
  <2> HIDE DEF inTX
  <2>4. Len(QueueTX) + Cardinality(inTX) + Cardinality(written) + Cardinality(evicted) = lastId
    BY <2>1, <2>3 DEF CommandCount
  <2>5. QED
    BY <2>2, <2>4 DEF CommandConservation, inTX
<1>2. QED
  BY DriverInvariant, <1>1, PTL

(* TX writes the commands in the order of the enQueue calls, whichever     *)
(* threads made them and whatever a full queue has discarded.              *)
THEOREM WritesInOrder == SafetySpec => WrittenInOrder
<1>1. DriverInv /\ [Next]_vars => [\A i \in written' \ written : \A j \in written : j < i]_vars
  <2> SUFFICES ASSUME DriverInv, [Next]_vars, written' # written
               PROVE  \A i \in written' \ written : \A j \in written : j < i
    OBVIOUS
  <2>1. TypeOK /\ CommandOrder
    BY DEF DriverInv
  <2>2. TXWrite
    BY <2>1, CommandSteps DEF EnqueuesTX, TXDeQueue, seen
  <2>3. txbuf # NULL /\ written' = written \cup {txbuf.id}
    BY <2>2 DEF TXWrite
  <2>4. QED
    BY <2>1, <2>3 DEF CommandOrder
<1>2. QED
  BY DriverInvariant, <1>1, PTL DEF SafetySpec, WrittenInOrder

(* PushEvent posts the readings of a device in the order it pushed them,   *)
(* whatever the broker loses and the full queue discards.                  *)
THEOREM PostsInOrder == SafetySpec => ReadingsPostedInOrder
<1>1. DriverInv /\ [Next]_vars => [\A d \in Device : posted'[d] >= posted[d]]_vars
  <2> SUFFICES ASSUME DriverInv, [Next]_vars, NEW d \in Device
               PROVE  posted'[d] >= posted[d]
    OBVIOUS
  <2>1. TypeOK /\ ReadingOrder
    BY DEF DriverInv
  <2>2. posted \in [Device -> Nat] /\ posted[d] \in Nat
    BY <2>1 DEF TypeOK, HistoryTypes
  <2>3. CASE PushPost
    <3>1. pushbuf # NULL /\ pushbuf.id \in Nat /\ posted[d] < pushbuf.id
      BY <2>1, <2>3, IdTypes DEF PushPost, ReadingOrder
    <3>2. posted'[d] = posted[d] \/ posted'[d] = pushbuf.id
      BY <2>2, <2>3 DEF PushPost
    <3>3. QED
      BY <2>2, <3>1, <3>2
  <2>4. CASE UNCHANGED posted
    BY <2>2, <2>4
  <2>5. UNCHANGED posted \/ PushPost
    BY <2>1, ReadingSteps DEF RX, PushDeQueue, DeviceReceive, DevicePush, seen
  <2>6. QED
    BY <2>3, <2>4, <2>5
<1>2. QED
  BY DriverInvariant, <1>1, PTL DEF SafetySpec, ReadingsPostedInOrder

(***************************************************************************)
(* The answers: a GET returns true only with a reply of the device asked,  *)
(* as long as no two devices have the same name, and with the reply to its *)
(* own command as long as no GET has timed out and no two for one device   *)
(* have overlapped.                                                        *)
(***************************************************************************)

Elements(q) == {q[i] : i \in DOMAIN q}

(* The replies to GETs, from the device to the handler that took them.     *)
Replied == {i \in DOMAIN serial : serial[i].cmd = "GET"}
Replies == {serial[i] : i \in Replied} \cup Elements(QueueGetHandler)
             \cup {a.rep : a \in answers}

(* No two devices that were ever given a name have the same one.  Only     *)
(* discovery can end this, which calls every device it finds Addr.         *)
NamesApart ==
  \A d, e \in Device : my_name[d] = my_name[e] /\ my_name[d] # NewDevice => d = e

(* The commands on their way to a device were written in that order, and   *)
(* are the same for all devices.                                           *)
WireInv ==
  /\ \A d \in Device : \A c \in Elements(wire[d]) : c.id \in written
  /\ \A d \in Device : \A i, j \in DOMAIN wire[d] : i < j => wire[d][i].id < wire[d][j].id
  /\ \A d, e \in Device : \A c \in Elements(wire[d]), b \in Elements(wire[e]) :
       b.id = c.id => b = c

(* A reply is to a written command; no device of that name has the command *)
(* still to come.                                                          *)
ReplyInv ==
  /\ \A m \in Replies : m.id \in written
  /\ \A m \in Replies : m.name = Addr => \E e \in Device : my_name[e] = Addr
  /\ \A m \in Replies, d \in Device : \A c \in Elements(wire[d]) :
       c.id = m.id => c.name = m.name /\ c.name # my_name[d]

(* Each GET has one reply at most.                                         *)
OneReply ==
  /\ \A i, j \in Replied : serial[i].id = serial[j].id => i = j
  /\ \A i, j \in DOMAIN QueueGetHandler :
       QueueGetHandler[i].id = QueueGetHandler[j].id => i = j
  /\ \A i \in Replied, j \in DOMAIN QueueGetHandler : serial[i].id # QueueGetHandler[j].id
  /\ \A a \in answers : /\ \A i \in Replied : a.rep.id # serial[i].id
                        /\ \A i \in DOMAIN QueueGetHandler : a.rep.id # QueueGetHandler[i].id
                        /\ \A b \in answers : a # b => a.rep.id # b.rep.id

(* The GETs in service, and all commands and replies of GETs.              *)
Serving == {h \in Handler : get[h] # NULL}
Commands == Elements(QueueTX) \cup ({txbuf} \ {NULL}) \cup UNION {Elements(wire[d]) : d \in Device}
Gets == {c \in Commands : c.cmd = "GET"} \cup Replies

(* A GET is never for a device that was not added.                         *)
GetNames == NewDevice \notin meta /\ \A c \in Commands : c.cmd = "GET" => c.name # NewDevice

(* There is one GET per device, and what is under way for a GET is for the *)
(* one that waits, unless that one has had its reply.                      *)
GetInv ==
  /\ \A h, k \in Serving : get[h].name = get[k].name => h = k
  /\ \A m \in Gets : \/ \E h \in Serving : get[h].id = m.id /\ get[h].name = m.name
                     \/ \E a \in answers : a.rep.id = m.id

AnswerInv == /\ WireInv /\ GetNames /\ ReplyInv /\ OneReply
             /\ ~mixed => GetInv
             /\ AnswersSound

----------------------------------------------------------------------------
(* The elements of a queue                                                 *)

LEMMA ElementsTail ==
  ASSUME NEW S, NEW q \in Seq(S), q # <<>>
  PROVE  /\ Head(q) \in Elements(q) /\ Elements(q) \subseteq S
         /\ Elements(Tail(q)) \subseteq Elements(q)
<1>1. /\ Head(q) = q[1] /\ 1 \in DOMAIN q
      /\ \A i \in DOMAIN Tail(q) : i + 1 \in DOMAIN q /\ Tail(q)[i] = q[i + 1]
  BY TailFacts
<1>2. \A i \in DOMAIN q : q[i] \in S
  BY LenProperties, ElementOfSeq
<1>3. QED
  BY <1>1, <1>2 DEF Elements

LEMMA ElementsAppend ==
  ASSUME NEW S, NEW q \in Seq(S), NEW m \in S
  PROVE  Elements(Append(q, m)) = Elements(q) \cup {m}
<1> DEFINE r == Append(q, m)
<1>1. /\ Len(q) \in Nat /\ DOMAIN q = 1..Len(q) /\ DOMAIN r = 1..(Len(q) + 1)
      /\ \A i \in DOMAIN q : r[i] = q[i]
      /\ r[Len(q) + 1] = m
  BY AppendFacts
<1> HIDE DEF r
<1>2. DOMAIN r = DOMAIN q \cup {Len(q) + 1}
  BY <1>1
<1>3. QED
  BY <1>1, <1>2 DEF Elements, r

LEMMA ElementsEnqueue ==
  ASSUME NEW S, NEW q \in Seq(S), NEW m \in S
  PROVE  Elements(Enqueue(q, m, Cap)) \subseteq Elements(q) \cup {m}
<1>1. CASE Len(q) = Cap
  <2> DEFINE t == Tail(q)
  <2>1. t \in Seq(S) /\ Elements(t) \subseteq Elements(q)
    BY <1>1, FullFacts, TailFacts, ElementsTail
  <2>2. Enqueue(q, m, Cap) = Append(t, m)
    BY <1>1 DEF Enqueue
  <2> HIDE DEF t
  <2>3. Elements(Append(t, m)) = Elements(t) \cup {m}
    BY <2>1, ElementsAppend
  <2>4. QED
    BY <2>1, <2>2, <2>3
<1>2. CASE Len(q) # Cap
  BY <1>2, ElementsAppend DEF Enqueue
<1>3. QED
  BY <1>1, <1>2

----------------------------------------------------------------------------
(* The commands on their way to the devices                                *)

LEMMA WireSteps ==
  ASSUME TypeOK, [Next]_vars
  PROVE  \/ TXWrite
         \/ \E d \in Device : /\ wire[d] # <<>> /\ wire' = [wire EXCEPT ![d] = Tail(@)]
                              /\ UNCHANGED written
         \/ UNCHANGED <<wire, written>>
<1> USE DEF service, threads, queues, zigbee, sent, seen
<1>1. CASE \/ RX \/ TXDeQueue \/ PushDeQueue \/ PushPost
           \/ \E h \in Handler, n \in known, r \in Res : GetSend(h, n, r)
           \/ \E h \in Handler, n \in known : Put(h, n)
           \/ \E h \in Handler : GetStep(h)
  BY <1>1 DEF RX, TXDeQueue, PushDeQueue, PushPost, GetSend, Put, GetStep, GetPoll, GetTimeout
<1>2. CASE \/ \E r \in Requester : DiscoveryTryLock(r) \/ DiscoverySubmit(r)
           \/ \E x \in Worker : DoDiscovery(x)
           \/ \E x \in SigInt : IntHandler(x)
  BY <1>2 DEF DiscoveryTryLock, DiscoverySubmit, DoDiscovery, IntHandler
<1>3. CASE \E x \in Discoverer : Discover(x)
  BY <1>3 DEF Discover, DiscoverSend, DiscoverCollect, DiscoverAdd, DiscoverTell, DiscoverEnd
<1>4. CASE \/ \E n \in Name : MetadataCallback(n)
           \/ \E d \in Device : DevicePush(d)
           \/ UNCHANGED vars
  BY <1>4 DEF MetadataCallback, DevicePush, vars
<1>5. CASE \E d \in Device : DeviceReceive(d) \/ Lost(d)
  BY <1>5 DEF DeviceReceive, Lost
<1>6. QED
  BY <1>1, <1>2, <1>3, <1>4, <1>5 DEF Next, Driver

LEMMA WireNext == TypeOK /\ CommandOrder /\ WireInv /\ [Next]_vars => WireInv'
<1> SUFFICES ASSUME TypeOK, CommandOrder, WireInv, [Next]_vars PROVE WireInv'
  OBVIOUS
<1>0. wire \in [Device -> Seq(CommandMessage)] /\ written \subseteq Nat
  BY DEF TypeOK, ZigbeeTypes, HistoryTypes
<1>1. CASE TXWrite
  <2>1. /\ txbuf # NULL /\ txbuf \in CommandMessage
        /\ wire' = [d \in Device |-> Append(wire[d], txbuf)]
        /\ written' = written \cup {txbuf.id}
        /\ \A k \in written : k < txbuf.id
    BY <1>1 DEF TXWrite, CommandOrder, TypeOK, QueueTypes
  <2>2. \A d \in Device : Elements(wire'[d]) = Elements(wire[d]) \cup {txbuf}
    BY <1>0, <2>1, ElementsAppend
  <2>3. txbuf.id \in Nat /\ txbuf.id \notin written
    BY <1>0, <2>1, IdTypes
  <2>4. ASSUME NEW d \in Device, NEW i \in DOMAIN wire'[d], NEW j \in DOMAIN wire'[d], i < j
        PROVE  wire'[d][i].id < wire'[d][j].id
    <3> DEFINE q == wire[d]
               n == Len(q) + 1
    <3>1. /\ Len(q) \in Nat /\ DOMAIN q = 1..Len(q) /\ DOMAIN wire'[d] = 1..n
          /\ \A k \in DOMAIN q : wire'[d][k] = q[k]
          /\ wire'[d][n] = txbuf
      BY <1>0, <2>1, AppendFacts
    <3>2. i \in DOMAIN q /\ q[i] \in Elements(q)
      BY <2>4, <3>1 DEF Elements
    <3>3. CASE j = n
      <4>1. q[i].id \in written
        BY <3>2 DEF WireInv
      <4>2. QED
        BY <2>1, <3>1, <3>2, <3>3, <4>1
    <3>4. CASE j # n
      <4>1. j \in DOMAIN q
        BY <3>1, <3>4
      <4>2. QED
        BY <2>4, <3>1, <3>2, <4>1 DEF WireInv
    <3>5. QED
      BY <3>3, <3>4
  <2>5. ASSUME NEW d \in Device, NEW c \in Elements(wire'[d]) PROVE c.id \in written'
    <3>1. c \in Elements(wire[d]) \/ c = txbuf
      BY <2>2
    <3>2. c \in Elements(wire[d]) => c.id \in written
      BY DEF WireInv
    <3>3. QED
      BY <2>1, <3>1, <3>2
  <2>6. \A d, e \in Device : \A c \in Elements(wire'[d]), b \in Elements(wire'[e]) :
          b.id = c.id => b = c
    <3> SUFFICES ASSUME NEW d \in Device, NEW e \in Device,
                        NEW c \in Elements(wire'[d]), NEW b \in Elements(wire'[e]),
                        b.id = c.id
                 PROVE  b = c
      OBVIOUS
    <3>1. /\ c \in Elements(wire[d]) \/ c = txbuf
          /\ b \in Elements(wire[e]) \/ b = txbuf
      BY <2>2
    <3>2. /\ c \in Elements(wire[d]) => c.id \in written
          /\ b \in Elements(wire[e]) => b.id \in written
      BY DEF WireInv
    <3>3. CASE c \in Elements(wire[d]) /\ b \in Elements(wire[e])
      BY <3>3 DEF WireInv
    <3>4. QED
      BY <2>3, <3>1, <3>2, <3>3
  <2>7. QED
    BY <2>4, <2>5, <2>6 DEF WireInv
<1>2. ASSUME NEW d \in Device, wire[d] # <<>>, wire' = [wire EXCEPT ![d] = Tail(@)],
             UNCHANGED written
      PROVE  WireInv'
  <2>1. /\ wire'[d] = Tail(wire[d]) /\ \A e \in Device : e # d => wire'[e] = wire[e]
    BY <1>0, <1>2
  <2>2. \A e \in Device : Elements(wire'[e]) \subseteq Elements(wire[e])
    BY <1>0, <1>2, <2>1, ElementsTail
  <2>3. \A i \in DOMAIN wire'[d] :
          i \in Nat /\ i + 1 \in DOMAIN wire[d] /\ wire'[d][i] = wire[d][i + 1]
    BY <1>0, <1>2, <2>1, TailFacts
  <2>4. \A i, j \in DOMAIN wire'[d] : i < j => wire'[d][i].id < wire'[d][j].id
    BY <2>3 DEF WireInv
  <2>5. \A e \in Device : \A i, j \in DOMAIN wire'[e] :
          i < j => wire'[e][i].id < wire'[e][j].id
    BY <2>1, <2>4 DEF WireInv
  <2>6. QED
    BY <1>2, <2>2, <2>5 DEF WireInv
<1>3. CASE UNCHANGED <<wire, written>>
  BY <1>3 DEF WireInv
<1>4. QED
  BY <1>1, <1>2, <1>3, WireSteps

----------------------------------------------------------------------------
(* The replies                                                             *)

LEMMA ReplySteps ==
  ASSUME TypeOK, [Next]_vars
  PROVE  \/ RX \/ TXWrite \/ \E h \in Handler : GetPoll(h)
         \/ \E d \in Device : DeviceReceive(d) \/ Lost(d) \/ DevicePush(d)
         \/ UNCHANGED <<serial, QueueGetHandler, answers, wire, my_name, written>>
<1> USE DEF service, threads, queues, zigbee, sent, seen
<1>1. CASE \/ TXDeQueue \/ PushDeQueue \/ PushPost
           \/ \E h \in Handler, n \in known, r \in Res : GetSend(h, n, r)
           \/ \E h \in Handler, n \in known : Put(h, n)
           \/ \E h \in Handler : GetTimeout(h)
  BY <1>1 DEF TXDeQueue, PushDeQueue, PushPost, GetSend, Put, GetTimeout
<1>2. CASE \/ \E r \in Requester : DiscoveryTryLock(r) \/ DiscoverySubmit(r)
           \/ \E x \in Worker : DoDiscovery(x)
           \/ \E x \in SigInt : IntHandler(x)
  BY <1>2 DEF DiscoveryTryLock, DiscoverySubmit, DoDiscovery, IntHandler
<1>3. CASE \E x \in Discoverer : Discover(x)
  BY <1>3 DEF Discover, DiscoverSend, DiscoverCollect, DiscoverAdd, DiscoverTell, DiscoverEnd
<1>4. CASE (\E n \in Name : MetadataCallback(n)) \/ UNCHANGED vars
  BY <1>4 DEF MetadataCallback, vars
<1>5. QED
  BY <1>1, <1>2, <1>3, <1>4 DEF Next, Driver, GetStep

(* What one step does to the replies: it drops some or passes them on, or  *)
(* a device answers the GET that it takes from its wire.                   *)
Answers(d) ==
  LET c == Head(wire[d])
      m == [cmd |-> "GET", name |-> c.name, id |-> c.id, res |-> c.res]
  IN  /\ wire[d] # <<>> /\ c.cmd = "GET" /\ c.name = my_name[d]
      /\ m \in GetMessage /\ m.id = c.id /\ m.name = c.name /\ m.cmd = "GET"
      /\ serial' = Append(serial, m)
      /\ my_name' = my_name
      /\ Replies' = Replies \cup {m}

LEMMA RepliesKept ==
  ASSUME TypeOK, [Next]_vars
  PROVE  \/ Replies' \subseteq Replies
         \/ \E d \in Device : DeviceReceive(d) /\ Answers(d)
<1>1. /\ serial \in Seq(GetMessage \cup FoundMessage \cup PushMessage)
      /\ QueueGetHandler \in Seq(GetMessage)
  BY DEF TypeOK, QueueTypes, ZigbeeTypes
<1>2. CASE RX
  <2> DEFINE m == Head(serial)
  <2>1. /\ serial # <<>> /\ serial' = Tail(serial) /\ answers' = answers
        /\ QueueGetHandler' = IF m.cmd = "GET" THEN Enqueue(QueueGetHandler, m, Cap)
                                               ELSE QueueGetHandler
    BY <1>2 DEF RX, seen
  <2>2. /\ m = serial[1] /\ 1 \in DOMAIN serial
        /\ \A i \in DOMAIN serial' : i + 1 \in DOMAIN serial /\ serial'[i] = serial[i + 1]
        /\ m \in GetMessage \cup FoundMessage \cup PushMessage
    BY <1>1, <2>1, TailFacts
  <2> HIDE DEF m
  <2>3. \A i \in Replied' : serial'[i] \in Replies
    BY <2>2 DEF Replied, Replies
  <2>4. Elements(QueueGetHandler') \subseteq Replies
    <3>1. CASE m.cmd = "GET"
      <4>1. m \in GetMessage /\ m \in Replies
        BY <2>2, <3>1 DEF Replied, Replies, FoundMessage, PushMessage
      <4>2. QED
        BY <1>1, <2>1, <3>1, <4>1, ElementsEnqueue DEF Replies
    <3>2. CASE m.cmd # "GET"
      BY <2>1, <3>2 DEF Replies
    <3>3. QED
      BY <3>1, <3>2
  <2>5. QED
    BY <2>1, <2>3, <2>4 DEF Replies
<1>3. ASSUME NEW h \in Handler, GetPoll(h) PROVE Replies' \subseteq Replies
  <2>1. serial' = serial
    BY <1>3 DEF GetPoll, zigbee
  <2>2. \/ UNCHANGED <<QueueGetHandler, answers>>
        \/ /\ QueueGetHandler # <<>> /\ QueueGetHandler' = Tail(QueueGetHandler)
           /\ answers' = answers \cup {[req |-> get[h], rep |-> Head(QueueGetHandler)]}
    BY <1>3 DEF GetPoll
  <2>3. CASE UNCHANGED <<QueueGetHandler, answers>>
    BY <2>1, <2>3 DEF Replies, Replied
  <2>4. CASE /\ QueueGetHandler # <<>> /\ QueueGetHandler' = Tail(QueueGetHandler)
             /\ answers' = answers \cup {[req |-> get[h], rep |-> Head(QueueGetHandler)]}
    <3>1. /\ Head(QueueGetHandler) \in Elements(QueueGetHandler)
          /\ Elements(QueueGetHandler') \subseteq Elements(QueueGetHandler)
      BY <1>1, <2>4, ElementsTail
    <3>2. QED
      BY <2>1, <2>4, <3>1 DEF Replies, Replied
  <2>5. QED
    BY <2>2, <2>3, <2>4
<1>4. ASSUME NEW d \in Device, DeviceReceive(d)
      PROVE  Replies' \subseteq Replies \/ Answers(d)
  <2> DEFINE c == Head(wire[d])
             m == [cmd |-> "GET", name |-> c.name, id |-> c.id, res |-> c.res]
  <2>1. UNCHANGED <<QueueGetHandler, answers>> /\ wire[d] # <<>>
    BY <1>4 DEF DeviceReceive, queues, seen
  <2>2. c \in CommandMessage /\ c.name \in Name
    BY <2>1, TailFacts DEF TypeOK, ZigbeeTypes, CommandMessage, GetMessage, AddMessage, PlainMessage
  <2>3. CASE c.cmd = "GET" /\ c.name = my_name[d]
    <3>1. /\ m \in GetMessage /\ m.id = c.id /\ m.name = c.name /\ m.cmd = "GET"
      BY <2>2, <2>3 DEF CommandMessage, GetMessage, AddMessage, PlainMessage
    <3>2. serial' = Append(serial, m) /\ my_name' = my_name
      BY <1>4, <2>3 DEF DeviceReceive, Publish
    <3> HIDE DEF m
    <3>3. /\ DOMAIN serial' = DOMAIN serial \cup {Len(serial) + 1}
          /\ serial'[Len(serial) + 1] = m
          /\ \A i \in DOMAIN serial : serial'[i] = serial[i]
      <4>1. /\ Len(serial) \in Nat /\ DOMAIN serial = 1..Len(serial)
            /\ DOMAIN serial' = 1..(Len(serial) + 1)
            /\ serial'[Len(serial) + 1] = m
            /\ \A i \in DOMAIN serial : serial'[i] = serial[i]
        BY <1>1, <3>1, <3>2, AppendFacts
      <4>2. QED
        BY <4>1
    <3>4. {serial'[i] : i \in Replied'} = {serial[i] : i \in Replied} \cup {m}
      BY <3>1, <3>3 DEF Replied
    <3>5. Replies' = Replies \cup {m}
      BY <2>1, <3>4 DEF Replies
    <3>6. QED
      BY <2>1, <2>3, <3>1, <3>2, <3>5 DEF Answers, m
  <2>4. CASE ~(c.cmd = "GET" /\ c.name = my_name[d])
    <3>1. \/ UNCHANGED serial
          \/ serial' = Append(serial, [cmd |-> "DISCOVERY", name |-> c.name, mac |-> MAC[d]])
      BY <1>4, <2>4 DEF DeviceReceive, Publish
    <3>2. [cmd |-> "DISCOVERY", name |-> c.name, mac |-> MAC[d]] \in FoundMessage
      BY <2>2 DEF FoundMessage, MACs
    <3> DEFINE f == [cmd |-> "DISCOVERY", name |-> c.name, mac |-> MAC[d]]
    <3>3. f.cmd # "GET" /\ f \in FoundMessage /\ (UNCHANGED serial \/ serial' = Append(serial, f))
      BY <3>1, <3>2
    <3> HIDE DEF c, f
    <3>4. {serial'[i] : i \in Replied'} \subseteq {serial[i] : i \in Replied}
      BY <1>1, <3>3, AppendFacts DEF Replied
    <3>5. QED
      BY <2>1, <3>4 DEF Replies
  <2>5. QED
    BY <2>3, <2>4
<1>5. ASSUME NEW d \in Device, DevicePush(d) PROVE Replies' \subseteq Replies
  <2> DEFINE m == [cmd |-> "PUSH", name |-> my_name[d], id |-> pushes + 1, dev |-> d]
  <2>1. UNCHANGED <<QueueGetHandler, answers>> /\ (UNCHANGED serial \/ serial' = Append(serial, m))
    BY <1>5 DEF DevicePush, Publish, queues, seen
  <2>2. m \in PushMessage /\ m.cmd # "GET"
    BY DEF PushMessage, TypeOK, ZigbeeTypes
  <2> HIDE DEF m
  <2>3. {serial'[i] : i \in Replied'} \subseteq {serial[i] : i \in Replied}
    BY <1>1, <2>1, <2>2, AppendFacts DEF Replied
  <2>4. QED
    BY <2>1, <2>3 DEF Replies
<1>6. CASE UNCHANGED <<serial, QueueGetHandler, answers>>
  BY <1>6 DEF Replies, Replied
<1>7. QED
  BY <1>2, <1>3, <1>4, <1>5, <1>6, ReplySteps DEF TXWrite, Lost, queues, seen

LEMMA ReplyNext ==
  ASSUME TypeOK, CommandOrder, WireInv, GetNames, ReplyInv, NamesApart, NamesApart', [Next]_vars
  PROVE  ReplyInv'
<1>0. /\ wire \in [Device -> Seq(CommandMessage)] /\ written \subseteq Nat
      /\ my_name \in [Device -> Name] /\ Addr # NewDevice
  BY DriverAssumptions DEF TypeOK, ZigbeeTypes, HistoryTypes
<1>1. CASE TXWrite
  <2>1. /\ txbuf \in CommandMessage /\ txbuf.id \notin written
        /\ wire' = [d \in Device |-> Append(wire[d], txbuf)]
        /\ written' = written \cup {txbuf.id} /\ my_name' = my_name
    BY <1>0, <1>1, IdTypes DEF TXWrite, CommandOrder, TypeOK, QueueTypes
  <2>2. Replies' = Replies
    BY <1>1 DEF TXWrite, Replies, Replied, queues
  <2>3. \A d \in Device : Elements(wire'[d]) = Elements(wire[d]) \cup {txbuf}
    BY <1>0, <2>1, ElementsAppend
  <2>4. ASSUME NEW m \in Replies, NEW d \in Device, NEW c \in Elements(wire'[d]), c.id = m.id
        PROVE  c.name = m.name /\ c.name # my_name[d]
    <3>1. m.id \in written
      BY DEF ReplyInv
    <3>2. c \in Elements(wire[d]) \/ c = txbuf
      BY <2>3
    <3>3. c # txbuf
      BY <2>1, <2>4, <3>1
    <3>4. QED
      BY <2>4, <3>2, <3>3 DEF ReplyInv
  <2>5. \A m \in Replies : m.id \in written'
    BY <2>1 DEF ReplyInv
  <2>6. \A m \in Replies : m.name = Addr => \E e \in Device : my_name[e] = Addr
    BY DEF ReplyInv
  <2>7. QED
    BY <2>1, <2>2, <2>4, <2>5, <2>6 DEF ReplyInv
<1>2. CASE ~TXWrite
  <2>1. /\ \A e \in Device : Elements(wire'[e]) \subseteq Elements(wire[e])
        /\ written' = written
    <3>1. ASSUME NEW d \in Device, wire[d] # <<>>, wire' = [wire EXCEPT ![d] = Tail(@)]
          PROVE  \A e \in Device : Elements(wire'[e]) \subseteq Elements(wire[e])
      BY <1>0, <3>1, ElementsTail
    <3>2. QED
      BY <1>2, <3>1, WireSteps
  <2>2. ASSUME NEW d \in Device, DeviceReceive(d), Answers(d) PROVE ReplyInv'
    <3> DEFINE c == Head(wire[d])
               m == [cmd |-> "GET", name |-> c.name, id |-> c.id, res |-> c.res]
    <3>1. /\ wire[d] # <<>> /\ c.cmd = "GET" /\ c.name = my_name[d]
          /\ m.id = c.id /\ m.name = c.name
          /\ my_name' = my_name /\ Replies' = Replies \cup {m}
      BY <2>2 DEF Answers
    <3>2. wire'[d] = Tail(wire[d]) /\ \A e \in Device : e # d => wire'[e] = wire[e]
      BY <1>0, <2>2 DEF DeviceReceive
    <3>3. /\ c \in Elements(wire[d])
          /\ \A b \in Elements(wire'[d]) : b.id # c.id
      <4>1. /\ c = wire[d][1] /\ 1 \in DOMAIN wire[d]
            /\ \A i \in DOMAIN wire'[d] : i \in Nat \ {0} /\ i + 1 \in DOMAIN wire[d]
                                         /\ wire'[d][i] = wire[d][i + 1]
        BY <1>0, <3>1, <3>2, TailFacts
      <4>2. \A i \in DOMAIN wire'[d] : c.id < wire'[d][i].id
        BY <4>1 DEF WireInv
      <4>3. c \in Elements(wire[d])
        BY <4>1 DEF Elements
      <4>4. c.id \in Nat
        BY <1>0, <4>3 DEF WireInv
      <4>5. QED
        BY <4>2, <4>3, <4>4 DEF Elements
    <3>4. c.name # NewDevice
      BY <3>1, <3>3 DEF GetNames, Commands
    <3> HIDE DEF m
    <3>5. ASSUME NEW e \in Device, NEW b \in Elements(wire'[e]), b.id = m.id
          PROVE  b.name = m.name /\ b.name # my_name[e]
      <4>1. b \in Elements(wire[e])
        BY <2>1
      <4>2. b = c
        BY <3>1, <3>3, <3>5, <4>1 DEF WireInv
      <4>3. e # d
        BY <3>1, <3>3, <3>5
      <4>4. QED
        BY <3>1, <3>4, <4>2, <4>3 DEF NamesApart
    <3>6. m.id \in written'
      BY <2>1, <3>1, <3>3 DEF WireInv
    <3>7. /\ \A k \in Replies' : k.id \in written'
          /\ \A k \in Replies' : k.name = Addr => \E e \in Device : my_name'[e] = Addr
      BY <2>1, <3>1, <3>6 DEF ReplyInv
    <3>8. ASSUME NEW k \in Replies', NEW e \in Device, NEW b \in Elements(wire'[e]), b.id = k.id
          PROVE  b.name = k.name /\ b.name # my_name'[e]
      BY <2>1, <3>1, <3>5, <3>8 DEF ReplyInv
    <3>9. QED
      BY <3>7, <3>8 DEF ReplyInv
  <2>3. CASE Replies' \subseteq Replies
    <3>1. \/ my_name' = my_name
          \/ \E d \in Device : my_name' = [my_name EXCEPT ![d] = Addr]
      BY ReplySteps DEF RX, TXWrite, GetPoll, DeviceReceive, Lost, DevicePush, zigbee
    <3>2. /\ \A m \in Replies' : m.id \in written'
          /\ \A m \in Replies' : m.name = Addr => \E e \in Device : my_name'[e] = Addr
      BY <1>0, <2>1, <2>3, <3>1 DEF ReplyInv
    <3>3. ASSUME NEW m \in Replies', NEW e \in Device, NEW c \in Elements(wire'[e]), c.id = m.id
          PROVE  c.name = m.name /\ c.name # my_name'[e]
      <4>1. c.name = m.name /\ c.name # my_name[e] /\ c \in Elements(wire[e])
        BY <2>1, <2>3, <3>3 DEF ReplyInv
      <4>2. ASSUME my_name'[e] # my_name[e], c.name = my_name'[e] PROVE FALSE
        <5>1. my_name'[e] = Addr /\ m.name = Addr
          BY <1>0, <3>1, <4>1, <4>2
        <5>2. PICK x \in Device : my_name[x] = Addr
          BY <2>3, <5>1 DEF ReplyInv
        <5>3. x # e /\ my_name'[x] = Addr
          BY <1>0, <3>1, <4>2, <5>1, <5>2
        <5>4. QED
          BY <1>0, <5>1, <5>3 DEF NamesApart
      <4>3. QED
        BY <4>1, <4>2
    <3>4. QED
      BY <3>2, <3>3 DEF ReplyInv
  <2>4. QED
    BY <2>2, <2>3, RepliesKept
<1>3. QED
  BY <1>1, <1>2

LEMMA SerialAppend ==
  ASSUME NEW S, serial \in Seq(S), NEW m \in S, serial' = Append(serial, m)
  PROVE  \E n : /\ n \notin Replied
                /\ Replied' = Replied \cup (IF m.cmd = "GET" THEN {n} ELSE {})
                /\ serial'[n] = m /\ \A i \in Replied : serial'[i] = serial[i]
<1> DEFINE n == Len(serial) + 1
<1>1. /\ Len(serial) \in Nat /\ DOMAIN serial = 1..Len(serial) /\ DOMAIN serial' = 1..n
      /\ serial'[n] = m
      /\ \A i \in DOMAIN serial : serial'[i] = serial[i]
  BY AppendFacts
<1>2. n \notin DOMAIN serial /\ DOMAIN serial' = DOMAIN serial \cup {n}
  BY <1>1
<1> HIDE DEF n
<1>3. Replied' = Replied \cup (IF m.cmd = "GET" THEN {n} ELSE {})
  BY <1>1, <1>2 DEF Replied
<1>4. QED
  BY <1>1, <1>2, <1>3 DEF Replied

LEMMA OneReplyNext ==
  ASSUME TypeOK, ReplyInv, OneReply, [Next]_vars
  PROVE  OneReply'
<1> DEFINE Line == GetMessage \cup FoundMessage \cup PushMessage
<1>0. serial \in Seq(Line) /\ QueueGetHandler \in Seq(GetMessage)
  BY DEF TypeOK, QueueTypes, ZigbeeTypes
<1> HIDE DEF Line
<1>1. CASE RX
  <2> DEFINE m == Head(serial)
  <2>1. /\ serial # <<>> /\ serial' = Tail(serial) /\ answers' = answers
        /\ QueueGetHandler' = IF m.cmd = "GET" THEN Enqueue(QueueGetHandler, m, Cap)
                                               ELSE QueueGetHandler
    BY <1>1 DEF RX, seen
  <2>2. /\ m = serial[1] /\ 1 \in DOMAIN serial /\ m \in Line
        /\ DOMAIN serial = 1..Len(serial) /\ Len(serial) \in Nat
        /\ DOMAIN serial' = 1..(Len(serial) - 1)
        /\ \A i \in DOMAIN serial' : i + 1 \in DOMAIN serial /\ serial'[i] = serial[i + 1]
    BY <1>0, <2>1, TailFacts
  <2> HIDE DEF m
  <2>3. \A i \in Replied' : i \in Nat \ {0} /\ i + 1 \in Replied /\ serial'[i] = serial[i + 1]
    BY <2>2 DEF Replied
  <2>4. /\ \A i, j \in Replied' : serial'[i].id = serial'[j].id => i = j
        /\ \A i \in Replied', j \in DOMAIN QueueGetHandler :
             serial'[i].id # QueueGetHandler[j].id
        /\ \A a \in answers : \A i \in Replied' : a.rep.id # serial'[i].id
    <3>1. ASSUME NEW i \in Replied', NEW j \in Replied', serial'[i].id = serial'[j].id
          PROVE  i = j
      <4>1. i + 1 = j + 1
        BY <2>3, <3>1 DEF OneReply
      <4>2. QED
        BY <2>3, <4>1
    <3>2. QED
      BY <2>3, <3>1 DEF OneReply
  <2>5. CASE m.cmd # "GET"
    BY <2>1, <2>4, <2>5 DEF OneReply
  <2>6. CASE m.cmd = "GET"
    <3>1. m \in GetMessage /\ 1 \in Replied
      BY <2>2, <2>6 DEF Line, Replied, FoundMessage, PushMessage
    <3>2. PICK k \in 0..1, n \in Nat : Shifted(QueueGetHandler, m, QueueGetHandler', k, n)
      BY <1>0, <2>1, <2>6, <3>1, EnqueueShifts
    <3>3. ASSUME NEW i \in DOMAIN QueueGetHandler'
          PROVE  /\ i \in Nat
                 /\ i = n => QueueGetHandler'[i] = m
                 /\ i # n => /\ i + k \in DOMAIN QueueGetHandler
                             /\ QueueGetHandler'[i] = QueueGetHandler[i + k]
      BY <3>2 DEF Shifted
    <3>4. /\ \A i \in Replied' : serial'[i].id # m.id
          /\ \A j \in DOMAIN QueueGetHandler : QueueGetHandler[j].id # m.id
          /\ \A a \in answers : a.rep.id # m.id
      <4>1. ASSUME NEW i \in Replied' PROVE serial'[i].id # m.id
        <5>1. i + 1 # 1 /\ i + 1 \in Replied /\ serial'[i] = serial[i + 1]
          BY <2>3
        <5>2. QED
          BY <2>2, <3>1, <5>1 DEF OneReply
      <4>2. QED
        BY <2>2, <3>1, <4>1 DEF OneReply
    <3>5. ASSUME NEW i \in DOMAIN QueueGetHandler'
          PROVE  /\ \A j \in Replied' : serial'[j].id # QueueGetHandler'[i].id
                 /\ \A a \in answers' : a.rep.id # QueueGetHandler'[i].id
      <4>1. CASE i = n
        <5>1. QueueGetHandler'[i] = m
          BY <3>3, <4>1
        <5>2. QED
          BY <2>1, <3>4, <5>1
      <4>2. CASE i # n
        <5>1. /\ i + k \in DOMAIN QueueGetHandler
              /\ QueueGetHandler'[i] = QueueGetHandler[i + k]
          BY <3>3, <4>2
        <5>2. \A j \in Replied' : serial'[j].id # QueueGetHandler'[i].id
          BY <2>4, <5>1
        <5>3. \A a \in answers' : a.rep.id # QueueGetHandler'[i].id
          BY <2>1, <5>1 DEF OneReply
        <5>4. QED
          BY <5>2, <5>3
      <4>3. QED
        BY <4>1, <4>2
    <3>6. ASSUME NEW i \in DOMAIN QueueGetHandler', NEW j \in DOMAIN QueueGetHandler',
                 QueueGetHandler'[i].id = QueueGetHandler'[j].id
          PROVE  i = j
      <4>1. CASE i = n \/ j = n
        BY <3>3, <3>4, <3>6, <4>1
      <4>2. CASE i # n /\ j # n
        <5>1. i + k = j + k /\ i \in Nat /\ j \in Nat /\ k \in Nat
          BY <3>3, <3>6, <4>2 DEF OneReply
        <5>2. QED
          BY <5>1
      <4>3. QED
        BY <4>1, <4>2
    <3>7. /\ \A i, j \in Replied' : serial'[i].id = serial'[j].id => i = j
          /\ \A a \in answers' : /\ \A i \in Replied' : a.rep.id # serial'[i].id
                                 /\ \A b \in answers' : a # b => a.rep.id # b.rep.id
      BY <2>1, <2>4 DEF OneReply
    <3>8. QED
      BY <3>5, <3>6, <3>7 DEF OneReply
  <2>7. QED
    BY <2>5, <2>6
<1>2. ASSUME NEW h \in Handler, GetPoll(h) PROVE OneReply'
  <2> DEFINE m == Head(QueueGetHandler)
             a == [req |-> get[h], rep |-> m]
  <2>1. UNCHANGED serial /\ Replied' = Replied
    BY <1>2 DEF GetPoll, zigbee, Replied
  <2>2. CASE UNCHANGED <<QueueGetHandler, answers>>
    BY <2>1, <2>2 DEF OneReply
  <2>3. CASE /\ QueueGetHandler # <<>> /\ QueueGetHandler' = Tail(QueueGetHandler)
             /\ answers' = answers \cup {a}
    <3>1. /\ m = QueueGetHandler[1] /\ 1 \in DOMAIN QueueGetHandler
          /\ \A i \in DOMAIN QueueGetHandler' :
               /\ i \in Nat \ {0} /\ i + 1 \in DOMAIN QueueGetHandler
               /\ QueueGetHandler'[i] = QueueGetHandler[i + 1]
      BY <1>0, <2>3, TailFacts
    <3>2. a.rep = m
      OBVIOUS
    <3> HIDE DEF m, a
    <3>3. /\ \A i \in Replied : a.rep.id # serial[i].id
          /\ \A b \in answers : a.rep.id # b.rep.id
      BY <3>1, <3>2 DEF OneReply
    <3>4. ASSUME NEW i \in DOMAIN QueueGetHandler'
          PROVE  /\ a.rep.id # QueueGetHandler'[i].id
                 /\ \A j \in Replied : serial[j].id # QueueGetHandler'[i].id
                 /\ \A b \in answers : b.rep.id # QueueGetHandler'[i].id
      <4>1. i + 1 # 1 /\ i + 1 \in DOMAIN QueueGetHandler
        BY <3>1
      <4>2. QED
        BY <3>1, <3>2, <4>1 DEF OneReply
    <3>5. ASSUME NEW i \in DOMAIN QueueGetHandler', NEW j \in DOMAIN QueueGetHandler',
                 QueueGetHandler'[i].id = QueueGetHandler'[j].id
          PROVE  i = j
      <4>1. i + 1 = j + 1
        BY <3>1, <3>5 DEF OneReply
      <4>2. QED
        BY <3>1, <4>1
    <3>6. QED
      BY <2>1, <2>3, <3>3, <3>4, <3>5 DEF OneReply
  <2>4. QED
    BY <1>2, <2>2, <2>3 DEF GetPoll
<1>3. ASSUME UNCHANGED <<QueueGetHandler, answers>>, NEW m \in Line, serial' = Append(serial, m),
             m.cmd = "GET" => \A k \in Replies : k.id # m.id
      PROVE  OneReply'
  <2>1. PICK n : /\ n \notin Replied
                 /\ Replied' = Replied \cup (IF m.cmd = "GET" THEN {n} ELSE {})
                 /\ serial'[n] = m /\ \A i \in Replied : serial'[i] = serial[i]
    BY <1>0, <1>3, SerialAppend
  <2>2. CASE m.cmd # "GET"
    <3>1. Replied' = Replied
      BY <2>1, <2>2
    <3>2. /\ UNCHANGED <<QueueGetHandler, answers>>
          /\ \A i \in Replied : serial'[i] = serial[i]
      BY <1>3, <2>1
    <3>3. QED
      BY <3>1, <3>2 DEF OneReply
  <2>3. CASE m.cmd = "GET"
    <3>1. /\ \A i \in Replied : serial[i].id # m.id
          /\ \A i \in DOMAIN QueueGetHandler : QueueGetHandler[i].id # m.id
          /\ \A a \in answers : a.rep.id # m.id
      BY <1>3, <2>3 DEF Replies, Elements
    <3>2. Replied' = Replied \cup {n}
      BY <2>1, <2>3
    <3>3. ASSUME NEW i \in Replied', NEW j \in Replied', serial'[i].id = serial'[j].id
          PROVE  i = j
      <4>1. CASE i \in Replied /\ j \in Replied
        BY <2>1, <3>3, <4>1 DEF OneReply
      <4>2. QED
        BY <2>1, <3>1, <3>2, <3>3, <4>1
    <3>4. ASSUME NEW i \in Replied'
          PROVE  /\ \A j \in DOMAIN QueueGetHandler : serial'[i].id # QueueGetHandler[j].id
                 /\ \A a \in answers : a.rep.id # serial'[i].id
      <4>1. CASE i \in Replied
        BY <2>1, <4>1 DEF OneReply
      <4>2. QED
        BY <2>1, <3>1, <3>2, <4>1
    <3>5. QED
      BY <1>3, <3>3, <3>4 DEF OneReply
  <2>4. QED
    BY <2>2, <2>3
<1>4. ASSUME NEW d \in Device, DeviceReceive(d) PROVE OneReply'
  <2> DEFINE c == Head(wire[d])
             f == [cmd |-> "DISCOVERY", name |-> c.name, mac |-> MAC[d]]
             g == [cmd |-> "GET", name |-> c.name, id |-> c.id, res |-> c.res]
  <2>1. UNCHANGED <<QueueGetHandler, answers>> /\ wire[d] # <<>>
    BY <1>4 DEF DeviceReceive, queues, seen
  <2>2. c \in Elements(wire[d]) /\ c \in CommandMessage
    BY <2>1, ElementsTail DEF TypeOK, ZigbeeTypes
  <2>3. c.name \in Name /\ (c.cmd = "GET" => g \in Line /\ g.id = c.id) /\ f \in Line
    BY <2>2 DEF Line, CommandMessage, GetMessage, AddMessage, PlainMessage, FoundMessage, MACs
  <2>4. \/ UNCHANGED serial
        \/ serial' = Append(serial, f)
        \/ c.cmd = "GET" /\ c.name = my_name[d] /\ serial' = Append(serial, g)
    BY <1>4 DEF DeviceReceive, Publish
  <2>5. f.cmd # "GET"
    OBVIOUS
  <2>6. ASSUME c.cmd = "GET", c.name = my_name[d], NEW k \in Replies PROVE k.id # g.id
    BY <2>2, <2>3, <2>6 DEF ReplyInv
  <2> HIDE DEF c, f, g
  <2>7. CASE UNCHANGED serial
    BY <2>1, <2>7 DEF OneReply, Replied
  <2>8. QED
    BY <1>3, <2>1, <2>3, <2>4, <2>5, <2>6, <2>7
<1>5. ASSUME NEW d \in Device, DevicePush(d) PROVE OneReply'
  <2> DEFINE m == [cmd |-> "PUSH", name |-> my_name[d], id |-> pushes + 1, dev |-> d]
  <2>1. UNCHANGED <<QueueGetHandler, answers>> /\ (UNCHANGED serial \/ serial' = Append(serial, m))
    BY <1>5 DEF DevicePush, Publish, queues, seen
  <2>2. m \in Line /\ m.cmd # "GET"
    BY DEF Line, PushMessage, TypeOK, ZigbeeTypes
  <2> HIDE DEF m
  <2>3. CASE UNCHANGED serial
    BY <2>1, <2>3 DEF OneReply, Replied
  <2>4. QED
    BY <1>3, <2>1, <2>2, <2>3
<1>6. CASE UNCHANGED <<serial, QueueGetHandler, answers>>
  BY <1>6 DEF OneReply, Replied
<1>7. QED
  BY <1>1, <1>2, <1>4, <1>5, <1>6, ReplySteps DEF TXWrite, Lost, queues, seen

----------------------------------------------------------------------------
(* The GETs                                                                *)

LEMMA SendElements ==
  ASSUME TypeOK, NEW c, NEW m \in CommandMessage, m = [c EXCEPT !.id = lastId + 1], Send(c)
  PROVE  Elements(QueueTX') \subseteq Elements(QueueTX) \cup {m}
<1>1. QueueTX \in Seq(CommandMessage)
  BY DEF TypeOK, QueueTypes
<1>2. QueueTX' = Enqueue(QueueTX, m, Cap)
  BY DEF Send
<1>3. QED
  BY <1>1, <1>2, ElementsEnqueue

LEMMA GetSendCommand ==
  ASSUME TypeOK, NEW h \in Handler, NEW n \in known, NEW r \in Res, GetSend(h, n, r)
  PROVE  \E m : /\ m.cmd = "GET" /\ m.name = n /\ m.id = lastId + 1
                /\ Elements(QueueTX') \subseteq Elements(QueueTX) \cup {m}
<1> DEFINE c == [cmd |-> "GET", name |-> n, id |-> 0, res |-> r]
           m == [c EXCEPT !.id = lastId + 1]
<1>1. n \in Name /\ lastId + 1 \in Nat
  BY DEF TypeOK, ServiceTypes, HistoryTypes
<1>2. m \in CommandMessage /\ m.id = lastId + 1
  BY <1>1, CommandTypes, CommandIds
<1>3. m.cmd = "GET" /\ m.name = n
  OBVIOUS
<1>4. Send(c)
  BY DEF GetSend
<1> HIDE DEF m, c
<1>5. Elements(QueueTX') \subseteq Elements(QueueTX) \cup {m}
  BY <1>2, <1>4, SendElements DEF m
<1>6. QED
  BY <1>2, <1>3, <1>5

LEMMA PlainCommand ==
  ASSUME TypeOK, NEW cmd \in {"PUT", "DISCOVERY"}, NEW n \in Name, Send(Command(cmd, n))
  PROVE  \A c \in Elements(QueueTX') : c \in Elements(QueueTX) \/ c.cmd \in {"PUT", "DISCOVERY"}
<1> DEFINE m == [Command(cmd, n) EXCEPT !.id = lastId + 1]
<1>1. lastId + 1 \in Nat
  BY DEF TypeOK, HistoryTypes
<1>2. m \in CommandMessage
  BY <1>1, CommandTypes
<1>3. m.cmd \in {"PUT", "DISCOVERY"}
  BY DEF Command
<1> HIDE DEF m
<1>4. Elements(QueueTX') \subseteq Elements(QueueTX) \cup {m}
  BY <1>2, SendElements DEF m
<1>5. QED
  BY <1>3, <1>4

LEMMA TellCommand ==
  ASSUME TypeOK, NEW x \in Discoverer, DiscoverTell(x)
  PROVE  \A c \in Elements(QueueTX') : c \in Elements(QueueTX) \/ c.cmd = "ADD"
<1> DEFINE c == [cmd |-> "ADD", name |-> disc[x].rep.name, id |-> 0, mac |-> disc[x].rep.mac]
           m == [c EXCEPT !.id = lastId + 1]
<1>1. lastId + 1 \in Nat /\ disc[x].rep \in FoundMessage
  BY DEF TypeOK, HistoryTypes, ServiceTypes, DiscoverTell, At
<1>2. m \in CommandMessage
  BY <1>1, CommandTypes DEF FoundMessage
<1>3. m.cmd = "ADD" /\ Send(c)
  BY DEF DiscoverTell
<1> HIDE DEF m, c
<1>4. Elements(QueueTX') \subseteq Elements(QueueTX) \cup {m}
  BY <1>2, <1>3, SendElements DEF m
<1>5. QED
  BY <1>3, <1>4

(* Where new commands come from.                                           *)
LEMMA CommandsKept ==
  ASSUME TypeOK, [Next]_vars, NEW c \in Commands', c \notin Commands
  PROVE  \/ \E h \in Handler, n \in known, r \in Res :
              GetSend(h, n, r) /\ c.cmd = "GET" /\ c.name = n /\ c.id = lastId + 1
         \/ c.cmd \in {"PUT", "DISCOVERY"}
         \/ c.cmd = "ADD" /\ \E x \in Discoverer : DiscoverTell(x)
<1> USE DEF service, threads, queues, zigbee, sent, seen
<1>0. /\ QueueTX \in Seq(CommandMessage) /\ wire \in [Device -> Seq(CommandMessage)]
      /\ txbuf # NULL => txbuf \in CommandMessage
      /\ known \subseteq Name /\ NewDevice \in Name
  BY DriverAssumptions DEF TypeOK, QueueTypes, ZigbeeTypes, ServiceTypes
<1>1. /\ c \notin Elements(QueueTX)
      /\ txbuf # NULL => c # txbuf
      /\ \A d \in Device : c \notin Elements(wire[d])
  BY DEF Commands
<1>2. ASSUME NEW d \in Device, c \in Elements(wire'[d]) PROVE FALSE
  <2>1. CASE TXWrite
    BY <1>0, <1>1, <1>2, <2>1, ElementsAppend DEF TXWrite
  <2>2. ASSUME NEW e \in Device, wire[e] # <<>>, wire' = [wire EXCEPT ![e] = Tail(@)]
        PROVE  FALSE
    BY <1>0, <1>1, <1>2, <2>2, ElementsTail
  <2>3. QED
    BY <1>1, <1>2, <2>1, <2>2, WireSteps
<1>3. \/ c \in Elements(QueueTX')
      \/ c = txbuf' /\ txbuf' # NULL
  BY <1>2 DEF Commands
<1>4. CASE TXDeQueue
  <2>1. QueueTX # <<>> /\ QueueTX' = Tail(QueueTX) /\ txbuf' = Head(QueueTX)
    BY <1>4 DEF TXDeQueue
  <2>2. QED
    BY <1>0, <1>1, <1>3, <2>1, ElementsTail
<1>5. CASE \/ \E h \in Handler, n \in known : Put(h, n)
           \/ \E x \in Discoverer : DiscoverSend(x)
  <2>1. txbuf' = txbuf /\ \E cmd \in {"PUT", "DISCOVERY"}, n \in Name : Send(Command(cmd, n))
    BY <1>0, <1>5 DEF Put, DiscoverSend
  <2>2. QED
    BY <1>1, <1>3, <2>1, PlainCommand
<1>6. ASSUME NEW x \in Discoverer, DiscoverTell(x) PROVE c.cmd = "ADD"
  <2>1. txbuf' = txbuf
    BY <1>6 DEF DiscoverTell
  <2>2. QED
    BY <1>1, <1>3, <1>6, <2>1, TellCommand
<1>7. ASSUME NEW h \in Handler, NEW n \in known, NEW r \in Res, GetSend(h, n, r)
      PROVE  c.cmd = "GET" /\ c.name = n /\ c.id = lastId + 1
  <2>1. txbuf' = txbuf
    BY <1>7 DEF GetSend
  <2>2. QED
    BY <1>1, <1>3, <1>7, <2>1, GetSendCommand
<1>8. CASE QueueTX' = QueueTX /\ (txbuf' = txbuf \/ txbuf' = NULL)
  BY <1>1, <1>3, <1>8
<1>9. CASE \/ RX \/ TXWrite \/ PushDeQueue \/ PushPost
           \/ \E h \in Handler : GetStep(h)
           \/ \E r \in Requester : DiscoveryTryLock(r) \/ DiscoverySubmit(r)
           \/ \E x \in Worker : DoDiscovery(x)
           \/ \E x \in SigInt : IntHandler(x)
  BY <1>8, <1>9 DEF RX, TXWrite, PushDeQueue, PushPost, GetStep, GetPoll, GetTimeout,
                    DiscoveryTryLock, DiscoverySubmit, DoDiscovery, IntHandler
<1>10. CASE \/ \E x \in Discoverer : DiscoverCollect(x) \/ DiscoverAdd(x) \/ DiscoverEnd(x)
            \/ \E n \in Name : MetadataCallback(n)
            \/ \E d \in Device : DeviceReceive(d) \/ Lost(d) \/ DevicePush(d)
            \/ UNCHANGED vars
  BY <1>8, <1>10 DEF DiscoverCollect, DiscoverAdd, DiscoverEnd, MetadataCallback,
                     DeviceReceive, Lost, DevicePush, vars
<1>11. QED
  BY <1>4, <1>5, <1>6, <1>7, <1>9, <1>10 DEF Next, Driver, Discover

(* The SDK never calls the driver with the name of a device that was not   *)
(* added, since metadata never registers it.                               *)
LEMMA GetNamesNext == TypeOK /\ GetNames /\ [Next]_vars => GetNames'
<1> SUFFICES ASSUME TypeOK, GetNames, [Next]_vars PROVE GetNames'
  OBVIOUS
<1>1. known \subseteq meta /\ Addr # NewDevice
  BY DriverAssumptions DEF TypeOK, ServiceTypes
<1>2. \A c \in Commands' : c.cmd = "GET" => c.name # NewDevice
  BY <1>1, CommandsKept DEF GetNames
<1>3. NewDevice \notin meta'
  <2> USE <1>1 DEF GetNames, service, threads, queues, zigbee, sent, seen
  <2>1. CASE \/ Driver
             \/ \E h \in Handler, n \in known, r \in Res : GetSend(h, n, r)
             \/ \E h \in Handler, n \in known : Put(h, n)
             \/ \E h \in Handler : GetStep(h)
    BY <2>1 DEF Driver, RX, TXDeQueue, TXWrite, PushDeQueue, PushPost, GetSend, Put,
                GetStep, GetPoll, GetTimeout
  <2>2. CASE \/ \E r \in Requester : DiscoveryTryLock(r) \/ DiscoverySubmit(r)
             \/ \E x \in Worker : DoDiscovery(x)
             \/ \E x \in SigInt : IntHandler(x)
             \/ \E x \in Discoverer : Discover(x)
    BY <2>2 DEF DiscoveryTryLock, DiscoverySubmit, DoDiscovery, IntHandler, Discover,
                DiscoverSend, DiscoverCollect, DiscoverAdd, DiscoverTell, DiscoverEnd
  <2>3. CASE \/ \E n \in Name : MetadataCallback(n)
             \/ \E d \in Device : DeviceReceive(d) \/ Lost(d) \/ DevicePush(d)
             \/ UNCHANGED vars
    BY <2>3 DEF MetadataCallback, DeviceReceive, Lost, DevicePush, vars
  <2>4. QED
    BY <2>1, <2>2, <2>3 DEF Next
<1>4. QED
  BY <1>2, <1>3 DEF GetNames

LEMMA GetSteps ==
  ASSUME TypeOK, [Next]_vars
  PROVE  \/ \E h \in Handler, n \in known, r \in Res : GetSend(h, n, r)
         \/ \E h \in Handler : GetStep(h)
         \/ UNCHANGED <<get, answers, mixed>>
<1> USE DEF service, threads, queues, zigbee, sent, seen
<1>1. CASE \/ Driver
           \/ \E h \in Handler, n \in known : Put(h, n)
  BY <1>1 DEF Driver, RX, TXDeQueue, TXWrite, PushDeQueue, PushPost, Put
<1>2. CASE \/ \E r \in Requester : DiscoveryTryLock(r) \/ DiscoverySubmit(r)
           \/ \E x \in Worker : DoDiscovery(x)
           \/ \E x \in SigInt : IntHandler(x)
           \/ \E x \in Discoverer : Discover(x)
  BY <1>2 DEF DiscoveryTryLock, DiscoverySubmit, DoDiscovery, IntHandler, Discover,
              DiscoverSend, DiscoverCollect, DiscoverAdd, DiscoverTell, DiscoverEnd
<1>3. CASE \/ \E n \in Name : MetadataCallback(n)
           \/ \E d \in Device : DeviceReceive(d) \/ Lost(d) \/ DevicePush(d)
           \/ UNCHANGED vars
  BY <1>3 DEF MetadataCallback, DeviceReceive, Lost, DevicePush, vars
<1>4. QED
  BY <1>1, <1>2, <1>3 DEF Next

(* A message under way for a GET has an element of Gets of the same id and *)
(* name before the step, unless GetSend has just made it.                  *)
LEMMA GetsKept ==
  ASSUME TypeOK, [Next]_vars, NEW m \in Gets'
  PROVE  \/ \E c \in Gets : c.id = m.id /\ c.name = m.name
         \/ \E h \in Handler, n \in known, r \in Res :
              GetSend(h, n, r) /\ m.name = n /\ m.id = lastId + 1
<1>1. CASE m \in Replies'
  <2>1. CASE Replies' \subseteq Replies
    BY <1>1, <2>1 DEF Gets
  <2>2. ASSUME NEW d \in Device, Answers(d)
        PROVE  \E c \in Gets : c.id = m.id /\ c.name = m.name
    <3> DEFINE c == Head(wire[d])
               k == [cmd |-> "GET", name |-> c.name, id |-> c.id, res |-> c.res]
    <3>1. /\ wire[d] # <<>> /\ c.cmd = "GET" /\ k.id = c.id /\ k.name = c.name
          /\ Replies' = Replies \cup {k}
      BY <2>2 DEF Answers
    <3>2. c \in Elements(wire[d])
      BY <3>1, ElementsTail DEF TypeOK, ZigbeeTypes
    <3>3. c \in Gets
      BY <3>1, <3>2 DEF Gets, Commands
    <3> HIDE DEF k, c
    <3>4. m \in Replies \/ m = k
      BY <1>1, <3>1
    <3>5. QED
      BY <3>1, <3>3, <3>4 DEF Gets
  <2>3. QED
    BY <2>1, <2>2, RepliesKept
<1>2. CASE m \in Commands' /\ m.cmd = "GET"
  BY <1>2, CommandsKept DEF Gets
<1>3. QED
  BY <1>1, <1>2 DEF Gets

(* The reply that a handler takes is its own.                              *)
LEMMA OwnReply ==
  ASSUME TypeOK, OneReply, GetInv, NEW h \in Handler, get[h] # NULL,
         QueueGetHandler # <<>>, Head(QueueGetHandler).name = get[h].name
  PROVE  Head(QueueGetHandler).id = get[h].id
<1> DEFINE m == Head(QueueGetHandler)
<1>1. m = QueueGetHandler[1] /\ 1 \in DOMAIN QueueGetHandler
  BY TailFacts DEF TypeOK, QueueTypes
<1> HIDE DEF m
<1>2. m \in Gets
  BY <1>1 DEF Gets, Replies, Elements
<1>3. \A a \in answers : a.rep.id # m.id
  BY <1>1 DEF OneReply
<1>4. PICK k \in Serving : get[k].id = m.id /\ get[k].name = m.name
  BY <1>2, <1>3 DEF GetInv
<1>5. h \in Serving /\ m.name = get[h].name
  BY DEF Serving, m
<1>6. k = h
  BY <1>4, <1>5 DEF GetInv
<1>7. QED
  BY <1>4, <1>6 DEF m

LEMMA GetNext ==
  ASSUME TypeOK, OneReply, ~mixed => GetInv, [Next]_vars, ~mixed'
  PROVE  GetInv'
<1>0. get \in [Handler -> GetCall \cup {NULL}] /\ NULL \notin GetCall
  BY DriverAssumptions DEF TypeOK, ServiceTypes
<1>1. ASSUME NEW h \in Handler, NEW n \in known, NEW r \in Res, GetSend(h, n, r)
      PROVE  GetInv'
  <2> DEFINE g == [name |-> n, res |-> r, id |-> lastId + 1, count |-> MaxPolls]
  <2>1. /\ get[h] = NULL /\ get' = [get EXCEPT ![h] = g] /\ UNCHANGED answers
        /\ ~mixed /\ \A k \in Handler : get[k] # NULL => get[k].name # n
    BY <1>1 DEF GetSend
  <2>2. g \in GetCall /\ g.name = n /\ g.id = lastId + 1
    BY DriverAssumptions DEF GetCall, TypeOK, ServiceTypes, HistoryTypes
  <2> HIDE DEF g
  <2>3. /\ Serving' = Serving \cup {h} /\ h \notin Serving /\ get'[h] = g
        /\ \A k \in Serving : get'[k] = get[k] /\ get[k].name # n
    BY <1>0, <2>1, <2>2 DEF Serving
  <2>4. GetInv
    BY <2>1
  <2>5. ASSUME NEW i \in Serving', NEW k \in Serving', get'[i].name = get'[k].name PROVE i = k
    BY <2>2, <2>3, <2>4, <2>5 DEF GetInv
  <2>6. ASSUME NEW m \in Gets'
        PROVE  \/ \E i \in Serving' : get'[i].id = m.id /\ get'[i].name = m.name
               \/ \E a \in answers' : a.rep.id = m.id
    <3>1. ASSUME NEW c \in Gets, c.id = m.id, c.name = m.name
          PROVE  \/ \E i \in Serving' : get'[i].id = m.id /\ get'[i].name = m.name
                 \/ \E a \in answers' : a.rep.id = m.id
      <4>1. \/ \E i \in Serving : get[i].id = c.id /\ get[i].name = c.name
            \/ \E a \in answers : a.rep.id = c.id
        BY <2>4 DEF GetInv
      <4>2. QED
        BY <2>1, <2>3, <3>1, <4>1
    <3>2. ASSUME NEW j \in Handler, NEW o \in known, NEW s \in Res,
                 GetSend(j, o, s), m.name = o, m.id = lastId + 1
          PROVE  \E i \in Serving' : get'[i].id = m.id /\ get'[i].name = m.name
      <4>1. /\ get'[j].name = o /\ get'[j].id = lastId + 1 /\ get'[j] # NULL
        BY <1>0, <2>1, <2>2, <3>2 DEF GetSend, GetCall
      <4>2. QED
        BY <3>2, <4>1 DEF Serving
    <3>3. QED
      BY <3>1, <3>2, GetsKept
  <2>7. QED
    BY <2>5, <2>6 DEF GetInv
<1>2. ASSUME ~(\E h \in Handler, n \in known, r \in Res : GetSend(h, n, r)), GetInv
      PROVE  \A m \in Gets' : \/ \E h \in Serving : get[h].id = m.id /\ get[h].name = m.name
                              \/ \E a \in answers : a.rep.id = m.id
  <2> SUFFICES ASSUME NEW m \in Gets'
               PROVE  \/ \E h \in Serving : get[h].id = m.id /\ get[h].name = m.name
                      \/ \E a \in answers : a.rep.id = m.id
    OBVIOUS
  <2>1. PICK c \in Gets : c.id = m.id /\ c.name = m.name
    BY <1>2, GetsKept
  <2>2. \/ \E h \in Serving : get[h].id = c.id /\ get[h].name = c.name
        \/ \E a \in answers : a.rep.id = c.id
    BY <1>2 DEF GetInv
  <2>3. QED
    BY <2>1, <2>2
<1>3. ASSUME NEW h \in Handler, GetPoll(h) PROVE GetInv'
  <2> DEFINE a == [req |-> get[h], rep |-> Head(QueueGetHandler)]
  <2>1. /\ get[h] # NULL /\ get[h] \in GetCall /\ h \in Serving /\ ~mixed /\ GetInv
    BY <1>0, <1>3 DEF GetPoll, Serving
  <2>2. ~(\E k \in Handler, n \in known, r \in Res : GetSend(k, n, r))
    <3>1. ASSUME NEW k \in Handler, NEW n \in known, NEW r \in Res, GetSend(k, n, r)
          PROVE  FALSE
      <4>1. lastId' = lastId + 1
        BY <3>1 DEF GetSend, Send
      <4>2. lastId' = lastId
        BY <1>3 DEF GetPoll, sent
      <4>3. QED
        BY <4>1, <4>2 DEF TypeOK, HistoryTypes
    <3>2. QED
      BY <3>1
  <2>3. CASE /\ QueueGetHandler # <<>> /\ user_repget_event_read(get[h], Head(QueueGetHandler))
             /\ answers' = answers \cup {a} /\ get' = [get EXCEPT ![h] = NULL]
    <3>1. a.rep.id = get[h].id
      BY <2>1, <2>3, OwnReply DEF user_repget_event_read
    <3> HIDE DEF a
    <3>2. Serving' = Serving \ {h} /\ \A k \in Serving' : get'[k] = get[k]
      BY <1>0, <2>3 DEF Serving
    <3>3. ASSUME NEW m \in Gets'
          PROVE  \/ \E k \in Serving' : get'[k].id = m.id /\ get'[k].name = m.name
                 \/ \E b \in answers' : b.rep.id = m.id
      <4>1. \/ \E k \in Serving : get[k].id = m.id /\ get[k].name = m.name
            \/ \E b \in answers : b.rep.id = m.id
        BY <1>2, <2>1, <2>2
      <4>2. ASSUME NEW k \in Serving, get[k].id = m.id, get[k].name = m.name
            PROVE  \/ \E i \in Serving' : get'[i].id = m.id /\ get'[i].name = m.name
                   \/ \E b \in answers' : b.rep.id = m.id
        <5>1. CASE k = h
          BY <2>3, <3>1, <4>2, <5>1
        <5>2. CASE k # h
          BY <3>2, <4>2, <5>2
        <5>3. QED
          BY <5>1, <5>2
      <4>3. QED
        BY <2>3, <4>1, <4>2
    <3>4. QED
      BY <2>1, <3>2, <3>3 DEF GetInv
  <2>4. CASE UNCHANGED answers /\ get' = [get EXCEPT ![h].count = @ - 1]
    <3>1. /\ get'[h].id = get[h].id /\ get'[h].name = get[h].name /\ get'[h] # NULL
          /\ \A k \in Handler : k # h => get'[k] = get[k]
      <4>1. [get[h] EXCEPT !.count = get[h].count - 1] \in GetCall
        <5>1. get[h].count \in 0..MaxPolls /\ get[h].count > 0 /\ MaxPolls \in Nat
          BY <1>3, <2>1, DriverAssumptions DEF GetPoll, GetCall
        <5>2. get[h].count - 1 \in 0..MaxPolls
          BY <5>1
        <5>3. QED
          BY <2>1, <5>2 DEF GetCall
      <4>2. /\ get'[h] = [get[h] EXCEPT !.count = get[h].count - 1]
            /\ \A k \in Handler : k # h => get'[k] = get[k]
        BY <1>0, <2>4
      <4>3. /\ get'[h].id = get[h].id /\ get'[h].name = get[h].name
        BY <2>1, <4>2 DEF GetCall
      <4>4. QED
        BY <1>0, <4>1, <4>2, <4>3
    <3>2. /\ Serving' = Serving
          /\ \A k \in Serving : get'[k].id = get[k].id /\ get'[k].name = get[k].name
      BY <2>1, <3>1 DEF Serving
    <3>3. \A m \in Gets' : \/ \E k \in Serving : get[k].id = m.id /\ get[k].name = m.name
                           \/ \E b \in answers : b.rep.id = m.id
      BY <1>2, <2>1, <2>2
    <3>4. QED
      BY <2>1, <2>4, <3>2, <3>3 DEF GetInv
  <2>5. QED
    BY <1>3, <2>3, <2>4 DEF GetPoll
<1>4. CASE UNCHANGED <<get, answers, mixed>>
  <2>1. GetInv /\ Serving' = Serving
    BY <1>4 DEF Serving
  <2>2. ~(\E k \in Handler, n \in known, r \in Res : GetSend(k, n, r))
    <3>1. ASSUME NEW k \in Handler, NEW n \in known, NEW r \in Res, GetSend(k, n, r)
          PROVE  FALSE
      <4>1. get[k] = NULL /\ get'[k].name = n /\ get'[k] \in GetCall
        BY <1>0, <3>1, DriverAssumptions DEF GetSend, GetCall, TypeOK, ServiceTypes, HistoryTypes
      <4>2. QED
        BY <1>0, <1>4, <4>1
    <3>2. QED
      BY <3>1
  <2>3. QED
    BY <1>2, <1>4, <2>1, <2>2 DEF GetInv
<1>5. QED
  BY <1>1, <1>3, <1>4, GetSteps DEF GetStep, GetTimeout

LEMMA SoundNext ==
  ASSUME TypeOK, OneReply, OneReply', ~mixed => GetInv, AnswersSound, [Next]_vars
  PROVE  AnswersSound'
<1>1. \A a, b \in answers' : a # b => a.rep.id # b.rep.id
  BY DEF OneReply
<1>2. ASSUME NEW h \in Handler, NEW n \in known, NEW r \in Res, GetSend(h, n, r)
      PROVE  AnswersSound'
  BY <1>1, <1>2 DEF GetSend, AnswersSound
<1>3. ASSUME NEW h \in Handler, GetPoll(h) PROVE AnswersSound'
  <2> DEFINE a == [req |-> get[h], rep |-> Head(QueueGetHandler)]
  <2>1. UNCHANGED mixed /\ get[h] # NULL
    BY <1>3 DEF GetPoll
  <2>2. CASE UNCHANGED answers
    BY <2>1, <2>2 DEF AnswersSound
  <2>3. CASE /\ QueueGetHandler # <<>> /\ user_repget_event_read(get[h], Head(QueueGetHandler))
             /\ answers' = answers \cup {a}
    <3>1. a.rep.name = a.req.name
      BY <2>3 DEF user_repget_event_read
    <3>2. ~mixed => a.rep.id = a.req.id
      BY <2>1, <2>3, OwnReply DEF user_repget_event_read
    <3> HIDE DEF a
    <3>3. QED
      BY <1>1, <2>1, <2>3, <3>1, <3>2 DEF AnswersSound
  <2>4. QED
    BY <1>3, <2>2, <2>3 DEF GetPoll
<1>4. ASSUME NEW h \in Handler, GetTimeout(h) PROVE AnswersSound'
  BY <1>1, <1>4 DEF GetTimeout, AnswersSound
<1>5. CASE UNCHANGED <<get, answers, mixed>>
  BY <1>5 DEF AnswersSound
<1>6. QED
  BY <1>2, <1>3, <1>4, <1>5, GetSteps DEF GetStep

----------------------------------------------------------------------------
(* The result                                                              *)

LEMMA InitAnswers == Init => AnswerInv
<1> SUFFICES ASSUME Init PROVE AnswerInv
  OBVIOUS
<1>1. \A d \in Device : Elements(wire[d]) = {} /\ DOMAIN wire[d] = {}
  BY DEF Init, Elements
<1>2. /\ Elements(QueueTX) = {} /\ Elements(QueueGetHandler) = {}
      /\ DOMAIN QueueGetHandler = {} /\ Replied = {} /\ answers = {}
  BY DEF Init, Elements, Replied
<1>3. Commands = {} /\ Replies = {} /\ Gets = {} /\ Serving = {}
  BY <1>1, <1>2 DEF Init, Commands, Replies, Gets, Serving
<1>4. WireInv
  BY <1>1 DEF WireInv
<1>5. GetNames
  BY <1>3 DEF Init, GetNames
<1>6. ReplyInv /\ OneReply /\ GetInv /\ AnswersSound
  BY <1>2, <1>3 DEF ReplyInv, OneReply, GetInv, AnswersSound
<1>7. QED
  BY <1>4, <1>5, <1>6 DEF AnswerInv

(* As long as no two devices were given one name, a reply serves one GET,  *)
(* a GET that returns true has a reply of the device it asked, and, until  *)
(* a GET times out or two for one device overlap, the reply to its own     *)
(* command (device-random.c 247-284), whatever is lost on the way, however *)
(* many handlers wait and whatever a full queue discards.                  *)
THEOREM AnswersCorrect == SafetySpec /\ []NamesApart => []AnswersSound
<1>1. /\ DriverInv /\ AnswerInv /\ NamesApart /\ NamesApart' /\ [Next]_vars
      => AnswerInv'
  <2> SUFFICES ASSUME DriverInv, AnswerInv, NamesApart, NamesApart', [Next]_vars
               PROVE  AnswerInv'
    OBVIOUS
  <2>1. TypeOK /\ CommandOrder
    BY DEF DriverInv
  <2>2. /\ WireInv /\ GetNames /\ ReplyInv /\ OneReply /\ AnswersSound
        /\ ~mixed => GetInv
    BY DEF AnswerInv
  <2>3. WireInv' /\ GetNames'
    BY <2>1, <2>2, WireNext, GetNamesNext
  <2>4. ReplyInv'
    BY <2>1, <2>2, ReplyNext
  <2>5. OneReply'
    BY <2>1, <2>2, OneReplyNext
  <2>6. ~mixed' => GetInv'
    BY <2>1, <2>2, GetNext
  <2>7. AnswersSound'
    BY <2>1, <2>2, <2>5, SoundNext
  <2>8. QED
    BY <2>3, <2>4, <2>5, <2>6, <2>7 DEF AnswerInv
<1>2. AnswerInv => AnswersSound
  BY DEF AnswerInv
<1>3. QED
  BY InitAnswers, DriverInvariant, <1>1, <1>2, PTL DEF SafetySpec

(* Without a discovery no command ADD is ever sent, and the devices keep   *)
(* the names that they were added under.                                   *)
QuietInv ==
  /\ jobs = 0 /\ \A x \in Discoverer : disc[x] = NULL
  /\ \A c \in Commands : c.cmd # "ADD"
  /\ my_name = InitName

LEMMA QuietNext ==
  ASSUME Requester = {}, SigInt = {}, TypeOK, QuietInv, [Next]_vars
  PROVE  QuietInv'
<1>1. ASSUME NEW c \in Commands' PROVE c.cmd # "ADD"
  BY CommandsKept DEF QuietInv, DiscoverTell, At
<1>2. my_name' = my_name
  <2>1. ASSUME NEW d \in Device, DeviceReceive(d) PROVE my_name' = my_name
    <3>1. Head(wire[d]) \in Elements(wire[d])
      BY <2>1, ElementsTail DEF DeviceReceive, TypeOK, ZigbeeTypes
    <3>2. Head(wire[d]).cmd # "ADD"
      BY <3>1 DEF QuietInv, Commands
    <3>3. QED
      BY <2>1, <3>2 DEF DeviceReceive
  <2>2. QED
    BY <2>1, ReplySteps DEF RX, TXWrite, GetPoll, Lost, DevicePush, zigbee
<1>3. UNCHANGED <<jobs, disc>>
  <2> USE DEF service, threads, queues, zigbee, sent, seen
  <2>1. CASE \/ Driver
             \/ \E h \in Handler, n \in known, r \in Res : GetSend(h, n, r)
             \/ \E h \in Handler, n \in known : Put(h, n)
             \/ \E h \in Handler : GetStep(h)
    BY <2>1 DEF Driver, RX, TXDeQueue, TXWrite, PushDeQueue, PushPost, GetSend, Put,
                GetStep, GetPoll, GetTimeout
  <2>2. CASE \/ \E r \in Requester : DiscoveryTryLock(r) \/ DiscoverySubmit(r)
             \/ \E x \in Worker : DoDiscovery(x)
             \/ \E x \in SigInt : IntHandler(x)
             \/ \E x \in Discoverer : Discover(x)
    <3>1. ASSUME NEW x \in Worker, DoDiscovery(x) PROVE FALSE
      BY <3>1 DEF QuietInv, DoDiscovery
    <3>2. ASSUME NEW x \in Discoverer, Discover(x) PROVE FALSE
      BY <3>2 DEF QuietInv, Discover, At, DiscoverSend, DiscoverCollect, DiscoverAdd,
                  DiscoverTell, DiscoverEnd
    <3>3. QED
      BY <2>2, <3>1, <3>2
  <2>3. CASE \/ \E n \in Name : MetadataCallback(n)
             \/ \E d \in Device : DeviceReceive(d) \/ Lost(d) \/ DevicePush(d)
             \/ UNCHANGED vars
    BY <2>3 DEF MetadataCallback, DeviceReceive, Lost, DevicePush, vars
  <2>4. QED
    BY <2>1, <2>2, <2>3 DEF Next
<1>4. QED
  BY <1>1, <1>2, <1>3 DEF QuietInv

(* The same without the condition on names, for a service that nobody asks *)
(* for a discovery and whose devices were added under names of their own.  *)
THEOREM AnswersWithoutDiscovery ==
  ASSUME Requester = {}, SigInt = {},
         \A d, e \in Device : InitName[d] = InitName[e] /\ InitName[d] # NewDevice => d = e
  PROVE  SafetySpec => []AnswersSound
<1>1. Init => QuietInv
  <2>1. ASSUME Init PROVE Commands = {}
    BY <2>1 DEF Init, Commands, Elements
  <2>2. QED
    BY <2>1 DEF Init, QuietInv
<1>2. DriverInv /\ QuietInv /\ [Next]_vars => QuietInv'
  BY QuietNext DEF DriverInv
<1>3. QuietInv => NamesApart
  BY DEF QuietInv, NamesApart
<1>4. QED
  BY <1>1, <1>2, <1>3, DriverInvariant, AnswersCorrect, PTL DEF SafetySpec

=============================================================================
