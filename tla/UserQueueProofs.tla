-------------------------- MODULE UserQueueProofs --------------------------
(***************************************************************************)
(* Proofs about UserQueue, for any number of threads, nodes and strings    *)
(* and every capacity a uint16_t can hold except 0.                        *)
(***************************************************************************)
EXTENDS UserQueue, SequenceTheorems, TLAPS

(* The inductive invariant: the list is intact and its memory accounted    *)
(* for, and what the thread inside a queue function relies on holds.       *)
IInv == /\ TypeOK
        /\ ListIntact
        /\ NoLeakNoDangling
        /\ CapRespected
        /\ LocalsValid

----------------------------------------------------------------------------
(* Within its range a uint16_t computes without wrapping.                  *)
LEMMA UInt16Exact ==
  /\ UINT16 \in Nat /\ 0 \in 0..(UINT16 - 1)
  /\ \A n \in 0..(UINT16 - 1) : uint16(n) = n
BY DEF UINT16, uint16

----------------------------------------------------------------------------
(* The two operations on the list.                                         *)

(* Unlinking the front of an intact, nonempty list leaves an intact list   *)
(* without that node.                                                      *)
LEMMA UnlinkIntact ==
  ASSUME TypeOK, ListIntact, front # NULL, UnlinkFront, next' = next
  PROVE  /\ ListIntact'
         /\ chain' \in Seq(Node)
         /\ front \in Linked
         /\ Linked' = Linked \ {front}
         /\ Len(chain') = Len(chain) - 1
         /\ size' \in 0..(UINT16 - 1)
         /\ front' \in Node \cup {NULL}
         /\ rear' \in Node \cup {NULL}
<1>1. /\ chain \in Seq(Node)
      /\ chain # <<>>
      /\ chain' = Tail(chain)
      /\ front = chain[1]
  BY DEF TypeOK, ListIntact, UnlinkFront
<1>2. /\ Len(chain) \in Nat \ {0}
      /\ chain' \in Seq(Node)
      /\ Len(chain') = Len(chain) - 1
      /\ \A i \in 1..Len(chain') : chain'[i] = chain[i + 1]
      /\ \A i \in 1..Len(chain) : chain[i] \in Node
  BY <1>1, HeadTailProperties, EmptySeq, LenProperties
<1>3. chain' = <<>> <=> Len(chain) = 1
  BY <1>2, EmptySeq
<1>4. size' = Len(chain')
  BY <1>2, UInt16Exact DEF UnlinkFront, ListIntact, TypeOK
<1>5. front' = IF chain' = <<>> THEN NULL ELSE chain'[1]
  BY <1>1, <1>2, <1>3 DEF UnlinkFront, ListIntact
<1>6. rear' = IF chain' = <<>> THEN NULL ELSE chain'[Len(chain')]
  <2>1. next[front] = NULL <=> Len(chain) = 1
    BY <1>1, <1>2, NullAssumption DEF ListIntact
  <2>2. QED
    BY <1>1, <1>2, <1>3, <2>1 DEF UnlinkFront, ListIntact
<1>7. \A i \in 1..Len(chain') :
        next'[chain'[i]] = IF i = Len(chain') THEN NULL ELSE chain'[i + 1]
  BY <1>2 DEF ListIntact
<1>8. \A i, j \in 1..Len(chain') : chain'[i] = chain'[j] => i = j
  BY <1>2 DEF ListIntact
<1>9. Linked' = Linked \ {front}
  <2>1. ASSUME NEW n \in Linked' PROVE n \in Linked \ {front}
    BY <2>1, <1>1, <1>2 DEF Linked, ListIntact
  <2>2. ASSUME NEW n \in Linked \ {front} PROVE n \in Linked'
    <3>1. PICK i \in 1..Len(chain) : n = chain[i] /\ i # 1
      BY <2>2, <1>1 DEF Linked
    <3>2. i - 1 \in 1..Len(chain') /\ chain'[i - 1] = n
      BY <3>1, <1>2
    <3>3. QED
      BY <3>2 DEF Linked
  <2>3. QED
    BY <2>1, <2>2
<1>10. front \in Linked
  BY <1>1, <1>2 DEF Linked
<1>11. front' \in Node \cup {NULL} /\ rear' \in Node \cup {NULL}
  BY <1>1, <1>2 DEF UnlinkFront, TypeOK
<1>12. size' \in 0..(UINT16 - 1)
  BY <1>4, <1>2, UInt16Exact DEF ListIntact, TypeOK
<1>13. ListIntact'
  BY <1>4, <1>5, <1>6, <1>7, <1>8 DEF ListIntact
<1>14. QED
  BY <1>2, <1>9, <1>10, <1>11, <1>12, <1>13

(* Linking an unlinked node without successor behind the rear of an intact *)
(* list that is not full leaves an intact list with that node at its end.  *)
LEMMA LinkIntact ==
  ASSUME TypeOK, ListIntact, Len(chain) < Cap,
         NEW t \in Thread, enQueueLink(t),
         temp[t] \in Node, temp[t] \notin Linked, next[temp[t]] = NULL
  PROVE  /\ ListIntact'
         /\ chain' \in Seq(Node)
         /\ Linked' = Linked \cup {temp[t]}
         /\ Len(chain') = Len(chain) + 1
         /\ size' \in 0..(UINT16 - 1)
         /\ next' \in [Node -> Node \cup {NULL}]
         /\ front' \in Node \cup {NULL}
         /\ rear' \in Node
<1> DEFINE n == temp[t]
<1>1. /\ chain \in Seq(Node)
      /\ n \in Node
      /\ chain' = Append(chain, n)
  BY DEF TypeOK, enQueueLink
<1>2. /\ Len(chain) \in Nat
      /\ chain' \in Seq(Node)
      /\ chain' # <<>>
      /\ Len(chain') = Len(chain) + 1
      /\ \A i \in 1..Len(chain) : chain[i] \in Node /\ chain'[i] = chain[i]
      /\ chain'[Len(chain) + 1] = n
      /\ chain = <<>> <=> Len(chain) = 0
  BY <1>1, AppendProperties, LenProperties, EmptySeq
<1> HIDE DEF n
<1>3. size' = Len(chain') /\ size' \in 0..(UINT16 - 1)
  BY <1>2, UInt16Exact, CapAssumption DEF enQueueLink, ListIntact
<1>4. /\ rear = NULL <=> chain = <<>>
      /\ rear # NULL => rear = chain[Len(chain)] /\ rear \in Node
  BY <1>2, NullAssumption DEF ListIntact
<1>5. front' = chain'[1]
  BY <1>2, <1>4 DEF enQueueLink, ListIntact, n
<1>6. rear' = chain'[Len(chain')]
  BY <1>2 DEF enQueueLink, n
<1>7. /\ next' \in [Node -> Node \cup {NULL}]
      /\ \A m \in Node : next'[m] = IF rear # NULL /\ m = rear THEN n ELSE next[m]
  BY <1>1, <1>4 DEF enQueueLink, TypeOK, n
<1>8. \A i, j \in 1..Len(chain') : chain'[i] = chain'[j] => i = j
  <2>1. \A i \in 1..Len(chain) : chain[i] # n
    BY DEF Linked, n
  <2>2. QED
    BY <1>2, <2>1 DEF ListIntact
<1>9. \A i \in 1..Len(chain') :
        next'[chain'[i]] = IF i = Len(chain') THEN NULL ELSE chain'[i + 1]
  <2>1. TAKE i \in 1..Len(chain')
  <2>2. CASE i = Len(chain')
    <3>1. chain'[i] = n /\ next[n] = NULL
      BY <2>2, <1>2 DEF n
    <3>2. ~(rear # NULL /\ n = rear)
      <4>1. rear # NULL => Len(chain) \in 1..Len(chain)
        BY <1>2, <1>4
      <4>2. rear # NULL => rear \in Linked
        BY <4>1, <1>4 DEF Linked
      <4>3. QED
        BY <4>2 DEF n
    <3>3. QED
      BY <2>2, <3>1, <3>2, <1>1, <1>7
  <2>3. CASE i = Len(chain)
    <3>1. chain'[i] = rear /\ rear # NULL /\ chain'[i + 1] = n /\ i # Len(chain')
      BY <2>1, <2>3, <1>2, <1>4
    <3>2. QED
      BY <3>1, <1>4, <1>7
  <2>4. CASE i < Len(chain)
    <3>1. /\ i \in 1..Len(chain) /\ i + 1 \in 1..Len(chain) /\ i # Len(chain')
          /\ chain'[i] = chain[i] /\ chain'[i + 1] = chain[i + 1]
      BY <2>1, <2>4, <1>2
    <3>2. chain[i] # rear
      <4>1. Len(chain) \in 1..Len(chain) /\ rear = chain[Len(chain)]
        BY <3>1, <1>2, <1>4
      <4>2. QED
        BY <4>1, <3>1, <2>4, <1>2 DEF ListIntact
    <3>3. next[chain[i]] = chain[i + 1]
      BY <3>1, <2>4, <1>2 DEF ListIntact
    <3>4. QED
      BY <3>1, <3>2, <3>3, <1>2, <1>7
  <2>5. QED
    BY <2>1, <2>2, <2>3, <2>4, <1>2
<1>10. Linked' = Linked \cup {n}
  <2>1. ASSUME NEW m \in Linked' PROVE m \in Linked \cup {n}
    BY <2>1, <1>2 DEF Linked
  <2>2. ASSUME NEW m \in Linked \cup {n} PROVE m \in Linked'
    BY <2>2, <1>2 DEF Linked
  <2>3. QED
    BY <2>1, <2>2
<1>11. ListIntact'
  BY <1>2, <1>3, <1>5, <1>6, <1>8, <1>9 DEF ListIntact
<1>12. front' \in Node \cup {NULL} /\ rear' \in Node
  BY <1>1, <1>2, <1>5, <1>6
<1>13. QED
  BY <1>2, <1>3, <1>7, <1>10, <1>11, <1>12 DEF n

----------------------------------------------------------------------------
(* The inductive invariant                                                 *)

(* At most one thread is inside a queue function, so at most one enQueue   *)
(* has a node that is not linked yet.                                      *)
LEMMA OnlyHolder ==
  ASSUME TypeOK, LocalsValid, NEW t \in Thread, pc[t] # "idle"
  PROVE  /\ mutex = t
         /\ \A u \in Thread \ {t} : pc[u] = "idle" /\ temp[u] = NULL
         /\ Pending = {temp[t]} \ {NULL}
<1>1. mutex = t /\ \A u \in Thread \ {t} : pc[u] = "idle" /\ temp[u] = NULL
  BY DEF LocalsValid
<1>2. Pending = {temp[t]} \ {NULL}
  BY <1>1 DEF Pending
<1>3. QED
  BY <1>1, <1>2

(* A step that leaves the fields of the list alone keeps it intact.        *)
LEMMA ListFrame ==
  ASSUME UNCHANGED <<next, front, rear, size, chain>>
  PROVE  /\ ListIntact => ListIntact'
         /\ CapRespected => CapRespected'
         /\ Linked' = Linked
<1>1. ListIntact => ListIntact'
  BY DEF ListIntact
<1>2. CapRespected => CapRespected'
  BY DEF CapRespected
<1>3. Linked' = Linked
  BY DEF Linked
<1>4. QED
  BY <1>1, <1>2, <1>3

(* A step that neither allocates nor links keeps memory accounted for.     *)
LEMMA MemoryFrame ==
  ASSUME UNCHANGED <<live, chain, temp>>
  PROVE  /\ NoLeakNoDangling => NoLeakNoDangling'
         /\ Pending' = Pending
<1>1. Linked' = Linked
  BY DEF Linked
<1>2. Pending' = Pending
  BY DEF Pending
<1>3. QED
  BY <1>1, <1>2 DEF NoLeakNoDangling

(* createQueue establishes the invariant.                                  *)
LEMMA InitIInv == Init => IInv
<1> SUFFICES ASSUME Init PROVE IInv
  OBVIOUS
<1>1. TypeOK
  BY UInt16Exact, EmptySeq DEF Init, TypeOK, PC
<1>2. Len(chain) = 0 /\ chain = <<>>
  BY DEF Init
<1>3. ListIntact /\ CapRespected
  BY <1>2, CapAssumption DEF Init, ListIntact, CapRespected
<1>4. NoLeakNoDangling
  BY <1>2 DEF Init, NoLeakNoDangling, Linked, Pending
<1>5. LocalsValid
  BY NullAssumption DEF Init, LocalsValid
<1>6. QED
  BY <1>1, <1>3, <1>4, <1>5 DEF IInv

(* Taking the mutex touches neither the list nor the heap.                 *)
LEMMA StartIInv ==
  ASSUME IInv, NEW t \in Thread, Start(t)
  PROVE  IInv'
<1>1. PICK body \in {"enq_new", "deq_read", "poll_read"} : Lock(t, body)
  BY DEF Start, enQueueLock, deQueueLock, pollLock
<1>2. /\ mutex = NULL /\ mutex' = t
      /\ pc[t] = "idle" /\ pc' = [pc EXCEPT ![t] = body]
      /\ UNCHANGED <<live, str, next, front, rear, size, chain, temp, got, out>>
  BY <1>1 DEF Lock, Goto, heap, queue, locals
<1>3. TypeOK'
  <2>1. pc' \in [Thread -> PC] /\ mutex' \in Thread \cup {NULL}
    BY <1>1, <1>2 DEF IInv, TypeOK, PC
  <2>2. QED
    BY <2>1, <1>2 DEF IInv, TypeOK
<1>4. ListIntact' /\ CapRespected' /\ NoLeakNoDangling'
  BY <1>2, ListFrame, MemoryFrame DEF IInv
<1>5. LocalsValid'
  BY <1>1, <1>2, NullAssumption DEF IInv, TypeOK, LocalsValid
<1>6. QED
  BY <1>3, <1>4, <1>5 DEF IInv

(* newNode allocates a node that is neither linked nor anyone's.           *)
LEMMA NewNodeIInv ==
  ASSUME IInv, NEW t \in Thread, NEW n \in Node, NEW m \in Msg, newNode(t, n, m)
  PROVE  IInv'
<1>1. /\ pc[t] = "enq_new" /\ pc' = [pc EXCEPT ![t] = "enq_evict"]
      /\ n \notin live /\ live' = live \cup {n}
      /\ str' = [str EXCEPT ![n] = m] /\ next' = [next EXCEPT ![n] = NULL]
      /\ temp' = [temp EXCEPT ![t] = n]
      /\ UNCHANGED <<mutex, front, rear, size, chain, got, out>>
  BY DEF newNode, Goto, queue
<1>2. /\ mutex = t
      /\ \A u \in Thread \ {t} : pc[u] = "idle" /\ temp[u] = NULL
      /\ Pending = {} /\ temp[t] = NULL
  BY <1>1, OnlyHolder DEF IInv, LocalsValid
<1>3. TypeOK'
  BY <1>1 DEF IInv, TypeOK, PC
<1>4. n \notin Linked
  BY <1>1 DEF IInv, NoLeakNoDangling
<1>5. \A i \in 1..Len(chain) : chain[i] \in Node /\ chain[i] # n
  BY <1>4, LenProperties DEF IInv, TypeOK, Linked
<1>6. ListIntact' /\ CapRespected'
  BY <1>1, <1>5 DEF IInv, TypeOK, ListIntact, CapRespected
<1>7. Pending' = {n} /\ Linked' = Linked
  BY <1>1, <1>2, NullAssumption DEF IInv, TypeOK, Pending, Linked
<1>8. NoLeakNoDangling'
  BY <1>1, <1>2, <1>4, <1>7 DEF IInv, NoLeakNoDangling
<1>9. LocalsValid'
  BY <1>1, <1>2, NullAssumption DEF IInv, TypeOK, LocalsValid
<1>10. QED
  BY <1>3, <1>6, <1>8, <1>9 DEF IInv

(* A full queue loses its front before the new node is linked.             *)
LEMMA EvictIInv ==
  ASSUME IInv, NEW t \in Thread, enQueueEvict(t)
  PROVE  IInv'
<1>1. /\ pc[t] = "enq_evict" /\ pc' = [pc EXCEPT ![t] = "enq_link"]
      /\ UNCHANGED <<mutex, str, next, temp, got, out>>
      /\ IF size = Cap THEN clearQNode ELSE UNCHANGED <<queue, live>>
  BY DEF enQueueEvict, Goto, locals
<1>2. /\ mutex = t
      /\ \A u \in Thread \ {t} : pc[u] = "idle" /\ temp[u] = NULL
      /\ temp[t] # NULL /\ temp[t] \in Node /\ Pending = {temp[t]}
  <2>1. temp[t] # NULL
    BY <1>1 DEF IInv, LocalsValid
  <2>2. QED
    BY <2>1, <1>1, OnlyHolder DEF IInv, TypeOK
<1>3. pc' \in [Thread -> PC]
  BY <1>1 DEF IInv, TypeOK, PC
<1>4. Pending' = Pending
  BY <1>1 DEF Pending
<1>5. CASE size = Cap
  <2>1. front # NULL
    <3>1. Len(chain) # 0 /\ chain # <<>>
      BY <1>5, CapAssumption, EmptySeq DEF IInv, TypeOK, ListIntact
    <3>2. chain[1] \in Node
      BY <3>1, EmptySeq, LenProperties DEF IInv, TypeOK
    <3>3. QED
      BY <3>1, <3>2, NullAssumption DEF IInv, ListIntact
  <2>2. UnlinkFront /\ live' = live \ {front}
    BY <1>1, <1>5, <2>1 DEF clearQNode, freeQNode
  <2>3. /\ ListIntact'
        /\ chain' \in Seq(Node)
        /\ front \in Linked
        /\ Linked' = Linked \ {front}
        /\ Len(chain') = Len(chain) - 1
        /\ size' \in 0..(UINT16 - 1)
        /\ front' \in Node \cup {NULL}
        /\ rear' \in Node \cup {NULL}
    BY <1>1, <2>1, <2>2, UnlinkIntact DEF IInv
  <2>4. TypeOK'
    BY <1>1, <1>3, <2>2, <2>3 DEF IInv, TypeOK
  <2>5. Len(chain) = Cap /\ Len(chain') < Cap
    <3>1. Len(chain) = Cap
      BY <1>5 DEF IInv, ListIntact
    <3>2. QED
      BY <3>1, <2>3, CapAssumption
  <2>6. NoLeakNoDangling'
    BY <1>2, <1>4, <2>2, <2>3 DEF IInv, NoLeakNoDangling
  <2>7. LocalsValid'
    BY <1>1, <1>2, <2>5 DEF IInv, TypeOK, LocalsValid
  <2>8. CapRespected'
    BY <2>3, <2>5, CapAssumption DEF CapRespected
  <2>9. QED
    BY <2>3, <2>4, <2>6, <2>7, <2>8 DEF IInv
<1>6. CASE size # Cap
  <2>1. UNCHANGED <<front, rear, size, chain, live>>
    BY <1>1, <1>6 DEF queue
  <2>2. TypeOK'
    BY <1>1, <1>3, <2>1 DEF IInv, TypeOK
  <2>3. ListIntact' /\ CapRespected' /\ NoLeakNoDangling'
    BY <1>1, <2>1, ListFrame, MemoryFrame DEF IInv
  <2>4. Len(chain) < Cap
    BY <1>6, CapAssumption, LenProperties DEF IInv, TypeOK, ListIntact, CapRespected
  <2>5. LocalsValid'
    BY <1>1, <1>2, <2>1, <2>4 DEF IInv, TypeOK, LocalsValid
  <2>6. QED
    BY <2>2, <2>3, <2>5 DEF IInv
<1>7. QED
  BY <1>5, <1>6

(* Linking the new node.                                                   *)
LEMMA LinkIInv ==
  ASSUME IInv, NEW t \in Thread, enQueueLink(t)
  PROVE  IInv'
<1>1. /\ pc[t] = "enq_link" /\ pc' = [pc EXCEPT ![t] = "idle"]
      /\ mutex' = NULL /\ temp' = [temp EXCEPT ![t] = NULL]
      /\ UNCHANGED <<live, str, got, out>>
  BY DEF enQueueLink, Goto, Unlock
<1>2. /\ mutex = t
      /\ \A u \in Thread \ {t} : pc[u] = "idle" /\ temp[u] = NULL
      /\ temp[t] # NULL /\ temp[t] \in Node /\ next[temp[t]] = NULL
      /\ Pending = {temp[t]} /\ Len(chain) < Cap
  <2>1. temp[t] # NULL /\ next[temp[t]] = NULL /\ Len(chain) < Cap
    BY <1>1 DEF IInv, LocalsValid
  <2>2. QED
    BY <2>1, <1>1, OnlyHolder DEF IInv, TypeOK
<1>3. temp[t] \notin Linked
  BY <1>2 DEF IInv, NoLeakNoDangling
<1>4. /\ ListIntact'
      /\ chain' \in Seq(Node)
      /\ Linked' = Linked \cup {temp[t]}
      /\ Len(chain') = Len(chain) + 1
      /\ size' \in 0..(UINT16 - 1)
      /\ next' \in [Node -> Node \cup {NULL}]
      /\ front' \in Node \cup {NULL}
      /\ rear' \in Node
  BY <1>2, <1>3, LinkIntact DEF IInv
<1>5. TypeOK'
  BY <1>1, <1>4 DEF IInv, TypeOK, PC
<1>6. CapRespected'
  BY <1>2, <1>4, CapAssumption, LenProperties DEF IInv, TypeOK, CapRespected
<1>7. Pending' = {}
  BY <1>1, <1>2 DEF IInv, TypeOK, Pending
<1>8. NoLeakNoDangling'
  BY <1>1, <1>2, <1>4, <1>7 DEF IInv, NoLeakNoDangling
<1>9. LocalsValid'
  BY <1>1, <1>2, NullAssumption DEF IInv, TypeOK, LocalsValid
<1>10. QED
  BY <1>4, <1>5, <1>6, <1>8, <1>9 DEF IInv

(* Removing the front, by deQueue or by a GET poll that accepts.           *)
LEMMA RemoveIInv ==
  ASSUME IInv, NEW t \in Thread,
         pc[t] \in {"deq_unlink", "poll_decide"}, got[t] # NULL,
         deQueueUnlink(t) \/ pollAccept(t)
  PROVE  IInv'
<1>1. /\ mutex = t
      /\ \A u \in Thread \ {t} : pc[u] = "idle" /\ temp[u] = NULL
      /\ temp[t] = NULL /\ front # NULL
  <2>1. front # NULL /\ temp[t] = NULL
    BY DEF IInv, LocalsValid
  <2>2. QED
    BY <2>1, OnlyHolder DEF IInv
<1>2. /\ pc' = [pc EXCEPT ![t] = "idle"] /\ mutex' = NULL
      /\ UnlinkFront /\ live' = live \ {front}
      /\ out' = [out EXCEPT ![t] = got[t]] /\ got' = [got EXCEPT ![t] = NULL]
      /\ UNCHANGED <<str, next, temp>>
  BY <1>1 DEF deQueueUnlink, pollAccept, clearQNode, freeQNode, Goto, Unlock
<1>3. /\ ListIntact'
      /\ chain' \in Seq(Node)
      /\ front \in Linked
      /\ Linked' = Linked \ {front}
      /\ Len(chain') = Len(chain) - 1
      /\ size' \in 0..(UINT16 - 1)
      /\ front' \in Node \cup {NULL}
      /\ rear' \in Node \cup {NULL}
  BY <1>1, <1>2, UnlinkIntact DEF IInv
<1>4. TypeOK'
  BY <1>2, <1>3 DEF IInv, TypeOK, PC
<1>5. CapRespected'
  BY <1>3, CapAssumption, LenProperties DEF IInv, TypeOK, CapRespected
<1>6. Pending' = Pending
  BY <1>2 DEF Pending
<1>7. NoLeakNoDangling'
  BY <1>2, <1>3, <1>6 DEF IInv, NoLeakNoDangling
<1>8. LocalsValid'
  BY <1>1, <1>2, NullAssumption DEF IInv, TypeOK, LocalsValid
<1>9. QED
  BY <1>3, <1>4, <1>5, <1>7, <1>8 DEF IInv

(* Copying the front string, under the mutex, leaves the queue alone.      *)
LEMMA ReadIInv ==
  ASSUME IInv, NEW t \in Thread, deQueueRead(t) \/ readQNode(t)
  PROVE  IInv'
<1>1. /\ pc[t] \in {"deq_read", "poll_read"}
      /\ pc' = [pc EXCEPT ![t] = IF pc[t] = "deq_read" THEN "deq_unlink" ELSE "poll_decide"]
      /\ pc[t] = "deq_read" => front # NULL
      /\ got' = [got EXCEPT ![t] = IF front = NULL THEN NULL ELSE str[front]]
      /\ UNCHANGED <<mutex, live, str, next, front, rear, size, chain, temp, out>>
  BY DEF deQueueRead, readQNode, Goto, heap, queue
<1>2. /\ mutex = t
      /\ \A u \in Thread \ {t} : pc[u] = "idle" /\ temp[u] = NULL
      /\ temp[t] = NULL
  <2>1. temp[t] = NULL
    BY <1>1 DEF IInv, LocalsValid
  <2>2. QED
    BY <1>1, <2>1, OnlyHolder DEF IInv
<1>3. TypeOK'
  <2>1. pc' \in [Thread -> PC]
    BY <1>1 DEF IInv, TypeOK, PC
  <2>2. got' \in [Thread -> Msg \cup {NULL}]
    BY <1>1 DEF IInv, TypeOK
  <2>3. QED
    BY <1>1, <2>1, <2>2 DEF IInv, TypeOK
<1>4. ListIntact' /\ CapRespected' /\ NoLeakNoDangling'
  BY <1>1, ListFrame, MemoryFrame DEF IInv
<1>5. LocalsValid'
  BY <1>1, <1>2, NullAssumption DEF IInv, TypeOK, LocalsValid
<1>6. QED
  BY <1>3, <1>4, <1>5 DEF IInv

(* Returning without having removed anything.                              *)
LEMMA ReturnIInv ==
  ASSUME IInv, NEW t \in Thread, deQueueEmpty(t) \/ pollReject(t)
  PROVE  IInv'
<1>1. /\ pc[t] \in {"deq_read", "poll_decide"}
      /\ pc' = [pc EXCEPT ![t] = "idle"] /\ mutex' = NULL
      /\ out' = out \/ out' = [out EXCEPT ![t] = NULL]
      /\ got' = got \/ got' = [got EXCEPT ![t] = NULL]
      /\ UNCHANGED <<live, str, next, front, rear, size, chain, temp>>
  BY DEF deQueueEmpty, pollReject, Goto, Unlock, heap, queue
<1>2. /\ mutex = t
      /\ \A u \in Thread \ {t} : pc[u] = "idle" /\ temp[u] = NULL
      /\ temp[t] = NULL
  <2>1. temp[t] = NULL
    BY <1>1 DEF IInv, LocalsValid
  <2>2. QED
    BY <1>1, <2>1, OnlyHolder DEF IInv
<1>3. TypeOK'
  <2>1. pc' \in [Thread -> PC]
    BY <1>1 DEF IInv, TypeOK, PC
  <2>2. got' \in [Thread -> Msg \cup {NULL}] /\ out' \in [Thread -> Msg \cup {NULL}]
    BY <1>1 DEF IInv, TypeOK
  <2>3. QED
    BY <1>1, <2>1, <2>2 DEF IInv, TypeOK
<1>4. ListIntact' /\ CapRespected' /\ NoLeakNoDangling'
  BY <1>1, ListFrame, MemoryFrame DEF IInv
<1>5. LocalsValid'
  BY <1>1, <1>2, NullAssumption DEF IInv, TypeOK, LocalsValid
<1>6. QED
  BY <1>3, <1>4, <1>5 DEF IInv

(* Every step of the queue functions preserves the invariant.              *)
LEMMA NextIInv == IInv /\ [Next]_vars => IInv'
<1> SUFFICES ASSUME IInv, [Next]_vars PROVE IInv'
  OBVIOUS
<1>1. ASSUME NEW t \in Thread, Start(t) PROVE IInv'
  BY <1>1, StartIInv
<1>2. ASSUME NEW t \in Thread, NEW n \in Node, NEW m \in Msg, newNode(t, n, m)
      PROVE IInv'
  BY <1>2, NewNodeIInv
<1>3. ASSUME NEW t \in Thread, enQueueEvict(t) PROVE IInv'
  BY <1>3, EvictIInv
<1>4. ASSUME NEW t \in Thread, enQueueLink(t) PROVE IInv'
  BY <1>4, LinkIInv
<1>5. ASSUME NEW t \in Thread, deQueueEmpty(t) \/ pollReject(t) PROVE IInv'
  BY <1>5, ReturnIInv
<1>6. ASSUME NEW t \in Thread, deQueueRead(t) \/ readQNode(t) PROVE IInv'
  BY <1>6, ReadIInv
<1>7. ASSUME NEW t \in Thread, deQueueUnlink(t) PROVE IInv'
  <2>1. pc[t] = "deq_unlink"
    BY <1>7 DEF deQueueUnlink, freeQNode, Goto
  <2>2. got[t] # NULL
    BY <2>1, NullAssumption DEF IInv, LocalsValid, TypeOK
  <2>3. QED
    BY <1>7, <2>1, <2>2, RemoveIInv
<1>8. ASSUME NEW t \in Thread, pollAccept(t) PROVE IInv'
  <2>1. pc[t] = "poll_decide" /\ got[t] # NULL
    BY <1>8 DEF pollAccept, Goto
  <2>2. QED
    BY <1>8, <2>1, RemoveIInv
<1>9. CASE UNCHANGED vars
  <2>1. UNCHANGED <<mutex, live, str, next, front, rear, size, chain, pc, temp, got, out>>
    BY <1>9 DEF vars, heap, queue, locals
  <2>2. TypeOK'
    BY <2>1 DEF IInv, TypeOK
  <2>3. LocalsValid'
    BY <2>1 DEF IInv, LocalsValid
  <2>4. QED
    BY <2>1, <2>2, <2>3, ListFrame, MemoryFrame DEF IInv
<1>10. QED
  BY <1>1, <1>2, <1>3, <1>4, <1>5, <1>6, <1>7, <1>8, <1>9 DEF Next, Step

(* In every reachable state of the queue functions IInv holds.             *)
THEOREM Invariance == SafetySpec => []IInv
BY InitIInv, NextIInv, PTL DEF SafetySpec

(* Every variable keeps its C type, and size never wraps.                  *)
THEOREM TypeCorrect == SafetySpec => []TypeOK
<1>1. IInv => TypeOK
  BY DEF IInv
<1>2. QED
  BY <1>1, Invariance, PTL

(* No interleaving of the queue functions breaks the linked list: front,   *)
(* rear, the next pointers and size always agree.                          *)
THEOREM ListSafe == SafetySpec => []ListIntact
<1>1. IInv => ListIntact
  BY DEF IInv
<1>2. QED
  BY <1>1, Invariance, PTL

(* No node is lost, none is freed twice, and none is freed while it is     *)
(* linked: the allocated nodes are those of the list and those that an     *)
(* enQueue is about to link.                                               *)
THEOREM MemorySafe == SafetySpec => []NoLeakNoDangling
<1>1. IInv => NoLeakNoDangling
  BY DEF IInv
<1>2. QED
  BY <1>1, Invariance, PTL

(* A queue never holds more strings than createQueue was told.             *)
THEOREM Bounded == SafetySpec => []CapRespected
<1>1. IInv => CapRespected
  BY DEF IInv
<1>2. QED
  BY <1>1, Invariance, PTL

----------------------------------------------------------------------------
(* The refinement of the atomic FIFO                                       *)

(* The strings of a sequence of nodes.                                     *)
LEMMA StringsOfFacts ==
  ASSUME NEW c \in Seq(Node), NEW s \in [Node -> Msg]
  PROVE  /\ StringsOf(c, s) \in Seq(Msg)
         /\ Len(StringsOf(c, s)) = Len(c)
         /\ \A i \in 1..Len(c) : StringsOf(c, s)[i] = s[c[i]]
         /\ StringsOf(c, s) = <<>> <=> c = <<>>
<1>1. Len(c) \in Nat /\ \A i \in 1..Len(c) : c[i] \in Node
  BY LenProperties
<1>2. StringsOf(c, s) \in [1..Len(c) -> Msg]
  BY <1>1 DEF StringsOf
<1>3. StringsOf(c, s) \in Seq(Msg) /\ Len(StringsOf(c, s)) = Len(c)
  BY <1>1, <1>2
<1>4. \A i \in 1..Len(c) : StringsOf(c, s)[i] = s[c[i]]
  BY DEF StringsOf
<1>5. StringsOf(c, s) = <<>> <=> c = <<>>
  BY <1>3, EmptySeq
<1>6. QED
  BY <1>3, <1>4, <1>5

(* Dropping the first node drops the first string.                         *)
LEMMA StringsOfTail ==
  ASSUME NEW c \in Seq(Node), NEW s \in [Node -> Msg], c # <<>>
  PROVE  /\ StringsOf(Tail(c), s) = Tail(StringsOf(c, s))
         /\ Head(StringsOf(c, s)) = s[c[1]]
<1> DEFINE q == StringsOf(c, s)
           r == StringsOf(Tail(c), s)
<1>1. /\ Len(c) \in Nat \ {0} /\ Tail(c) \in Seq(Node)
      /\ Len(Tail(c)) = Len(c) - 1
      /\ \A i \in 1..(Len(c) - 1) : Tail(c)[i] = c[i + 1]
  BY HeadTailProperties, EmptySeq
<1>2. /\ q \in Seq(Msg) /\ q # <<>> /\ Len(q) = Len(c)
      /\ \A i \in 1..Len(c) : q[i] = s[c[i]]
  BY StringsOfFacts
<1>3. /\ r \in Seq(Msg) /\ Len(r) = Len(c) - 1
      /\ \A i \in 1..(Len(c) - 1) : r[i] = s[Tail(c)[i]]
  <2> DEFINE shorter == Tail(c)
  <2>1. shorter \in Seq(Node) /\ Len(shorter) = Len(c) - 1
    BY <1>1
  <2>2. r = StringsOf(shorter, s)
    OBVIOUS
  <2> HIDE DEF shorter, r
  <2>3. /\ r \in Seq(Msg) /\ Len(r) = Len(shorter)
        /\ \A i \in 1..Len(shorter) : r[i] = s[shorter[i]]
    BY <2>1, <2>2, StringsOfFacts
  <2>4. QED
    BY <2>1, <2>3 DEF shorter
<1> HIDE DEF q, r
<1>4. /\ Tail(q) \in Seq(Msg) /\ Len(Tail(q)) = Len(c) - 1
      /\ \A i \in 1..(Len(c) - 1) : Tail(q)[i] = q[i + 1]
  BY <1>2, HeadTailProperties
<1>5. \A i \in 1..Len(r) : r[i] = Tail(q)[i]
  <2>1. TAKE i \in 1..Len(r)
  <2>2. i \in 1..(Len(c) - 1) /\ i + 1 \in 1..Len(c)
    BY <1>1, <1>3
  <2>3. r[i] = s[c[i + 1]]
    BY <1>1, <1>3, <2>2
  <2>4. Tail(q)[i] = s[c[i + 1]]
    BY <1>2, <1>4, <2>2
  <2>5. QED
    BY <2>3, <2>4
<1>6. r = Tail(q)
  BY <1>3, <1>4, <1>5, SeqEqual
<1>7. Head(q) = s[c[1]]
  BY <1>1, <1>2
<1>8. QED
  BY <1>6, <1>7 DEF q, r

(* Appending a node appends its string.                                    *)
LEMMA StringsOfAppend ==
  ASSUME NEW c \in Seq(Node), NEW s \in [Node -> Msg], NEW n \in Node
  PROVE  StringsOf(Append(c, n), s) = Append(StringsOf(c, s), s[n])
<1> DEFINE q == StringsOf(c, s)
           r == StringsOf(Append(c, n), s)
<1>1. /\ Len(c) \in Nat /\ Append(c, n) \in Seq(Node)
      /\ Len(Append(c, n)) = Len(c) + 1
      /\ \A i \in 1..Len(c) : Append(c, n)[i] = c[i]
      /\ Append(c, n)[Len(c) + 1] = n
  BY AppendProperties, LenProperties
<1>2. /\ q \in Seq(Msg) /\ Len(q) = Len(c)
      /\ \A i \in 1..Len(c) : q[i] = s[c[i]]
  BY StringsOfFacts
<1>3. /\ r \in Seq(Msg) /\ Len(r) = Len(c) + 1
      /\ \A i \in 1..(Len(c) + 1) : r[i] = s[Append(c, n)[i]]
  <2> DEFINE longer == Append(c, n)
  <2>1. longer \in Seq(Node) /\ Len(longer) = Len(c) + 1
    BY <1>1
  <2>2. r = StringsOf(longer, s)
    OBVIOUS
  <2> HIDE DEF longer, r
  <2>3. /\ r \in Seq(Msg) /\ Len(r) = Len(longer)
        /\ \A i \in 1..Len(longer) : r[i] = s[longer[i]]
    BY <2>1, <2>2, StringsOfFacts
  <2>4. QED
    BY <2>1, <2>3 DEF longer
<1> HIDE DEF q, r
<1>4. s[n] \in Msg
  OBVIOUS
<1>5. /\ Append(q, s[n]) \in Seq(Msg) /\ Len(Append(q, s[n])) = Len(c) + 1
      /\ \A i \in 1..Len(c) : Append(q, s[n])[i] = q[i]
      /\ Append(q, s[n])[Len(c) + 1] = s[n]
  BY <1>2, <1>4, AppendProperties
<1>6. \A i \in 1..Len(r) : r[i] = Append(q, s[n])[i]
  <2>1. TAKE i \in 1..Len(r)
  <2>2. CASE i = Len(c) + 1
    BY <2>2, <1>1, <1>3, <1>5
  <2>3. CASE i \in 1..Len(c)
    BY <2>3, <1>1, <1>2, <1>3, <1>5
  <2>4. i = Len(c) + 1 \/ i \in 1..Len(c)
    <3>1. Len(r) = Len(c) + 1 /\ Len(c) \in Nat
      BY <1>1, <1>3
    <3>2. QED
      BY <2>1, <3>1
  <2>5. QED
    BY <2>2, <2>3, <2>4
<1>7. QED
  BY <1>3, <1>5, <1>6, SeqEqual DEF q, r

(* The abstract contents when no enQueue is between making room and        *)
(* linking, and when one is.                                               *)
LEMMA ContentsFacts ==
  ASSUME TypeOK, LocalsValid
  PROVE  /\ (\A t \in Thread : pc[t] # "enq_link") => Contents = LinkedStrings
         /\ \A t \in Thread :
              pc[t] = "enq_link"
                => Contents = Append(LinkedStrings, str[temp[t]])
<1>1. ASSUME \A t \in Thread : pc[t] # "enq_link"
      PROVE  Contents = LinkedStrings
  BY <1>1 DEF Contents, TypeOK
<1>2. ASSUME NEW t \in Thread, pc[t] = "enq_link"
      PROVE  Contents = Append(LinkedStrings, str[temp[t]])
  <2>1. mutex = t /\ mutex # NULL
    BY <1>2, NullAssumption DEF LocalsValid
  <2>2. QED
    BY <1>2, <2>1 DEF Contents
<1>3. QED
  BY <1>1, <1>2

(* The initial queue is the empty buffer.                                  *)
LEMMA RefineInit == Init => Fifo!Init
<1> SUFFICES ASSUME Init PROVE Fifo!Init
  OBVIOUS
<1>1. IInv
  BY InitIInv
<1>2. LinkedStrings = <<>>
  BY <1>1, StringsOfFacts DEF IInv, TypeOK, Init, LinkedStrings
<1>3. Contents = LinkedStrings
  BY DEF Init, Contents
<1>4. QED
  BY <1>2, <1>3 DEF Init, Fifo!Init

(* Every step of the queue functions is a step of the atomic buffer or     *)
(* invisible to it: enQueueEvict puts, deQueueUnlink and pollAccept take,  *)
(* deQueueEmpty takes nothing, and the rest changes nothing.               *)
LEMMA RefineNext == IInv /\ IInv' /\ [Next]_vars => [Fifo!Next]_(Fifo!vars)
<1> SUFFICES ASSUME IInv, IInv', [Next]_vars
             PROVE  Fifo!Next \/ UNCHANGED <<Contents, out>>
  BY DEF Fifo!vars
<1> USE DEF IInv
<1>t. /\ chain \in Seq(Node) /\ str \in [Node -> Msg]
      /\ chain' \in Seq(Node) /\ str' \in [Node -> Msg]
  BY DEF TypeOK
<1>c. /\ (\A t \in Thread : pc'[t] # "enq_link") => Contents' = LinkedStrings'
      /\ \A t \in Thread : pc'[t] = "enq_link"
            => Contents' = Append(LinkedStrings', str'[temp'[t]])
  <2>1. ASSUME \A t \in Thread : pc'[t] # "enq_link"
        PROVE  Contents' = LinkedStrings'
    BY <2>1 DEF Contents, TypeOK
  <2>2. ASSUME NEW t \in Thread, pc'[t] = "enq_link"
        PROVE  Contents' = Append(LinkedStrings', str'[temp'[t]])
    <3>1. mutex' = t /\ mutex' # NULL
      BY <2>2, NullAssumption DEF LocalsValid
    <3>2. QED
      BY <2>2, <3>1 DEF Contents
  <2>3. QED
    BY <2>1, <2>2
<1>1. ASSUME NEW t \in Thread, Start(t) PROVE UNCHANGED <<Contents, out>>
  <2>1. PICK body \in {"enq_new", "deq_read", "poll_read"} : Lock(t, body)
    BY <1>1 DEF Start, enQueueLock, deQueueLock, pollLock
  <2>2. /\ mutex = NULL /\ mutex' = t /\ pc'[t] # "enq_link"
        /\ UNCHANGED <<str, chain, temp, out>>
    BY <2>1 DEF Lock, Goto, heap, queue, locals, TypeOK
  <2>3. LinkedStrings' = LinkedStrings
    BY <2>2 DEF LinkedStrings, StringsOf
  <2>4. Contents = LinkedStrings /\ Contents' = LinkedStrings'
    BY <2>2 DEF Contents
  <2>5. QED
    BY <2>2, <2>3, <2>4
<1>2. ASSUME NEW t \in Thread, NEW n \in Node, NEW m \in Msg, newNode(t, n, m)
      PROVE  UNCHANGED <<Contents, out>>
  <2>1. /\ pc[t] = "enq_new" /\ mutex = t /\ mutex' = t /\ pc'[t] = "enq_evict"
        /\ n \notin live /\ str' = [str EXCEPT ![n] = m]
        /\ UNCHANGED <<chain, out>>
    BY <1>2 DEF newNode, Goto, queue, TypeOK, LocalsValid
  <2>2. \A i \in 1..Len(chain) : chain[i] \in Node /\ chain[i] # n
    <3>1. n \notin Linked
      BY <2>1 DEF NoLeakNoDangling
    <3>2. \A i \in 1..Len(chain) : chain[i] \in Node
      BY <1>t, LenProperties
    <3>3. QED
      BY <3>1, <3>2 DEF Linked
  <2>3. \A i \in 1..Len(chain) : str'[chain[i]] = str[chain[i]]
    BY <2>1, <2>2, <1>t
  <2>4. LinkedStrings' = LinkedStrings
    <3>1. StringsOf(chain, str') = StringsOf(chain, str)
      BY <2>3, <1>t DEF StringsOf
    <3>2. QED
      BY <2>1, <3>1 DEF LinkedStrings
  <2>5. Contents = LinkedStrings /\ Contents' = LinkedStrings'
    BY <2>1 DEF Contents
  <2>6. QED
    BY <2>1, <2>4, <2>5
<1>3. ASSUME NEW t \in Thread, enQueueEvict(t) PROVE Fifo!Next
  <2>1. /\ pc[t] = "enq_evict" /\ mutex = t /\ mutex' = t /\ pc'[t] = "enq_link"
        /\ UNCHANGED <<str, temp, out>>
        /\ temp[t] \in Node
        /\ IF size = Cap THEN clearQNode ELSE UNCHANGED <<queue, live>>
    BY <1>3 DEF enQueueEvict, Goto, locals, TypeOK, LocalsValid
  <2>2. /\ Contents = LinkedStrings
        /\ Contents' = Append(LinkedStrings', str[temp[t]])
    BY <2>1, <1>c DEF Contents
  <2>3. Len(LinkedStrings) = Len(chain) /\ size = Len(chain)
    BY <1>t, StringsOfFacts DEF LinkedStrings, ListIntact
  <2>4. LinkedStrings' = IF Len(LinkedStrings) = Cap THEN Tail(LinkedStrings)
                                                     ELSE LinkedStrings
    <3>1. CASE size = Cap
      <4>1. chain # <<>> /\ front # NULL
        <5>1. Len(chain) # 0 /\ chain # <<>>
          BY <3>1, <2>3, CapAssumption, EmptySeq
        <5>2. chain[1] \in Node
          BY <5>1, <1>t, EmptySeq, LenProperties
        <5>3. QED
          BY <5>1, <5>2, NullAssumption DEF ListIntact
      <4>2. chain' = Tail(chain)
        BY <2>1, <3>1, <4>1 DEF clearQNode, freeQNode, UnlinkFront
      <4>3. LinkedStrings' = Tail(LinkedStrings)
        BY <2>1, <4>1, <4>2, <1>t, StringsOfTail DEF LinkedStrings
      <4>4. QED
        BY <3>1, <2>3, <4>3
    <3>2. CASE size # Cap
      <4>1. UNCHANGED <<chain, str>>
        BY <2>1, <3>2 DEF queue
      <4>2. LinkedStrings' = LinkedStrings
        BY <4>1 DEF LinkedStrings, StringsOf
      <4>3. QED
        BY <3>2, <2>3, <4>2
    <3>3. QED
      BY <3>1, <3>2
  <2>5. str[temp[t]] \in Msg
    BY <2>1, <1>t
  <2>6. Contents' = Enqueue(Contents, str[temp[t]], Cap)
    BY <2>2, <2>4 DEF Enqueue
  <2>7. QED
    BY <2>1, <2>5, <2>6 DEF Fifo!Next, Fifo!Put, Fifo!Enqueue, Enqueue
<1>4. ASSUME NEW t \in Thread, enQueueLink(t) PROVE UNCHANGED <<Contents, out>>
  <2>1. /\ pc[t] = "enq_link" /\ mutex' = NULL
        /\ chain' = Append(chain, temp[t])
        /\ UNCHANGED <<str, out>>
    BY <1>4 DEF enQueueLink, Goto, Unlock
  <2>2. temp[t] \in Node
    BY <2>1 DEF TypeOK, LocalsValid
  <2>3. Contents = Append(LinkedStrings, str[temp[t]])
    BY <2>1, ContentsFacts
  <2>4. Contents' = LinkedStrings'
    BY <2>1 DEF Contents
  <2>5. LinkedStrings' = Append(LinkedStrings, str[temp[t]])
    BY <2>1, <2>2, <1>t, StringsOfAppend DEF LinkedStrings
  <2>6. QED
    BY <2>1, <2>3, <2>4, <2>5
<1>5. ASSUME NEW t \in Thread, deQueueUnlink(t) \/ pollAccept(t) PROVE Fifo!Next
  <2>1. /\ pc[t] \in {"deq_unlink", "poll_decide"} /\ mutex = t /\ mutex' = NULL
        /\ pc[t] = "poll_decide" => got[t] # NULL
        /\ out' = [out EXCEPT ![t] = got[t]]
        /\ UNCHANGED str
    BY <1>5 DEF deQueueUnlink, pollAccept, freeQNode, Goto, Unlock, LocalsValid
  <2>2. front # NULL /\ got[t] = str[front]
    BY <2>1 DEF LocalsValid
  <2>3. UnlinkFront
    BY <1>5, <2>2 DEF deQueueUnlink, pollAccept, clearQNode, freeQNode
  <2>4. chain # <<>> /\ chain' = Tail(chain) /\ front = chain[1]
    BY <2>2, <2>3 DEF UnlinkFront, ListIntact
  <2>5. /\ LinkedStrings' = Tail(LinkedStrings)
        /\ Head(LinkedStrings) = str[front]
        /\ LinkedStrings # <<>>
    BY <2>1, <2>4, <1>t, StringsOfTail, StringsOfFacts DEF LinkedStrings
  <2>6. Contents = LinkedStrings /\ Contents' = LinkedStrings'
    BY <2>1 DEF Contents
  <2>7. Fifo!Take(t)
    BY <2>1, <2>2, <2>5, <2>6 DEF Fifo!Take
  <2>8. QED
    BY <2>7 DEF Fifo!Next
<1>6. ASSUME NEW t \in Thread, deQueueEmpty(t) PROVE Fifo!Next
  <2>1. /\ pc[t] = "deq_read" /\ mutex = t /\ mutex' = NULL /\ front = NULL
        /\ out' = [out EXCEPT ![t] = NULL]
        /\ UNCHANGED <<chain, str>>
    BY <1>6 DEF deQueueEmpty, Goto, Unlock, heap, queue, LocalsValid
  <2>2. chain = <<>>
    <3>1. SUFFICES ASSUME chain # <<>> PROVE FALSE
      OBVIOUS
    <3>2. chain[1] \in Node
      BY <3>1, <1>t, EmptySeq, LenProperties
    <3>3. QED
      BY <3>1, <3>2, <2>1, NullAssumption DEF ListIntact
  <2>3. LinkedStrings = <<>> /\ LinkedStrings' = LinkedStrings
    BY <2>1, <2>2, <1>t, StringsOfFacts DEF LinkedStrings
  <2>4. Contents = LinkedStrings /\ Contents' = LinkedStrings'
    BY <2>1 DEF Contents
  <2>5. Fifo!TakeNothing(t)
    BY <2>1, <2>3, <2>4 DEF Fifo!TakeNothing
  <2>6. QED
    BY <2>5 DEF Fifo!Next
<1>7. ASSUME NEW t \in Thread, deQueueRead(t) \/ readQNode(t) \/ pollReject(t)
      PROVE  UNCHANGED <<Contents, out>>
  <2>1. /\ pc[t] \in {"deq_read", "poll_read", "poll_decide"} /\ mutex = t
        /\ pc'[t] \in {"deq_unlink", "poll_decide", "idle"}
        /\ mutex' \in {NULL, t}
        /\ UNCHANGED <<chain, str, out>>
    BY <1>7 DEF deQueueRead, readQNode, pollReject, Goto, Unlock, heap, queue,
                TypeOK, LocalsValid
  <2>2. LinkedStrings' = LinkedStrings
    BY <2>1 DEF LinkedStrings, StringsOf
  <2>3. Contents = LinkedStrings /\ Contents' = LinkedStrings'
    BY <2>1 DEF Contents
  <2>4. QED
    BY <2>1, <2>2, <2>3
<1>8. CASE UNCHANGED vars
  BY <1>8 DEF vars, heap, queue, locals, Contents, LinkedStrings, StringsOf
<1>9. QED
  BY <1>1, <1>2, <1>3, <1>4, <1>5, <1>6, <1>7, <1>8 DEF Next, Step

(* The queue of user_queue.c implements the atomic bounded FIFO that       *)
(* discards its oldest string: whatever the threads and their interleaving *)
(* a string leaves the queue once, in order, to the caller that saw it.    *)
THEOREM Refinement == SafetySpec => Fifo!Spec
BY RefineInit, RefineNext, Invariance, PTL DEF SafetySpec, Fifo!Spec

(* The property the model-checking run states, under its fairness.         *)
THEOREM QueueImplementsFifo == Spec => ImplementsFifo
BY Refinement, PTL DEF Spec, ImplementsFifo

=============================================================================
