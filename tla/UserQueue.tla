----------------------------- MODULE UserQueue -----------------------------
(***************************************************************************)
(* The queue of random/user_queue.c: a singly linked list of heap nodes    *)
(* with a front, a rear, a 16-bit size and one mutex, called by several    *)
(* threads.  deQueue and enQueue take the mutex themselves; readQNode and  *)
(* clearQNode do not, and random_get_handler brackets them with lock_queue *)
(* and unlock_queue.  Every call is cut into the steps between which       *)
(* another thread could look at the list if the mutex let it.              *)
(*                                                                         *)
(* malloc picks any node that is not allocated, so a node that was freed   *)
(* may come back with other contents.                                      *)
(***************************************************************************)
EXTENDS FifoOps, FiniteSets

CONSTANTS Thread,   \* the threads that call the queue functions
          Msg,      \* the strings that may be queued
          Node,     \* the addresses malloc may return
          Cap,      \* the argument of createQueue (10 in main)
          NULL      \* the null pointer, and "nobody" for the mutex

(* The number of values of a uint16_t, the type of cap and size.           *)
UINT16 == 65536

ASSUME CapAssumption == Cap \in Nat \ {0} /\ Cap < UINT16
ASSUME NullAssumption == NULL \notin Thread \cup Node \cup Msg

VARIABLES
  mutex,     \* the thread that holds q->mutex, or NULL
  live,      \* the nodes that are allocated
  str,       \* str[n], next[n]: the fields of QNode n
  next,
  front,     \* q->front, q->rear, q->size
  rear,
  size,
  pc,        \* where each thread is inside a queue function
  temp,      \* temp[t]: the local temp of enQueue
  got,       \* got[t]: the copy of the front string t has made
  out,       \* out[t]: what the last call of t returned
  chain      \* history: the nodes linked into the list, in linking order

heap   == <<live, str, next>>
queue  == <<front, rear, size, chain>>
locals == <<temp, got, out>>
vars   == <<mutex, heap, queue, pc, locals>>

PC == {"idle", "enq_new", "enq_evict", "enq_link", "deq_read", "deq_unlink",
       "poll_read", "poll_decide"}

(* Conversion to uint16_t, the type of Queue.size.                         *)
uint16(n) == n % UINT16

(* createQueue *)
Init == /\ mutex = NULL
        /\ live = {}
        /\ str \in [Node -> Msg]
        /\ next = [n \in Node |-> NULL]
        /\ front = NULL /\ rear = NULL /\ size = 0
        /\ chain = <<>>
        /\ pc = [t \in Thread |-> "idle"]
        /\ temp = [t \in Thread |-> NULL]
        /\ got = [t \in Thread |-> NULL]
        /\ out = [t \in Thread |-> NULL]

Goto(t, from, to) == pc[t] = from /\ pc' = [pc EXCEPT ![t] = to]

(* pthread_mutex_lock on entry of a function whose body starts at `body'.  *)
Lock(t, body) == /\ mutex = NULL
                 /\ mutex' = t
                 /\ Goto(t, "idle", body)
                 /\ UNCHANGED <<heap, queue, locals>>

Unlock(t) == mutex' = NULL

----------------------------------------------------------------------------
(* Unlinking the front node: the common part of clearQNode and deQueue.    *)

(* A defective variant that leaves rear on the freed node.                 *)
UnlinkFrontStaleRear ==
  /\ front' = next[front]
  /\ size' = uint16(size - 1)
  /\ rear' = rear
  /\ chain' = Tail(chain)

UnlinkFront ==
  /\ front' = next[front]
  /\ size' = uint16(size - 1)
  /\ rear' = IF next[front] = NULL THEN NULL ELSE rear
  /\ chain' = Tail(chain)

(* The node and its string are freed.                                      *)
freeQNode(n) == live' = live \ {n}

clearQNode ==
  IF front = NULL
  THEN UNCHANGED <<queue, live>>
  ELSE UnlinkFront /\ freeQNode(front)

----------------------------------------------------------------------------
(* enQueue                                                                 *)

enQueueLock(t) == Lock(t, "enq_new")

(* newNode: a fresh node with a copy of the string and no successor.       *)
newNode(t, n, m) ==
  /\ Goto(t, "enq_new", "enq_evict")
  /\ n \notin live
  /\ live' = live \cup {n}
  /\ str' = [str EXCEPT ![n] = m]
  /\ next' = [next EXCEPT ![n] = NULL]
  /\ temp' = [temp EXCEPT ![t] = n]
  /\ UNCHANGED <<mutex, queue, got, out>>

(* A defective variant that forgets to free the node it unlinks.           *)
enQueueEvictLeak(t) ==
  /\ Goto(t, "enq_evict", "enq_link")
  /\ IF size = Cap THEN UnlinkFront ELSE UNCHANGED queue
  /\ UNCHANGED <<mutex, heap, locals>>

enQueueEvict(t) ==
  /\ Goto(t, "enq_evict", "enq_link")
  /\ IF size = Cap THEN clearQNode ELSE UNCHANGED <<queue, live>>
  /\ UNCHANGED <<mutex, str, next, locals>>

(* A defective variant whose early return forgets the unlock.              *)
enQueueLinkKeepLock(t) ==
  /\ Goto(t, "enq_link", "idle")
  /\ size' = uint16(size + 1)
  /\ IF rear = NULL THEN front' = temp[t] /\ UNCHANGED <<next, mutex>>
                    ELSE next' = [next EXCEPT ![rear] = temp[t]] /\ UNCHANGED front /\ Unlock(t)
  /\ rear' = temp[t]
  /\ chain' = Append(chain, temp[t])
  /\ temp' = [temp EXCEPT ![t] = NULL]
  /\ UNCHANGED <<live, str, got, out>>

enQueueLink(t) ==
  /\ Goto(t, "enq_link", "idle")
  /\ size' = uint16(size + 1)
  /\ IF rear = NULL THEN front' = temp[t] /\ UNCHANGED next
                    ELSE next' = [next EXCEPT ![rear] = temp[t]] /\ UNCHANGED front
  /\ rear' = temp[t]
  /\ chain' = Append(chain, temp[t])
  /\ temp' = [temp EXCEPT ![t] = NULL]
  /\ Unlock(t)
  /\ UNCHANGED <<live, str, got, out>>

----------------------------------------------------------------------------
(* deQueue                                                                 *)

deQueueLock(t) == Lock(t, "deq_read")

(* The early return on an empty queue.                                     *)
deQueueEmpty(t) ==
  /\ front = NULL
  /\ Goto(t, "deq_read", "idle")
  /\ out' = [out EXCEPT ![t] = NULL]
  /\ Unlock(t)
  /\ UNCHANGED <<heap, queue, temp, got>>

deQueueRead(t) ==
  /\ front # NULL
  /\ Goto(t, "deq_read", "deq_unlink")
  /\ got' = [got EXCEPT ![t] = str[front]]
  /\ UNCHANGED <<mutex, heap, queue, temp, out>>

deQueueUnlink(t) ==
  /\ Goto(t, "deq_unlink", "idle")
  /\ UnlinkFront
  /\ freeQNode(front)
  /\ out' = [out EXCEPT ![t] = got[t]]
  /\ got' = [got EXCEPT ![t] = NULL]
  /\ Unlock(t)
  /\ UNCHANGED <<str, next, temp>>

----------------------------------------------------------------------------
(* One turn of the polling loop of random_get_handler: lock_queue,         *)
(* readQNode, and clearQNode when the handler accepts what it has read.    *)

pollLock(t) == Lock(t, "poll_read")

(* A defective variant that unlocks between reading and clearing.          *)
readQNodeUnlock(t) ==
  /\ Goto(t, "poll_read", "poll_decide")
  /\ got' = [got EXCEPT ![t] = IF front = NULL THEN NULL ELSE str[front]]
  /\ Unlock(t)
  /\ UNCHANGED <<heap, queue, temp, out>>

readQNode(t) ==
  /\ Goto(t, "poll_read", "poll_decide")
  /\ got' = [got EXCEPT ![t] = IF front = NULL THEN NULL ELSE str[front]]
  /\ UNCHANGED <<mutex, heap, queue, temp, out>>

pollAccept(t) ==
  /\ got[t] # NULL
  /\ Goto(t, "poll_decide", "idle")
  /\ clearQNode
  /\ out' = [out EXCEPT ![t] = got[t]]
  /\ got' = [got EXCEPT ![t] = NULL]
  /\ Unlock(t)
  /\ UNCHANGED <<str, next, temp>>

pollReject(t) ==
  /\ Goto(t, "poll_decide", "idle")
  /\ got' = [got EXCEPT ![t] = NULL]
  /\ Unlock(t)
  /\ UNCHANGED <<heap, queue, temp, out>>

----------------------------------------------------------------------------
Start(t) == enQueueLock(t) \/ deQueueLock(t) \/ pollLock(t)

(* The steps of a thread that is inside a queue function.                  *)
Step(t) == \/ \E n \in Node, m \in Msg : newNode(t, n, m)
           \/ enQueueEvict(t) \/ enQueueLink(t)
           \/ deQueueEmpty(t) \/ deQueueRead(t) \/ deQueueUnlink(t)
           \/ readQNode(t) \/ pollAccept(t) \/ pollReject(t)

Next == \E t \in Thread : Start(t) \/ Step(t)

(* The critical sections contain no wait, so a scheduled thread finishes   *)
(* them.  Nothing is assumed about who gets a contended mutex.             *)
Fairness == \A t \in Thread : WF_vars(Step(t))

SafetySpec == Init /\ [][Next]_vars
Spec == SafetySpec /\ Fairness

----------------------------------------------------------------------------
(* Properties                                                              *)

(* Every variable keeps its C type; size never leaves uint16_t.            *)
TypeOK == /\ mutex \in Thread \cup {NULL}
          /\ live \subseteq Node
          /\ str \in [Node -> Msg]
          /\ next \in [Node -> Node \cup {NULL}]
          /\ front \in Node \cup {NULL}
          /\ rear \in Node \cup {NULL}
          /\ size \in 0..(UINT16 - 1)
          /\ pc \in [Thread -> PC]
          /\ temp \in [Thread -> Node \cup {NULL}]
          /\ got \in [Thread -> Msg \cup {NULL}]
          /\ out \in [Thread -> Msg \cup {NULL}]
          /\ chain \in Seq(Node)

(* The list reached from front is the list of linked nodes, rear is its    *)
(* last node and size counts it: no interleaving of enQueue, deQueue and   *)
(* the GET poll leaves a broken link, a stale rear or a wrong size.        *)
ListIntact ==
  /\ size = Len(chain)
  /\ front = IF chain = <<>> THEN NULL ELSE chain[1]
  /\ rear = IF chain = <<>> THEN NULL ELSE chain[Len(chain)]
  /\ \A i \in 1..Len(chain) :
       next[chain[i]] = IF i = Len(chain) THEN NULL ELSE chain[i + 1]
  /\ \A i, j \in 1..Len(chain) : chain[i] = chain[j] => i = j

(* Allocated memory is exactly the linked nodes and the node an enQueue in *)
(* progress has made: nothing leaks, no linked node has been freed.        *)
Linked == {chain[i] : i \in 1..Len(chain)}
Pending == {temp[t] : t \in {u \in Thread : temp[u] # NULL}}
NoLeakNoDangling == /\ live = Linked \cup Pending
                    /\ Linked \cap Pending = {}

(* The size never exceeds the capacity, also between the eviction and the  *)
(* insertion of an enQueue.                                                *)
CapRespected == Len(chain) <= Cap

(* The abstract contents: an enQueue takes effect when it has made room.   *)
StringsOf(nodes, strs) == [i \in 1..Len(nodes) |-> strs[nodes[i]]]
LinkedStrings == StringsOf(chain, str)
Contents == IF mutex # NULL /\ pc[mutex] = "enq_link"
            THEN Append(LinkedStrings, str[temp[mutex]])
            ELSE LinkedStrings

Fifo == INSTANCE BoundedFifo WITH contents <- Contents

(* What a thread inside a queue function may rely on: it owns the mutex,   *)
(* an enQueue that has made room still has it, and the copy of the front   *)
(* string is a copy of the present front.                                  *)
LocalsValid ==
  \A t \in Thread :
    /\ mutex = t <=> pc[t] # "idle"
    /\ temp[t] # NULL <=> pc[t] \in {"enq_evict", "enq_link"}
    /\ temp[t] # NULL => next[temp[t]] = NULL
    /\ pc[t] = "enq_link" => Len(chain) < Cap
    /\ pc[t] = "deq_unlink" => front # NULL
    /\ pc[t] \in {"deq_unlink", "poll_decide"}
         => got[t] = IF front = NULL THEN NULL ELSE str[front]

(* The linked list implements the atomic bounded FIFO: whatever the        *)
(* interleaving, each string leaves the queue at most once, in order, and  *)
(* the string a GET poll clears is the string it had read.                 *)
ImplementsFifo == Fifo!Spec

(* Every critical section ends: no return path of a queue function keeps   *)
(* the mutex.                                                              *)
MutexReleased == \A t \in Thread : mutex = t ~> mutex # t

=============================================================================
