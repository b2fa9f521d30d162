-------------------------- MODULE AutoEventsProofs --------------------------
(***************************************************************************)
(* Proofs about AutoEvents, for any number of device structs, threads of   *)
(* the pool, results and firings.                                          *)
(***************************************************************************)
EXTENDS AutoEvents, SequenceTheorems, FiniteSetTheorems, TLAPS

----------------------------------------------------------------------------
(* Invariants                                                              *)

AtMostOne(S) == \A x, y \in S : x = y

(* The places in a queue of the jobs of one kind for one autoevent.        *)
Places(q, run, d) == {i \in DOMAIN q : q[i].run = run /\ q[i].ai = d}

Stoppers(d) == {w \in Worker : worker[w].ai = d /\ worker[w].pc \in {"stopper", "stopped"}}

(* A runner has a device from its look-up to its release, and a result     *)
(* from its reading on.                                                    *)
WithDevice == {"check", "compare", "post", "free last", "store", "finish"}
WithResult == {"compare", "post", "free last", "store"}

WorkerInv ==
  \A w \in Worker :
    /\ worker[w].pc = "idle" => worker[w] = Idle
    /\ worker[w].pc # "idle" => worker[w].ai \in Dev
    /\ worker[w].dev # NULL <=> worker[w].pc \in WithDevice
    /\ worker[w].res # NULL => worker[w].pc \in WithResult \cup {"finish"}
    /\ worker[w].pc \in WithResult => worker[w].res # NULL

(* Where there is no autoevent there is nothing of it.                     *)
NoneInv ==
  /\ phase = "new" => \A d \in Dev : ai[d] = NULL
  /\ \A d \in Dev : ai[d] = NULL =>
       /\ \A i \in DOMAIN jobs : jobs[i].ai # d
       /\ \A w \in Worker : worker[w].ai # d
       /\ d \notin released /\ leaked[d] = 0 /\ sched[d] = "none" /\ posted[d] = NULL

(* The reference of a device to its autoevent is the device's, a queued    *)
(* stopper's, a running stopper's, or given back: one of these.            *)
Queued(d) == Places(jobs, "stopper", d)

Token(d) ==
  /\ AtMostOne(Queued(d)) /\ AtMostOne(Stoppers(d))
  /\ InUse(d) => Queued(d) = {} /\ Stoppers(d) = {} /\ d \notin released
  /\ Queued(d) # {} => Stoppers(d) = {} /\ d \notin released
  /\ Stoppers(d) # {} => d \notin released
  /\ ai[d] # NULL => InUse(d) \/ Queued(d) # {} \/ Stoppers(d) # {} \/ d \in released

TokenInv == \A d \in Dev : Token(d)

(* The references to an autoevent: its device's, its runners' and those    *)
(* that runners kept.                                                      *)
Count(d) == (IF d \in released THEN 0 ELSE 1) + Cardinality(Runners(d)) + leaked[d]

Counted(d) ==
  /\ ai[d] = Freed => Count(d) = 0
  /\ ai[d] \in AutoImpl => Count(d) > 0 /\ ai[d].refs = Count(d)

RefsInv == \A d \in Dev : Counted(d)

(* A schedule is active only from the start of the device's autoevent to   *)
(* its stop.                                                               *)
SchedInv ==
  \A d \in Dev : sched[d] = "active" =>
    ~own /\ d \notin released /\ \A w \in Worker : worker[w].ai = d => worker[w].pc # "stopped"

(* With onChange, as long as no two runners of it overlap: one at most is  *)
(* between reading and storing the last result, which is the last posted   *)
(* except while that one replaces it, and what it is about to post is new. *)
Comparers(d) == {w \in Worker : worker[w].ai = d /\ worker[w].pc \in Comparing}

StoresOnChange(d) == \A w \in Comparers(d) : worker[w].pc # "post" => ai[d].onChange

Unrepeated(d) ==
  /\ AtMostOne(Comparers(d))
  /\ ai[d] \in AutoImpl /\ ai[d].onChange =>
       /\ (\A w \in Comparers(d) : worker[w].pc = "post") => ai[d].last = posted[d]
       /\ \A w \in Comparers(d) :
            /\ worker[w].pc = "post" => worker[w].res # posted[d]
            /\ worker[w].pc = "free last" => ai[d].last # Freed
            /\ worker[w].pc # "post" => worker[w].res = posted[d]

ChangeInv ==
  /\ repeated \subseteq overlapped
  /\ crash = "last" => overlapped # {}
  /\ \A d \in Dev : StoresOnChange(d)
  /\ \A d \in Dev \ overlapped : Unrepeated(d)

(* After the stop no runner is queued and none works.                      *)
StopInv ==
  phase = "stopped" =>
    /\ \A i \in DOMAIN jobs : jobs[i].run # "ae_runner"
    /\ \A w \in Worker : worker[w].pc \notin Running \cup {"ae_runner"}
----------------------------------------------------------------------------
(* The queue of jobs                                                       *)

StopJob(d) == [run |-> "stopper", ai |-> d]

LEMMA PlacesAppend ==
  ASSUME NEW q \in Seq(Job), NEW x \in Job
  PROVE  /\ Append(q, x) \in Seq(Job)
         /\ \A run, d : ~(x.run = run /\ x.ai = d)
              => Places(Append(q, x), run, d) = Places(q, run, d)
         /\ Places(q, x.run, x.ai) = {} => /\ AtMostOne(Places(Append(q, x), x.run, x.ai))
                                           /\ Places(Append(q, x), x.run, x.ai) # {}
         /\ \A i \in DOMAIN Append(q, x) : \/ Append(q, x)[i] = x
                                           \/ i \in DOMAIN q /\ Append(q, x)[i] = q[i]
<1> DEFINE r == Append(q, x)
           n == Len(q) + 1
<1>1. /\ r \in Seq(Job) /\ Len(q) \in Nat /\ DOMAIN q = 1..Len(q) /\ Len(r) = n
      /\ r[n] = x /\ \A i \in 1..Len(q) : r[i] = q[i]
  BY AppendProperties, LenProperties
<1>2. DOMAIN r = 1..n
  BY <1>1, LenProperties
<1> HIDE DEF r
<1>3. DOMAIN r = DOMAIN q \cup {n} /\ n \notin DOMAIN q
  BY <1>1, <1>2
<1>4. \A i \in DOMAIN q : r[i] = q[i]
  BY <1>1
<1> HIDE DEF n
<1>5. ASSUME NEW run, NEW d, ~(x.run = run /\ x.ai = d)
      PROVE  Places(r, run, d) = Places(q, run, d)
  BY <1>1, <1>3, <1>4, <1>5 DEF Places
<1>6. ASSUME Places(q, x.run, x.ai) = {} PROVE Places(r, x.run, x.ai) = {n}
  BY <1>1, <1>3, <1>4, <1>6 DEF Places
<1>7. \A i \in DOMAIN r : r[i] = x \/ (i \in DOMAIN q /\ r[i] = q[i])
  BY <1>1, <1>3, <1>4
<1>8. QED
  BY <1>1, <1>5, <1>6, <1>7 DEF AtMostOne, r

LEMMA PlacesTail ==
  ASSUME NEW q \in Seq(Job), q # <<>>
  PROVE  /\ Head(q) \in Job /\ Tail(q) \in Seq(Job)
         /\ \E i \in DOMAIN q : Head(q) = q[i]
         /\ \A i \in DOMAIN Tail(q) : \E j \in DOMAIN q : Tail(q)[i] = q[j]
         /\ \A run, d :
              /\ AtMostOne(Places(q, run, d)) => AtMostOne(Places(Tail(q), run, d))
              /\ Places(q, run, d) = {} => Places(Tail(q), run, d) = {}
              /\ AtMostOne(Places(q, run, d)) /\ Head(q).run = run /\ Head(q).ai = d
                   => Places(q, run, d) # {} /\ Places(Tail(q), run, d) = {}
              /\ ~(Head(q).run = run /\ Head(q).ai = d) /\ Places(q, run, d) # {}
                   => Places(Tail(q), run, d) # {}
<1> DEFINE t == Tail(q)
           x == Head(q)
<1>1. /\ x \in Job /\ t \in Seq(Job) /\ Len(t) = Len(q) - 1
      /\ \A i \in 1..Len(t) : t[i] = q[i + 1]
  BY HeadTailProperties
<1>2. Len(q) \in Nat \ {0} /\ DOMAIN q = 1..Len(q)
  BY EmptySeq, LenProperties
<1>3. DOMAIN t = 1..(Len(q) - 1)
  BY <1>1, LenProperties
<1>4. x = q[1]
  OBVIOUS
<1> HIDE DEF t, x
<1>5. /\ 1 \in DOMAIN q
      /\ \A i \in DOMAIN t : i \in Nat \ {0} /\ i + 1 \in DOMAIN q /\ t[i] = q[i + 1]
      /\ \A i \in DOMAIN q : i # 1 => i \in Nat /\ i - 1 \in DOMAIN t /\ t[i - 1] = q[i]
  BY <1>1, <1>2, <1>3
<1>6. ASSUME NEW run, NEW d, NEW i \in Places(t, run, d)
      PROVE  i \in Nat \ {0} /\ i + 1 \in Places(q, run, d) /\ i + 1 # 1
  BY <1>5 DEF Places
<1>7. ASSUME NEW run, NEW d, AtMostOne(Places(q, run, d)) PROVE AtMostOne(Places(t, run, d))
  <2> SUFFICES ASSUME NEW i \in Places(t, run, d), NEW j \in Places(t, run, d) PROVE i = j
    BY DEF AtMostOne
  <2>1. i + 1 = j + 1 /\ i \in Nat /\ j \in Nat
    BY <1>6, <1>7 DEF AtMostOne
  <2>2. QED
    BY <2>1
<1>8. ASSUME NEW run, NEW d, AtMostOne(Places(q, run, d)), x.run = run, x.ai = d
      PROVE  Places(q, run, d) # {} /\ Places(t, run, d) = {}
  <2>1. 1 \in Places(q, run, d)
    BY <1>4, <1>5, <1>8 DEF Places
  <2>2. QED
    BY <1>6, <1>8, <2>1 DEF AtMostOne
<1>9. ASSUME NEW run, NEW d, ~(x.run = run /\ x.ai = d), Places(q, run, d) # {}
      PROVE  Places(t, run, d) # {}
  <2>1. PICK i \in Places(q, run, d) : TRUE
    BY <1>9
  <2>2. i \in DOMAIN q /\ q[i].run = run /\ q[i].ai = d
    BY DEF Places
  <2>3. i # 1
    BY <1>4, <1>9, <2>2
  <2>4. i - 1 \in DOMAIN t /\ t[i - 1] = q[i]
    BY <1>5, <2>2, <2>3
  <2>5. QED
    BY <2>2, <2>4 DEF Places
<1>10. ASSUME NEW run, NEW d, Places(q, run, d) = {} PROVE Places(t, run, d) = {}
  BY <1>6, <1>10
<1>11. /\ \E i \in DOMAIN q : x = q[i]
       /\ \A i \in DOMAIN t : \E j \in DOMAIN q : t[i] = q[j]
  BY <1>4, <1>5
<1>12. \A run, d :
         /\ AtMostOne(Places(q, run, d)) => AtMostOne(Places(t, run, d))
         /\ Places(q, run, d) = {} => Places(t, run, d) = {}
         /\ AtMostOne(Places(q, run, d)) /\ x.run = run /\ x.ai = d
              => Places(q, run, d) # {} /\ Places(t, run, d) = {}
         /\ ~(x.run = run /\ x.ai = d) /\ Places(q, run, d) # {} => Places(t, run, d) # {}
  BY <1>7, <1>8, <1>9, <1>10
<1>13. QED
  BY <1>1, <1>11, <1>12 DEF t, x

(* The stop of an autoevent queues one job if there is an autoevent.       *)
LEMMA StopQueued ==
  ASSUME NEW q \in Seq(Job), NEW d \in Dev
  PROVE  q \o autoevent_stop(d) = IF ai[d] = NULL THEN q ELSE Append(q, StopJob(d))
<1>1. StopJob(d) \in Job
  BY DEF StopJob, Job
<1>2. CASE ai[d] = NULL
  BY <1>2, ConcatEmptySeq DEF autoevent_stop
<1>3. CASE ai[d] # NULL
  BY <1>1, <1>3, AppendIsConcat DEF autoevent_stop, StopJob
<1>4. QED
  BY <1>2, <1>3

----------------------------------------------------------------------------
(* Types                                                                   *)

(* Who works has an autoevent, and a runner one that is not freed.         *)
LEMMA AtWork ==
  ASSUME TypeOK, WorkerInv, NoneInv, RefsInv, NEW w \in Worker, worker[w].pc # "idle"
  PROVE  /\ worker[w] \in WorkerState /\ worker[w].ai \in Dev
         /\ ai[worker[w].ai] \in AutoImpl \cup {Freed}
         /\ worker[w].pc \in Running => ai[worker[w].ai] \in AutoImpl
<1> DEFINE d == worker[w].ai
<1>1. worker[w] \in WorkerState
  BY DEF TypeOK
<1>2. d \in Dev
  BY DEF WorkerInv
<1>3. ai[d] # NULL
  BY <1>2 DEF NoneInv
<1>4. ai[d] \in AutoImpl \cup {Freed}
  BY <1>2, <1>3 DEF TypeOK
<1>5. ASSUME worker[w].pc \in Running PROVE ai[d] # Freed
  <2>1. w \in Runners(d)
    BY <1>5 DEF Runners
  <2>2. IsFiniteSet(Runners(d))
    BY FS_Subset, AutoEventsAssumptions DEF Runners
  <2>3. Cardinality(Runners(d)) \in Nat /\ Cardinality(Runners(d)) # 0
    BY <2>1, <2>2, FS_CardinalityType, FS_EmptySet
  <2>4. leaked[d] \in Nat
    BY <1>2 DEF TypeOK
  <2>5. (IF d \in released THEN 0 ELSE 1) + Cardinality(Runners(d)) + leaked[d] # 0
    BY <2>3, <2>4
  <2>6. QED
    BY <1>2, <2>5 DEF RefsInv, Counted, Count
<1>6. QED
  BY <1>1, <1>2, <1>4, <1>5

LEMMA InitTypes == Init => TypeOK
<1>1. Idle \in WorkerState
  BY DEF Idle, WorkerState, PCs
<1>2. SUFFICES ASSUME Init PROVE TypeOK
  OBVIOUS
<1>3. worker \in [Worker -> WorkerState]
  BY <1>1, <1>2 DEF Init
<1>4. jobs \in Seq(Job)
  BY <1>2, EmptySeq DEF Init
<1>5. /\ ai \in [Dev -> AutoImpl \cup {NULL, Freed}]
      /\ sched \in [Dev -> {"none", "active", "removed", "deleted"}]
      /\ driver \in [Dev -> {"none", "started", "stopped", "stopped NULL"}]
      /\ leaked \in [Dev -> Nat] /\ posted \in [Dev -> Value \cup {NULL}]
  BY <1>2 DEF Init
<1>6. QED
  BY <1>2, <1>3, <1>4, <1>5 DEF Init, TypeOK

LEMMA StopType ==
  ASSUME NEW q \in Seq(Job), NEW d \in Dev
  PROVE  q \o autoevent_stop(d) \in Seq(Job)
<1>1. StopJob(d) \in Job
  BY DEF StopJob, Job
<1>2. QED
  BY <1>1, StopQueued, PlacesAppend

LEMMA StartQueued ==
  ASSUME NEW q \in Seq(Job), NEW d \in Dev
  PROVE  /\ q \o autoevent_start(d) = IF own THEN Append(q, [run |-> "starter", ai |-> d]) ELSE q
         /\ q \o autoevent_start(d) \in Seq(Job)
<1>1. [run |-> "starter", ai |-> d] \in Job
  BY DEF Job
<1>2. CASE ~own
  BY <1>2, ConcatEmptySeq DEF autoevent_start
<1>3. CASE own
  BY <1>1, <1>3, AppendIsConcat, PlacesAppend DEF autoevent_start
<1>4. QED
  BY <1>2, <1>3

LEMMA Parts ==
  ASSUME TypeOK
  PROVE  /\ worker \in [Worker -> WorkerState]
         /\ ai \in [Dev -> AutoImpl \cup {NULL, Freed}]
         /\ sched \in [Dev -> {"none", "active", "removed", "deleted"}]
         /\ driver \in [Dev -> {"none", "started", "stopped", "stopped NULL"}]
         /\ leaked \in [Dev -> Nat] /\ posted \in [Dev -> Value \cup {NULL}]
         /\ jobs \in Seq(Job) /\ fires \in Nat /\ current \in Dev \cup {NULL}
BY DEF TypeOK

(* The worker w goes on to the state with these fields.                    *)
Move(w, pc, d, dev, res) ==
  /\ worker' \in [Worker -> WorkerState]
  /\ worker'[w].pc = pc /\ worker'[w].ai = d /\ worker'[w].dev = dev /\ worker'[w].res = res
  /\ \A v \in Worker \ {w} : worker'[v] = worker[v]

(* The autoevent d gets this count and this last result, or is freed.      *)
SetRefs(d, refs, last) ==
  /\ ai' \in [Dev -> AutoImpl \cup {NULL, Freed}]
  /\ ai'[d] \in AutoImpl
  /\ ai'[d].refs = refs /\ ai'[d].last = last /\ ai'[d].onChange = ai[d].onChange
  /\ \A e \in Dev \ {d} : ai'[e] = ai[e]

SetFreed(d) ==
  /\ ai' \in [Dev -> AutoImpl \cup {NULL, Freed}]
  /\ ai'[d] = Freed
  /\ \A e \in Dev \ {d} : ai'[e] = ai[e]

LEMMA PcMove ==
  ASSUME TypeOK, NEW w \in Worker, NEW pc \in PCs, worker' = [worker EXCEPT ![w].pc = pc]
  PROVE  Move(w, pc, worker[w].ai, worker[w].dev, worker[w].res)
BY Parts DEF WorkerState, Move

LEMMA DeviceMove ==
  ASSUME TypeOK, NEW w \in Worker, NEW pc \in PCs, NEW d \in Dev \cup {NULL},
         worker' = [worker EXCEPT ![w].dev = d, ![w].pc = pc]
  PROVE  Move(w, pc, worker[w].ai, d, worker[w].res)
BY ZenonT(60), Parts DEF WorkerState, Move

LEMMA ResultMove ==
  ASSUME TypeOK, NEW w \in Worker, NEW pc \in PCs, NEW r \in Value \cup {NULL},
         worker' = [worker EXCEPT ![w].res = r, ![w].pc = pc]
  PROVE  Move(w, pc, worker[w].ai, worker[w].dev, r)
BY ZenonT(60), Parts DEF WorkerState, Move

LEMMA FinishMove ==
  ASSUME TypeOK, NEW w \in Worker, NEW pc \in PCs,
         worker' = [worker EXCEPT ![w] = [Idle EXCEPT !.pc = pc, !.ai = worker[w].ai]]
  PROVE  Move(w, pc, worker[w].ai, NULL, NULL)
<1> DEFINE s == [Idle EXCEPT !.pc = pc, !.ai = worker[w].ai]
<1>1. worker[w].ai \in Dev \cup {NULL}
  BY Parts DEF WorkerState
<1>2. /\ s \in WorkerState
      /\ s.pc = pc /\ s.ai = worker[w].ai /\ s.dev = NULL /\ s.res = NULL
  BY <1>1 DEF Idle, WorkerState
<1> HIDE DEF s
<1>3. worker' = [worker EXCEPT ![w] = s]
  BY DEF s
<1>4. QED
  BY ZenonT(60), <1>2, <1>3, Parts DEF Move

LEMMA TakeMove ==
  ASSUME TypeOK, NEW w \in Worker, NEW pc \in PCs, NEW d \in Dev,
         worker' = [worker EXCEPT ![w].pc = pc, ![w].ai = d]
  PROVE  Move(w, pc, d, worker[w].dev, worker[w].res)
BY ZenonT(60), Parts DEF WorkerState, Move

LEMMA IdleMove ==
  ASSUME TypeOK, NEW w \in Worker, worker' = [worker EXCEPT ![w] = Idle]
  PROVE  Move(w, "idle", NULL, NULL, NULL) /\ worker'[w] = Idle
<1>1. Idle \in WorkerState
  BY DEF Idle, WorkerState, PCs
<1>2. QED
  BY <1>1, Parts DEF Move, Idle

LEMMA IncRefs ==
  ASSUME TypeOK, NEW d \in Dev, ai[d] \in AutoImpl, ai' = [ai EXCEPT ![d].refs = @ + 1]
  PROVE  SetRefs(d, ai[d].refs + 1, ai[d].last)
<1> DEFINE a == [ai[d] EXCEPT !.refs = @ + 1]
<1>1. /\ a \in AutoImpl
      /\ a.refs = ai[d].refs + 1 /\ a.last = ai[d].last /\ a.onChange = ai[d].onChange
  BY DEF AutoImpl
<1>2. ai' = [ai EXCEPT ![d] = a]
  BY Parts
<1> HIDE DEF a
<1>3. QED
  BY ZenonT(60), <1>1, <1>2, Parts DEF SetRefs

LEMMA SetLast ==
  ASSUME TypeOK, NEW d \in Dev, ai[d] \in AutoImpl, NEW x \in Value \cup {NULL, Freed},
         ai' = [ai EXCEPT ![d].last = x]
  PROVE  SetRefs(d, ai[d].refs, x)
BY Parts DEF AutoImpl, SetRefs

LEMMA SetHandle ==
  ASSUME TypeOK, NEW d \in Dev, ai[d] \in AutoImpl, ai' = [ai EXCEPT ![d].handle = TRUE]
  PROVE  SetRefs(d, ai[d].refs, ai[d].last)
BY Parts DEF AutoImpl, SetRefs

(* The runners of an autoevent are finitely many, so its references are a  *)
(* number, and an autoevent that a runner has a reference to is not freed. *)
LEMMA RunnersFinite ==
  ASSUME NEW d \in Dev
  PROVE  IsFiniteSet(Runners(d)) /\ Cardinality(Runners(d)) \in Nat
<1>1. IsFiniteSet(Runners(d))
  BY FS_Subset, AutoEventsAssumptions DEF Runners
<1>2. QED
  BY <1>1, FS_CardinalityType

LEMMA Released ==
  ASSUME TypeOK, RefsInv, NEW d \in Dev, ai[d] \in AutoImpl, autoimpl_release(d)
  PROVE  /\ ai[d].refs \in Nat \ {0}
         /\ ai[d].refs = 1 => SetFreed(d)
         /\ ai[d].refs # 1 => SetRefs(d, ai[d].refs - 1, ai[d].last)
<1>1. ai[d].refs \in Nat
  BY DEF AutoImpl
<1>2. Cardinality(Runners(d)) \in Nat /\ leaked[d] \in Nat
  BY RunnersFinite, Parts
<1>3. ai[d].refs # 0
  BY <1>2 DEF RefsInv, Counted, Count
<1>4. ai[d].refs = 1 => SetFreed(d)
  BY Parts DEF SetFreed, autoimpl_release
<1>5. ASSUME ai[d].refs # 1 PROVE SetRefs(d, ai[d].refs - 1, ai[d].last)
  <2>1. ai' = [ai EXCEPT ![d].refs = @ - 1] /\ ai[d].refs - 1 \in Nat
    BY <1>1, <1>3, <1>5 DEF autoimpl_release
  <2>2. QED
    BY <2>1, Parts DEF SetRefs, AutoImpl
<1>6. QED
  BY <1>1, <1>3, <1>4, <1>5

LEMMA TypeService ==
  ASSUME TypeOK, Service
  PROVE  TypeOK'
<1> USE DEF lifeUnchanged, mapVars, ghosts
<1>1. CASE register_autoevent_handlers \/ Start \/ Stop \/ Stopped
  BY <1>1 DEF TypeOK, register_autoevent_handlers, Start, Stop, Stopped
<1>2. CASE Hold
  BY <1>2 DEF TypeOK, Hold
<1>3. CASE Clear
  <2>1. current \in Dev /\ jobs \in Seq(Job)
    BY <1>3 DEF Clear, TypeOK
  <2>2. jobs' \in Seq(Job)
    BY <1>3, <2>1, StopType DEF Clear
  <2>3. QED
    BY <1>3, <2>2 DEF TypeOK, Clear
<1>4. ASSUME NEW n \in Dev \cup {NULL}, NEW started \in BOOLEAN, NEW onChange \in BOOLEAN,
             ChangeMap(n, started, onChange)
      PROVE  TypeOK'
  <2> DEFINE q == IF current # NULL /\ current \notin held /\ Users(current) = {}
                    THEN jobs \o autoevent_stop(current) ELSE jobs
             r == IF n # NULL /\ started THEN autoevent_start(n) ELSE <<>>
  <2>1. current \in Dev \cup {NULL} /\ jobs \in Seq(Job)
    BY DEF TypeOK
  <2>2. q \in Seq(Job)
    BY <2>1, StopType
  <2>3. jobs' = q \o r
    BY <1>4 DEF ChangeMap
  <2> HIDE DEF q
  <2>4. jobs' \in Seq(Job)
    BY <2>2, <2>3, StartQueued, ConcatEmptySeq
  <2>5. new(onChange) \in AutoImpl
    BY DEF new, AutoImpl
  <2>6. /\ ai' \in [Dev -> AutoImpl \cup {NULL, Freed}]
        /\ sched' \in [Dev -> {"none", "active", "removed", "deleted"}]
    <3>1. CASE n = NULL \/ ~started
      BY <1>4, <3>1 DEF ChangeMap, Starts, TypeOK
    <3>2. CASE n # NULL /\ started
      <4>1. /\ n \in Dev /\ ai' = [ai EXCEPT ![n] = new(onChange)]
            /\ sched' = IF own THEN sched ELSE [sched EXCEPT ![n] = "active"]
        BY <1>4, <3>2 DEF ChangeMap, Starts
      <4>2. QED
        BY <2>5, <4>1, Parts
    <3>3. QED
      BY <3>1, <3>2
  <2>7. QED
    BY <1>4, <2>4, <2>6 DEF TypeOK, ChangeMap
<1>5. ASSUME NEW d \in Dev, LetGo(d) PROVE TypeOK'
  <2>1. jobs' \in Seq(Job)
    BY <1>5, StopType DEF LetGo, TypeOK
  <2>2. QED
    BY <1>5, <2>1 DEF TypeOK, LetGo
<1>6. QED
  BY <1>1, <1>2, <1>3, <1>4, <1>5 DEF Service

----------------------------------------------------------------------------
(* What a step of a thread of the pool does                                *)

Basic == TypeOK /\ WorkerInv /\ NoneInv /\ RefsInv

service == <<mapVars, own, phase, fires>>

LEMMA WorkerHas ==
  ASSUME Basic, NEW w \in Worker, NEW d, d = worker[w].ai, worker[w].pc # "idle"
  PROVE  /\ worker[w] \in WorkerState /\ d \in Dev /\ ai[d] \in AutoImpl \cup {Freed}
         /\ worker[w].pc \in Running => ai[d] \in AutoImpl
         /\ worker[w].pc \in WithDevice => worker[w].dev \in Dev
         /\ worker[w].pc \notin WithDevice => worker[w].dev = NULL
         /\ worker[w].pc \in WithResult => worker[w].res \in Value
<1>1. /\ worker[w] \in WorkerState /\ d \in Dev /\ ai[d] \in AutoImpl \cup {Freed}
      /\ worker[w].pc \in Running => ai[d] \in AutoImpl
  BY AtWork DEF Basic
<1>2. worker[w].dev \in Dev \cup {NULL} /\ worker[w].res \in Value \cup {NULL}
  BY <1>1 DEF WorkerState
<1>3. QED
  BY <1>1, <1>2 DEF Basic, WorkerInv

LEMMA TakeEffect ==
  ASSUME Basic, NEW w \in Worker, Take(w)
  PROVE  /\ jobs # <<>> /\ jobs \in Seq(Job) /\ jobs' = Tail(jobs) /\ Head(jobs) \in Job
         /\ worker[w] = Idle /\ Move(w, Head(jobs).run, Head(jobs).ai, NULL, NULL)
         /\ UNCHANGED <<service, ai, sched, driver, ghosts, crash>>
<1>1. jobs # <<>> /\ jobs' = Tail(jobs) /\ worker[w] = Idle
  BY DEF Take
<1>2. jobs \in Seq(Job) /\ TypeOK
  BY Parts DEF Basic
<1>3. Head(jobs) \in Job
  BY <1>1, <1>2, PlacesTail
<1>4. Head(jobs).run \in PCs /\ Head(jobs).ai \in Dev
  BY <1>3 DEF Job, PCs
<1>5. Move(w, Head(jobs).run, Head(jobs).ai, worker[w].dev, worker[w].res)
  BY <1>2, <1>4, TakeMove DEF Take
<1>6. worker[w].dev = NULL /\ worker[w].res = NULL
  BY <1>1 DEF Idle
<1>7. QED
  BY <1>1, <1>2, <1>3, <1>5, <1>6 DEF Take, service

LEMMA BeginEffect ==
  ASSUME Basic, NEW w \in Worker, Begin(w), NEW d, d = worker[w].ai
  PROVE  /\ worker[w].pc = "ae_runner"
         /\ UNCHANGED <<service, sched, jobs, driver, ghosts>>
         /\ \/ crash' = "runner begins" /\ UNCHANGED <<ai, worker>>
            \/ /\ ai[d] \in AutoImpl /\ SetRefs(d, ai[d].refs + 1, ai[d].last)
               /\ Move(w, "lookup", d, worker[w].dev, worker[w].res) /\ crash' = crash
<1>1. worker[w].pc = "ae_runner" /\ UNCHANGED <<service, sched, jobs, driver, ghosts>>
  BY DEF Begin, At, runnerUnchanged, service
<1>2. d \in Dev /\ ai[d] \in AutoImpl \cup {Freed} /\ TypeOK
  BY <1>1, WorkerHas DEF Basic
<1>3. ai[d] = Freed => crash' = "runner begins" /\ UNCHANGED <<ai, worker>>
  BY DEF Begin
<1>4. ASSUME ai[d] # Freed
      PROVE  /\ ai[d] \in AutoImpl /\ SetRefs(d, ai[d].refs + 1, ai[d].last)
             /\ Move(w, "lookup", d, worker[w].dev, worker[w].res) /\ crash' = crash
  <2>1. /\ ai' = [ai EXCEPT ![d].refs = @ + 1] /\ crash' = crash
        /\ worker' = [worker EXCEPT ![w].pc = "lookup"]
    BY <1>4 DEF Begin, GoTo
  <2>2. "lookup" \in PCs
    BY DEF PCs, Running
  <2>3. QED
    BY <1>2, <1>4, <2>1, <2>2, IncRefs, PcMove
<1>5. QED
  BY <1>1, <1>3, <1>4

LEMMA LookUpEffect ==
  ASSUME Basic, NEW w \in Worker, LookUp(w), NEW d, d = worker[w].ai
  PROVE  /\ worker[w].pc = "lookup" /\ current \in Dev \cup {NULL}
         /\ UNCHANGED <<service, ai, sched, jobs, driver, ghosts>>
         /\ \/ crash' = "lookup" /\ UNCHANGED worker
            \/ /\ Move(w, IF current = NULL THEN "unknown" ELSE "check", d, current, worker[w].res)
               /\ crash' = crash
<1>1. worker[w].pc = "lookup" /\ UNCHANGED <<service, ai, sched, jobs, driver, ghosts>>
  BY DEF LookUp, At, runnerUnchanged, service
<1>2. TypeOK /\ current \in Dev \cup {NULL}
  BY Parts DEF Basic
<1>3. dangling => crash' = "lookup" /\ UNCHANGED worker
  BY DEF LookUp
<1>4. ASSUME ~dangling
      PROVE  /\ Move(w, IF current = NULL THEN "unknown" ELSE "check", d, current, worker[w].res)
             /\ crash' = crash
  <2> DEFINE pc == IF current = NULL THEN "unknown" ELSE "check"
  <2>1. /\ worker' = [worker EXCEPT ![w].dev = current, ![w].pc = pc]
        /\ crash' = crash
    BY <1>4 DEF LookUp
  <2>2. pc \in PCs
    BY DEF PCs, Running
  <2> HIDE DEF pc
  <2>3. Move(w, pc, d, current, worker[w].res)
    BY <1>2, <2>1, <2>2, DeviceMove
  <2>4. QED
    BY <2>1, <2>3 DEF pc
<1>5. QED
  BY <1>1, <1>2, <1>3, <1>4

LEMMA RefusedEffect ==
  ASSUME Basic, NEW w \in Worker, Refused(w), NEW d, d = worker[w].ai
  PROVE  /\ worker[w].pc = "check" /\ jobs' = Dropped(w)
         /\ leaked' = [leaked EXCEPT ![d] = @ + 1]
         /\ Move(w, "idle", NULL, NULL, NULL) /\ worker'[w] = Idle
         /\ UNCHANGED <<service, ai, sched, driver, released, overlapped, repeated, posted, crash>>
<1>1. TypeOK
  BY DEF Basic
<1>2. worker' = [worker EXCEPT ![w] = Idle]
  BY DEF Refused
<1>3. QED
  BY <1>1, <1>2, IdleMove DEF Refused, At, runnerUnchanged, service

LEMMA GetEffect ==
  ASSUME Basic, NEW w \in Worker, NEW r \in Value \cup {NULL}, Get(w, r), NEW d, d = worker[w].ai
  PROVE  /\ worker[w].pc = "check"
         /\ Move(w, IF r = NULL THEN "finish" ELSE "compare", d, worker[w].dev, r)
         /\ UNCHANGED <<service, ai, sched, jobs, driver, ghosts, crash>>
<1> DEFINE pc == IF r = NULL THEN "finish" ELSE "compare"
<1>1. TypeOK
  BY DEF Basic
<1>2. worker' = [worker EXCEPT ![w].res = r, ![w].pc = pc]
  BY DEF Get
<1>3. pc \in PCs
  BY DEF PCs, Running
<1> HIDE DEF pc
<1>4. Move(w, pc, d, worker[w].dev, r)
  BY <1>1, <1>2, <1>3, ResultMove
<1>5. worker[w].pc = "check" /\ UNCHANGED <<service, ai, sched, jobs, driver, ghosts, crash>>
  BY DEF Get, At, runnerUnchanged, service
<1>6. QED
  BY <1>4, <1>5 DEF pc

(* Whether another runner of the same autoevent is between reading and     *)
(* storing the last result.                                                *)
Overlaps(w, d) == \E v \in Runners(d) \ {w} : worker[v].pc \in Comparing

LEMMA CompareEffect ==
  ASSUME Basic, NEW w \in Worker, Compare(w), NEW d, d = worker[w].ai
  PROVE  /\ worker[w].pc = "compare"
         /\ overlapped' = IF Overlaps(w, d) THEN overlapped \cup {d} ELSE overlapped
         /\ UNCHANGED <<service, ai, sched, jobs, driver, leaked, released, repeated, posted>>
         /\ \/ /\ crash' = "last" /\ ai[d].onChange /\ ai[d].last = Freed /\ UNCHANGED worker
            \/ /\ crash' = crash /\ Move(w, "finish", d, worker[w].dev, worker[w].res)
            \/ /\ crash' = crash /\ Move(w, "post", d, worker[w].dev, worker[w].res)
               /\ ai[d].onChange => ai[d].last # worker[w].res
<1>1. /\ worker[w].pc = "compare"
      /\ overlapped' = IF Overlaps(w, d) THEN overlapped \cup {d} ELSE overlapped
      /\ UNCHANGED <<service, ai, sched, jobs, driver, leaked, released, repeated, posted>>
  BY DEF Compare, At, runnerUnchanged, service, Overlaps
<1>2. TypeOK /\ "finish" \in PCs /\ "post" \in PCs
  BY DEF Basic, PCs, Running
<1>3. CASE ai[d].onChange /\ ai[d].last = Freed
  BY <1>1, <1>3 DEF Compare
<1>4. CASE ~(ai[d].onChange /\ ai[d].last = Freed)
  <2>1. CASE ai[d].onChange /\ ai[d].last = worker[w].res
    <3>1. worker' = [worker EXCEPT ![w].pc = "finish"] /\ crash' = crash
      BY <1>4, <2>1 DEF Compare, GoTo
    <3>2. QED
      BY <1>1, <1>2, <3>1, PcMove
  <2>2. CASE ~(ai[d].onChange /\ ai[d].last = worker[w].res)
    <3>1. worker' = [worker EXCEPT ![w].pc = "post"] /\ crash' = crash
      BY <1>4, <2>2 DEF Compare, GoTo
    <3>2. Move(w, "post", d, worker[w].dev, worker[w].res)
      BY <1>2, <3>1, PcMove
    <3>3. QED
      BY <1>1, <2>2, <3>1, <3>2
  <2>3. QED
    BY <2>1, <2>2
<1>5. QED
  BY <1>3, <1>4

LEMMA AssertionEffect ==
  ASSUME Basic, NEW w \in Worker, AssertionFailed(w), NEW d, d = worker[w].ai
  PROVE  /\ worker[w].pc = "post" /\ Move(w, "finish", d, worker[w].dev, worker[w].res)
         /\ UNCHANGED <<service, ai, sched, jobs, driver, ghosts, crash>>
<1>1. TypeOK /\ "finish" \in PCs
  BY DEF Basic, PCs, Running
<1>2. worker' = [worker EXCEPT ![w].pc = "finish"]
  BY DEF AssertionFailed, GoTo
<1>3. QED
  BY <1>1, <1>2, PcMove DEF AssertionFailed, At, runnerUnchanged, service

LEMMA PostEffect ==
  ASSUME Basic, NEW w \in Worker, NEW ok \in BOOLEAN, Post(w, ok), NEW d, d = worker[w].ai
  PROVE  /\ worker[w].pc = "post"
         /\ UNCHANGED <<service, ai, sched, jobs, driver, leaked, released, overlapped, crash>>
         /\ \/ /\ ai[d].onChange /\ Move(w, "free last", d, worker[w].dev, worker[w].res)
               /\ posted' = [posted EXCEPT ![d] = worker[w].res]
               /\ repeated' = IF posted[d] = worker[w].res THEN repeated \cup {d} ELSE repeated
            \/ /\ Move(w, "finish", d, worker[w].dev, worker[w].res)
               /\ UNCHANGED <<posted, repeated>>
<1>1. /\ worker[w].pc = "post"
      /\ UNCHANGED <<service, ai, sched, jobs, driver, leaked, released, overlapped, crash>>
  BY DEF Post, At, runnerUnchanged, service
<1>2. TypeOK /\ "finish" \in PCs /\ "free last" \in PCs
  BY DEF Basic, PCs, Running
<1>3. CASE ok /\ ai[d].onChange
  <2>1. /\ worker' = [worker EXCEPT ![w].pc = "free last"]
        /\ posted' = [posted EXCEPT ![d] = worker[w].res]
        /\ repeated' = IF posted[d] = worker[w].res THEN repeated \cup {d} ELSE repeated
    BY <1>3 DEF Post, GoTo
  <2>2. QED
    BY <1>1, <1>2, <1>3, <2>1, PcMove
<1>4. CASE ~(ok /\ ai[d].onChange)
  <2>1. worker' = [worker EXCEPT ![w].pc = "finish"] /\ UNCHANGED <<posted, repeated>>
    BY <1>4 DEF Post, GoTo
  <2>2. QED
    BY <1>1, <1>2, <2>1, PcMove
<1>5. QED
  BY <1>3, <1>4

LEMMA FreeLastEffect ==
  ASSUME Basic, NEW w \in Worker, FreeLast(w), NEW d, d = worker[w].ai
  PROVE  /\ worker[w].pc = "free last"
         /\ UNCHANGED <<service, sched, jobs, driver, ghosts>>
         /\ \/ crash' = "last" /\ ai[d].last = Freed /\ UNCHANGED <<ai, worker>>
            \/ /\ crash' = crash /\ Move(w, "store", d, worker[w].dev, worker[w].res)
               /\ \E x \in Value \cup {NULL, Freed} : SetRefs(d, ai[d].refs, x)
<1>1. worker[w].pc = "free last" /\ UNCHANGED <<service, sched, jobs, driver, ghosts>>
  BY DEF FreeLast, At, runnerUnchanged, service
<1>2. TypeOK /\ d \in Dev /\ ai[d] \in AutoImpl /\ "store" \in PCs
  BY <1>1, WorkerHas DEF Basic, PCs, Running
<1>3. ai[d].last = Freed => crash' = "last" /\ UNCHANGED <<ai, worker>>
  BY DEF FreeLast
<1>4. ASSUME ai[d].last # Freed
      PROVE  /\ crash' = crash /\ Move(w, "store", d, worker[w].dev, worker[w].res)
             /\ \E x \in Value \cup {NULL, Freed} : SetRefs(d, ai[d].refs, x)
  <2> DEFINE x == IF ai[d].last = NULL THEN NULL ELSE Freed
  <2>1. /\ worker' = [worker EXCEPT ![w].pc = "store"] /\ crash' = crash
        /\ ai' = [ai EXCEPT ![d].last = x]
    BY <1>4 DEF FreeLast, GoTo
  <2>2. x \in Value \cup {NULL, Freed}
    OBVIOUS
  <2> HIDE DEF x
  <2>3. SetRefs(d, ai[d].refs, x)
    BY <1>2, <2>1, <2>2, SetLast
  <2>4. Move(w, "store", d, worker[w].dev, worker[w].res)
    BY <1>2, <2>1, PcMove
  <2>5. QED
    BY <2>1, <2>2, <2>3, <2>4
<1>5. QED
  BY <1>1, <1>3, <1>4

LEMMA StoreLastEffect ==
  ASSUME Basic, NEW w \in Worker, StoreLast(w), NEW d, d = worker[w].ai
  PROVE  /\ worker[w].pc = "store"
         /\ UNCHANGED <<service, sched, jobs, driver, ghosts, crash>>
         /\ Move(w, "finish", d, worker[w].dev, worker[w].res)
         /\ SetRefs(d, ai[d].refs, worker[w].res)
<1>1. worker[w].pc = "store" /\ UNCHANGED <<service, sched, jobs, driver, ghosts, crash>>
  BY DEF StoreLast, At, runnerUnchanged, service
<1>2. /\ TypeOK /\ d \in Dev /\ ai[d] \in AutoImpl /\ "finish" \in PCs
      /\ worker[w].res \in Value \cup {NULL, Freed}
  BY <1>1, WorkerHas DEF Basic, PCs, Running, WithResult
<1>3. /\ worker' = [worker EXCEPT ![w].pc = "finish"]
      /\ ai' = [ai EXCEPT ![d].last = worker[w].res]
  BY DEF StoreLast, GoTo
<1>4. SetRefs(d, ai[d].refs, worker[w].res)
  BY <1>2, <1>3, SetLast
<1>5. QED
  BY <1>1, <1>2, <1>3, <1>4, PcMove

LEMMA FinishEffect ==
  ASSUME Basic, NEW w \in Worker, Finish(w), NEW d, d = worker[w].ai
  PROVE  /\ worker[w].pc = "finish" /\ jobs' = Dropped(w)
         /\ Move(w, "release", d, NULL, NULL)
         /\ UNCHANGED <<service, ai, sched, driver, ghosts, crash>>
<1>1. TypeOK /\ "release" \in PCs
  BY DEF Basic, PCs, Running
<1>2. worker' = [worker EXCEPT ![w] = [Idle EXCEPT !.pc = "release", !.ai = worker[w].ai]]
  BY DEF Finish
<1>3. Move(w, "release", d, NULL, NULL)
  BY <1>1, <1>2, FinishMove
<1>4. QED
  BY <1>3 DEF Finish, At, runnerUnchanged, service

LEMMA UnknownEffect ==
  ASSUME Basic, NEW w \in Worker, Unknown(w), NEW d, d = worker[w].ai
  PROVE  /\ worker[w].pc = "unknown"
         /\ UNCHANGED <<service, ai, jobs, driver, ghosts>>
         /\ \/ crash' = "schedule" /\ UNCHANGED <<sched, worker>>
            \/ /\ crash' = crash /\ sched' = [sched EXCEPT ![d] = "removed"]
               /\ Move(w, "release", d, worker[w].dev, worker[w].res)
<1>1. worker[w].pc = "unknown" /\ UNCHANGED <<service, ai, jobs, driver, ghosts>>
  BY DEF Unknown, At, runnerUnchanged, service
<1>2. TypeOK /\ "release" \in PCs
  BY DEF Basic, PCs, Running
<1>3. CASE sched[d] = "deleted"
  BY <1>1, <1>3 DEF Unknown
<1>4. CASE sched[d] # "deleted"
  <2>1. /\ crash' = crash /\ sched' = [sched EXCEPT ![d] = "removed"]
        /\ worker' = [worker EXCEPT ![w].pc = "release"]
    BY <1>4 DEF Unknown, GoTo
  <2>2. QED
    BY <1>1, <1>2, <2>1, PcMove
<1>5. QED
  BY <1>3, <1>4

LEMMA EndEffect ==
  ASSUME Basic, NEW w \in Worker, EndRunner(w), NEW d, d = worker[w].ai
  PROVE  /\ worker[w].pc = "release" /\ autoimpl_release(d)
         /\ Move(w, "idle", NULL, NULL, NULL) /\ worker'[w] = Idle
         /\ UNCHANGED <<service, sched, jobs, driver, ghosts, crash>>
<1>1. TypeOK
  BY DEF Basic
<1>2. worker' = [worker EXCEPT ![w] = Idle]
  BY DEF EndRunner
<1>3. QED
  BY <1>1, <1>2, IdleMove DEF EndRunner, At, runnerUnchanged, service

LEMMA StarterEffect ==
  ASSUME Basic, NEW w \in Worker, starter(w), NEW d, d = worker[w].ai
  PROVE  /\ worker[w].pc = "starter"
         /\ UNCHANGED <<service, ai, sched, jobs, ghosts>>
         /\ \/ crash' = "starter" /\ UNCHANGED <<worker, driver>>
            \/ /\ crash' = crash /\ driver' = [driver EXCEPT ![d] = "started"]
               /\ Move(w, "started", d, worker[w].dev, worker[w].res)
<1>1. worker[w].pc = "starter" /\ UNCHANGED <<service, ai, sched, jobs, ghosts>>
  BY DEF starter, At, starterUnchanged, service, ghosts
<1>2. TypeOK /\ "started" \in PCs
  BY DEF Basic, PCs
<1>3. CASE ai[d] = Freed
  BY <1>1, <1>3 DEF starter
<1>4. CASE ai[d] # Freed
  <2>1. /\ crash' = crash /\ driver' = [driver EXCEPT ![d] = "started"]
        /\ worker' = [worker EXCEPT ![w].pc = "started"]
    BY <1>4 DEF starter, GoTo
  <2>2. QED
    BY <1>1, <1>2, <2>1, PcMove
<1>5. QED
  BY <1>3, <1>4

LEMMA StoreHandleEffect ==
  ASSUME Basic, NEW w \in Worker, StoreHandle(w), NEW d, d = worker[w].ai
  PROVE  /\ worker[w].pc = "started"
         /\ UNCHANGED <<service, sched, jobs, driver, ghosts>>
         /\ \/ crash' = "starter" /\ UNCHANGED <<ai, worker>>
            \/ /\ crash' = crash /\ ai[d] \in AutoImpl /\ SetRefs(d, ai[d].refs, ai[d].last)
               /\ Move(w, "idle", NULL, NULL, NULL) /\ worker'[w] = Idle
<1>1. worker[w].pc = "started" /\ UNCHANGED <<service, sched, jobs, driver, ghosts>>
  BY DEF StoreHandle, At, starterUnchanged, service, ghosts
<1>2. TypeOK /\ d \in Dev /\ ai[d] \in AutoImpl \cup {Freed}
  BY <1>1, WorkerHas DEF Basic
<1>3. CASE ai[d] = Freed
  BY <1>1, <1>3 DEF StoreHandle
<1>4. CASE ai[d] # Freed
  <2>1. /\ crash' = crash /\ ai' = [ai EXCEPT ![d].handle = TRUE]
        /\ worker' = [worker EXCEPT ![w] = Idle]
    BY <1>4 DEF StoreHandle
  <2>2. SetRefs(d, ai[d].refs, ai[d].last)
    BY <1>2, <1>4, <2>1, SetHandle
  <2>3. QED
    BY <1>1, <1>2, <1>4, <2>1, <2>2, IdleMove
<1>5. QED
  BY <1>3, <1>4

LEMMA StopperEffect ==
  ASSUME Basic, NEW w \in Worker, stopper(w), NEW d, d = worker[w].ai
  PROVE  /\ worker[w].pc = "stopper"
         /\ UNCHANGED <<service, ai, jobs, ghosts>>
         /\ \/ crash' = "stopper" /\ ai[d] = Freed /\ UNCHANGED <<sched, driver, worker>>
            \/ /\ crash' = crash
               /\ sched' = IF own THEN sched ELSE [sched EXCEPT ![d] = "deleted"]
               /\ driver' \in [Dev -> {"none", "started", "stopped", "stopped NULL"}]
               /\ Move(w, "stopped", d, worker[w].dev, worker[w].res)
<1>1. worker[w].pc = "stopper" /\ UNCHANGED <<service, ai, jobs, ghosts>>
  BY DEF stopper, At, starterUnchanged, service, ghosts
<1>2. TypeOK /\ "stopped" \in PCs
  BY DEF Basic, PCs
<1>3. CASE ai[d] = Freed
  BY <1>1, <1>3 DEF stopper
<1>4. CASE ai[d] # Freed
  <2>1. crash' = crash /\ worker' = [worker EXCEPT ![w].pc = "stopped"]
    BY <1>4 DEF stopper, GoTo
  <2>2. sched' = IF own THEN sched ELSE [sched EXCEPT ![d] = "deleted"]
    BY <1>4 DEF stopper
  <2>3. driver' \in [Dev -> {"none", "started", "stopped", "stopped NULL"}]
    BY <1>2, <1>4, Parts DEF stopper
  <2>4. QED
    BY <1>1, <1>2, <2>1, <2>2, <2>3, PcMove
<1>5. QED
  BY <1>3, <1>4

LEMMA StopperReleasesEffect ==
  ASSUME Basic, NEW w \in Worker, StopperReleases(w), NEW d, d = worker[w].ai
  PROVE  /\ worker[w].pc = "stopped" /\ autoimpl_release(d) /\ released' = released \cup {d}
         /\ Move(w, "idle", NULL, NULL, NULL) /\ worker'[w] = Idle
         /\ UNCHANGED <<service, sched, jobs, driver, leaked, overlapped, repeated, posted, crash>>
<1>1. TypeOK
  BY DEF Basic
<1>2. worker' = [worker EXCEPT ![w] = Idle]
  BY DEF StopperReleases
<1>3. QED
  BY <1>1, <1>2, IdleMove DEF StopperReleases, At, starterUnchanged, service

(* The stopper has the device's reference.                                 *)
LEMMA StopperHas ==
  ASSUME Basic, TokenInv, NEW w \in Worker, NEW d, d = worker[w].ai,
         worker[w].pc \in {"stopper", "stopped"}
  PROVE  d \in Dev /\ ai[d] \in AutoImpl /\ d \notin released /\ w \in Stoppers(d)
<1>1. worker[w].pc # "idle" /\ TypeOK
  BY DEF Basic
<1>2. d \in Dev /\ ai[d] \in AutoImpl \cup {Freed}
  BY <1>1, WorkerHas
<1>3. w \in Stoppers(d)
  BY DEF Stoppers
<1>4. d \notin released
  BY <1>2, <1>3 DEF TokenInv, Token
<1>5. Cardinality(Runners(d)) \in Nat /\ leaked[d] \in Nat
  BY <1>1, <1>2, RunnersFinite, Parts
<1>6. (IF d \in released THEN 0 ELSE 1) + Cardinality(Runners(d)) + leaked[d] # 0
  BY <1>4, <1>5
<1>7. ai[d] # Freed
  BY <1>2, <1>6 DEF Basic, RefsInv, Counted, Count
<1>8. QED
  BY <1>2, <1>3, <1>4, <1>7

LEMMA TypeRunner ==
  ASSUME Basic, NEW w \in Worker, ae_runner(w)
  PROVE  TypeOK'
<1> USE DEF service, mapVars, ghosts, Move
<1> DEFINE d == worker[w].ai
<1>1. TypeOK
  BY DEF Basic
<1>2. CASE Begin(w)
  <2>1. /\ ai' \in [Dev -> AutoImpl \cup {NULL, Freed}] /\ worker' \in [Worker -> WorkerState]
        /\ crash' \in {crash, "runner begins"}
        /\ UNCHANGED <<service, sched, jobs, driver, ghosts>>
    BY <1>1, <1>2, BeginEffect, Parts DEF SetRefs
  <2>2. QED
    BY <1>1, <2>1 DEF TypeOK
<1>3. CASE LookUp(w)
  <2>1. /\ worker' \in [Worker -> WorkerState] /\ crash' \in {crash, "lookup"}
        /\ UNCHANGED <<service, ai, sched, jobs, driver, ghosts>>
    BY <1>1, <1>3, LookUpEffect, Parts
  <2>2. QED
    BY <1>1, <2>1 DEF TypeOK
<1>4. ASSUME worker[w].pc \in WithDevice PROVE Dropped(w) \in Seq(Job)
  <2>1. worker[w].dev \in Dev /\ jobs \in Seq(Job)
    BY <1>1, <1>4, WorkerHas, Parts DEF WithDevice
  <2>2. QED
    BY <2>1, StopType DEF Dropped
<1>5. CASE Refused(w)
  <2>1. /\ jobs' \in Seq(Job) /\ worker' \in [Worker -> WorkerState]
        /\ UNCHANGED <<service, ai, sched, driver, released, overlapped, repeated, posted, crash>>
        /\ leaked' = [leaked EXCEPT ![d] = @ + 1]
    BY <1>4, <1>5, RefusedEffect DEF WithDevice
  <2>2. leaked' \in [Dev -> Nat]
    <3>1. leaked' = [leaked EXCEPT ![d] = @ + 1]
      BY <2>1
    <3>2. leaked \in [Dev -> Nat] /\ d \in Dev
      BY <1>1, <1>5, Parts, RefusedEffect, WorkerHas
    <3> HIDE DEF d
    <3>3. QED
      BY <3>1, <3>2
  <2>3. QED
    BY <1>1, <2>1, <2>2 DEF TypeOK
<1>6. ASSUME NEW r \in Value \cup {NULL}, Get(w, r) PROVE TypeOK'
  <2>1. /\ worker' \in [Worker -> WorkerState]
        /\ UNCHANGED <<service, ai, sched, jobs, driver, ghosts, crash>>
    BY <1>6, GetEffect
  <2>2. QED
    BY <1>1, <2>1 DEF TypeOK
<1>7. CASE Compare(w)
  <2>1. /\ worker[w].pc # "idle" /\ worker' \in [Worker -> WorkerState]
        /\ overlapped' \subseteq overlapped \cup {d} /\ crash' \in {crash, "last"}
        /\ UNCHANGED <<service, ai, sched, jobs, driver, leaked, released, repeated, posted>>
    BY <1>1, <1>7, CompareEffect, Parts
  <2>2. d \in Dev
    BY <2>1, WorkerHas
  <2>3. QED
    BY <1>1, <2>1, <2>2 DEF TypeOK
<1>8. CASE AssertionFailed(w)
  <2>1. /\ worker' \in [Worker -> WorkerState]
        /\ UNCHANGED <<service, ai, sched, jobs, driver, ghosts, crash>>
    BY <1>8, AssertionEffect
  <2>2. QED
    BY <1>1, <2>1 DEF TypeOK
<1>9. ASSUME NEW ok \in BOOLEAN, Post(w, ok) PROVE TypeOK'
  <2>1. /\ worker[w].pc = "post" /\ worker' \in [Worker -> WorkerState]
        /\ repeated' \subseteq repeated \cup {d}
        /\ posted' = posted \/ posted' = [posted EXCEPT ![d] = worker[w].res]
        /\ UNCHANGED <<service, ai, sched, jobs, driver, leaked, released, overlapped, crash>>
    BY ZenonT(60), <1>9, PostEffect
  <2>2. d \in Dev /\ worker[w].res \in Value
    BY <2>1, WorkerHas DEF WithResult
  <2>3. posted' \in [Dev -> Value \cup {NULL}]
    BY <1>1, <2>1, <2>2, Parts
  <2>4. QED
    BY <1>1, <2>1, <2>2, <2>3 DEF TypeOK
<1>10. CASE FreeLast(w)
  <2>1. /\ worker' \in [Worker -> WorkerState] /\ ai' \in [Dev -> AutoImpl \cup {NULL, Freed}]
        /\ crash' \in {crash, "last"}
        /\ UNCHANGED <<service, sched, jobs, driver, ghosts>>
    BY <1>1, <1>10, FreeLastEffect, Parts DEF SetRefs
  <2>2. QED
    BY <1>1, <2>1 DEF TypeOK
<1>11. CASE StoreLast(w)
  <2>1. /\ worker' \in [Worker -> WorkerState] /\ ai' \in [Dev -> AutoImpl \cup {NULL, Freed}]
        /\ UNCHANGED <<service, sched, jobs, driver, ghosts, crash>>
    BY <1>11, StoreLastEffect DEF SetRefs
  <2>2. QED
    BY <1>1, <2>1 DEF TypeOK
<1>12. CASE Finish(w)
  <2>1. /\ jobs' \in Seq(Job) /\ worker' \in [Worker -> WorkerState]
        /\ UNCHANGED <<service, ai, sched, driver, ghosts, crash>>
    BY <1>4, <1>12, FinishEffect DEF WithDevice
  <2>2. QED
    BY <1>1, <2>1 DEF TypeOK
<1>13. CASE Unknown(w)
  <2>1. /\ worker' \in [Worker -> WorkerState] /\ crash' \in {crash, "schedule"}
        /\ sched' = sched \/ sched' = [sched EXCEPT ![d] = "removed"]
        /\ UNCHANGED <<service, ai, jobs, driver, ghosts>>
    BY <1>1, <1>13, UnknownEffect, Parts
  <2>2. sched' \in [Dev -> {"none", "active", "removed", "deleted"}]
    BY <1>1, <2>1, Parts
  <2>3. QED
    BY <1>1, <2>1, <2>2 DEF TypeOK
<1>14. CASE EndRunner(w)
  <2>1. /\ worker[w].pc = "release" /\ autoimpl_release(d) /\ worker' \in [Worker -> WorkerState]
        /\ UNCHANGED <<service, sched, jobs, driver, ghosts, crash>>
    BY <1>14, EndEffect
  <2>2. d \in Dev /\ ai[d] \in AutoImpl
    BY <2>1, WorkerHas DEF Running
  <2>3. ai' \in [Dev -> AutoImpl \cup {NULL, Freed}]
    BY <1>1, <2>1, <2>2, Released DEF Basic, SetFreed, SetRefs
  <2>4. QED
    BY <1>1, <2>1, <2>3 DEF TypeOK
<1>15. QED
  BY <1>2, <1>3, <1>5, <1>6, <1>7, <1>8, <1>9, <1>10, <1>11, <1>12, <1>13, <1>14 DEF ae_runner

LEMMA TypeStopper ==
  ASSUME Basic, TokenInv, NEW w \in Worker,
         starter(w) \/ StoreHandle(w) \/ stopper(w) \/ StopperReleases(w)
  PROVE  TypeOK'
<1> USE DEF service, mapVars, ghosts, Move
<1> DEFINE d == worker[w].ai
<1>1. TypeOK
  BY DEF Basic
<1>2. CASE starter(w)
  <2>1. /\ worker' \in [Worker -> WorkerState] /\ crash' \in {crash, "starter"}
        /\ driver' = driver \/ driver' = [driver EXCEPT ![d] = "started"]
        /\ UNCHANGED <<service, ai, sched, jobs, ghosts>>
    BY <1>1, <1>2, StarterEffect, Parts
  <2>2. driver' \in [Dev -> {"none", "started", "stopped", "stopped NULL"}]
    BY <1>1, <2>1, Parts
  <2>3. QED
    BY <1>1, <2>1, <2>2 DEF TypeOK
<1>3. CASE StoreHandle(w)
  <2>1. /\ worker' \in [Worker -> WorkerState] /\ ai' \in [Dev -> AutoImpl \cup {NULL, Freed}]
        /\ crash' \in {crash, "starter"}
        /\ UNCHANGED <<service, sched, jobs, driver, ghosts>>
    BY <1>1, <1>3, StoreHandleEffect, Parts DEF SetRefs
  <2>2. QED
    BY <1>1, <2>1 DEF TypeOK
<1>4. CASE stopper(w)
  <2>1. /\ worker' \in [Worker -> WorkerState] /\ crash' \in {crash, "stopper"}
        /\ UNCHANGED <<service, ai, jobs, ghosts>>
    BY <1>1, <1>4, StopperEffect, Parts
  <2>2. sched' \in [Dev -> {"none", "active", "removed", "deleted"}]
    <3>1. sched' = sched \/ sched' = [sched EXCEPT ![d] = "deleted"]
      BY <1>4, StopperEffect
    <3>2. QED
      BY <1>1, <3>1, Parts
  <2>3. driver' = driver \/ driver' \in [Dev -> {"none", "started", "stopped", "stopped NULL"}]
    BY <1>4, StopperEffect
  <2>4. QED
    BY ZenonT(60), <1>1, <2>1, <2>2, <2>3 DEF TypeOK
<1>5. CASE StopperReleases(w)
  <2>1. /\ worker[w].pc = "stopped" /\ autoimpl_release(d) /\ released' = released \cup {d}
        /\ worker' \in [Worker -> WorkerState]
        /\ UNCHANGED <<service, sched, jobs, driver, leaked, overlapped, repeated, posted, crash>>
    BY <1>5, StopperReleasesEffect
  <2>2. d \in Dev /\ ai[d] \in AutoImpl
    BY <2>1, StopperHas
  <2>3. ai' \in [Dev -> AutoImpl \cup {NULL, Freed}]
    BY <1>1, <2>1, <2>2, Released DEF Basic, SetFreed, SetRefs
  <2>4. QED
    BY <1>1, <2>1, <2>2, <2>3 DEF TypeOK
<1>6. QED
  BY <1>2, <1>3, <1>4, <1>5

LEMMA TypeNext == Basic /\ TokenInv /\ [Next]_vars => TypeOK'
<1> SUFFICES ASSUME Basic, TokenInv, [Next]_vars PROVE TypeOK'
  OBVIOUS
<1>1. CASE Service
  BY <1>1, TypeService DEF Basic
<1>2. ASSUME NEW d \in Dev, Fire(d) PROVE TypeOK'
  <2> DEFINE q == Append(jobs, [run |-> "ae_runner", ai |-> d])
  <2>1. TypeOK /\ jobs \in Seq(Job) /\ fires \in Nat /\ [run |-> "ae_runner", ai |-> d] \in Job
    BY Parts DEF Basic, Job
  <2>2. q \in Seq(Job) /\ fires + 1 \in Nat
    BY <2>1, PlacesAppend
  <2>3. jobs' = q /\ fires' = fires + 1
    BY <1>2 DEF Fire
  <2> HIDE DEF q
  <2>4. jobs' \in Seq(Job) /\ fires' \in Nat
    BY <2>2, <2>3
  <2>5. QED
    BY <1>2, <2>1, <2>4 DEF TypeOK, Fire, lifeUnchanged, mapVars, ghosts
<1>3. ASSUME NEW w \in Worker, Work(w) PROVE TypeOK'
  <2>1. CASE Take(w)
    <3>1. /\ jobs' \in Seq(Job) /\ worker' \in [Worker -> WorkerState]
          /\ UNCHANGED <<service, ai, sched, driver, ghosts, crash>>
      BY SMTT(30), <2>1, TakeEffect, PlacesTail DEF Move
    <3>2. QED
      BY <3>1 DEF Basic, TypeOK, service, mapVars, ghosts
  <2>2. QED
    BY <1>3, <2>1, TypeRunner, TypeStopper DEF Work
<1>4. CASE UNCHANGED vars
  BY <1>4 DEF Basic, TypeOK, vars, mapVars, ghosts
<1>5. QED
  BY <1>1, <1>2, <1>3, <1>4 DEF Next

----------------------------------------------------------------------------
(* What a thread of the pool has at each step                              *)

LEMMA WorkerMove ==
  ASSUME WorkerInv, NEW w \in Worker, NEW pc, NEW d, NEW dev, NEW res,
         Move(w, pc, d, dev, res),
         pc = "idle" => worker'[w] = Idle,
         pc # "idle" => d \in Dev,
         dev # NULL <=> pc \in WithDevice,
         res # NULL => pc \in WithResult \cup {"finish"},
         pc \in WithResult => res # NULL
  PROVE  WorkerInv'
BY DEF Move, WorkerInv

LEMMA NullApart == NULL \notin Dev /\ NULL \notin Value /\ NULL \notin AutoImpl /\ Freed \notin AutoImpl
BY AutoEventsAssumptions

LEMMA WorkerNext == Basic /\ [Next]_vars => WorkerInv'
<1> SUFFICES ASSUME Basic, [Next]_vars PROVE WorkerInv'
  OBVIOUS
<1> USE DEF WithDevice, WithResult
<1>1. WorkerInv
  BY DEF Basic
<1>2. CASE UNCHANGED worker
  BY <1>1, <1>2 DEF WorkerInv
<1>3. ASSUME NEW w \in Worker, Take(w) PROVE WorkerInv'
  <2>1. /\ Head(jobs).ai \in Dev /\ Head(jobs).run \in {"ae_runner", "starter", "stopper"}
        /\ Move(w, Head(jobs).run, Head(jobs).ai, NULL, NULL)
    BY <1>3, TakeEffect DEF Job
  <2> DEFINE x == Head(jobs)
  <2> HIDE DEF x
  <2>2. QED
    BY <1>1, <2>1, WorkerMove DEF x
<1>4. ASSUME NEW w \in Worker, ae_runner(w) \/ starter(w) \/ StoreHandle(w) \/ stopper(w)
                                 \/ StopperReleases(w),
             worker' # worker
      PROVE  WorkerInv'
  <2> DEFINE d == worker[w].ai
  <2>1. worker[w].pc # "idle" => d \in Dev
    BY WorkerHas
  <2>2. /\ worker[w].dev # NULL <=> worker[w].pc \in WithDevice
        /\ worker[w].res # NULL => worker[w].pc \in WithResult \cup {"finish"}
        /\ worker[w].pc \in WithResult => worker[w].res # NULL
    BY <1>1 DEF WorkerInv
  <2> HIDE DEF d
  <2>3. d = worker[w].ai
    BY DEF d
  <2>4. CASE Begin(w)
    <3>1. /\ worker[w].pc = "ae_runner"
          /\ Move(w, "lookup", d, worker[w].dev, worker[w].res)
      BY <1>4, <2>3, <2>4, BeginEffect
    <3>2. QED
      BY <1>1, <2>1, <2>2, <3>1, WorkerMove
  <2>5. CASE LookUp(w)
    <3>1. /\ worker[w].pc = "lookup"
          /\ Move(w, IF current = NULL THEN "unknown" ELSE "check", d, current, worker[w].res)
      BY <1>4, <2>3, <2>5, LookUpEffect
    <3>2. CASE current = NULL
      BY <1>1, <2>1, <2>2, <3>1, <3>2, WorkerMove
    <3>3. CASE current # NULL
      BY <1>1, <2>1, <2>2, <3>1, <3>3, WorkerMove
    <3>4. QED
      BY <3>2, <3>3
  <2>6. CASE Refused(w) \/ EndRunner(w) \/ StoreHandle(w) \/ StopperReleases(w)
    <3>1. Move(w, "idle", NULL, NULL, NULL) /\ worker'[w] = Idle
      BY <1>4, <2>6, RefusedEffect, EndEffect, StoreHandleEffect, StopperReleasesEffect
    <3>2. QED
      BY <1>1, <3>1, WorkerMove
  <2>7. ASSUME NEW r \in Value \cup {NULL}, Get(w, r) PROVE WorkerInv'
    <3>1. /\ worker[w].pc = "check"
          /\ Move(w, IF r = NULL THEN "finish" ELSE "compare", d, worker[w].dev, r)
      BY <2>3, <2>7, GetEffect
    <3>2. CASE r = NULL
      BY <1>1, <2>1, <2>2, <3>1, <3>2, WorkerMove
    <3>3. CASE r # NULL
      BY <1>1, <2>1, <2>2, <3>1, <3>3, WorkerMove
    <3>4. QED
      BY <3>2, <3>3
  <2>8. CASE Compare(w)
    <3>1. /\ worker[w].pc = "compare"
          /\ \E pc \in {"finish", "post"} : Move(w, pc, d, worker[w].dev, worker[w].res)
      BY <1>4, <2>3, <2>8, CompareEffect
    <3>2. QED
      BY <1>1, <2>1, <2>2, <3>1, WorkerMove
  <2>9. CASE AssertionFailed(w) \/ \E ok \in BOOLEAN : Post(w, ok)
    <3>1. /\ worker[w].pc = "post"
          /\ \E pc \in {"finish", "free last"} : Move(w, pc, d, worker[w].dev, worker[w].res)
      BY <2>3, <2>9, AssertionEffect, PostEffect
    <3>2. QED
      BY <1>1, <2>1, <2>2, <3>1, WorkerMove
  <2>10. CASE FreeLast(w)
    <3>1. worker[w].pc = "free last" /\ Move(w, "store", d, worker[w].dev, worker[w].res)
      BY <1>4, <2>3, <2>10, FreeLastEffect
    <3>2. QED
      BY <1>1, <2>1, <2>2, <3>1, WorkerMove
  <2>11. CASE StoreLast(w)
    <3>1. worker[w].pc = "store" /\ Move(w, "finish", d, worker[w].dev, worker[w].res)
      BY <2>3, <2>11, StoreLastEffect
    <3>2. QED
      BY <1>1, <2>1, <2>2, <3>1, WorkerMove
  <2>12. CASE Finish(w)
    <3>1. worker[w].pc = "finish" /\ Move(w, "release", d, NULL, NULL)
      BY <2>3, <2>12, FinishEffect
    <3>2. QED
      BY <1>1, <2>1, <3>1, WorkerMove
  <2>13. CASE Unknown(w)
    <3>1. worker[w].pc = "unknown" /\ Move(w, "release", d, worker[w].dev, worker[w].res)
      BY <1>4, <2>3, <2>13, UnknownEffect
    <3>2. QED
      BY <1>1, <2>1, <2>2, <3>1, WorkerMove
  <2>14. CASE starter(w)
    <3>1. worker[w].pc = "starter" /\ Move(w, "started", d, worker[w].dev, worker[w].res)
      BY <1>4, <2>3, <2>14, StarterEffect
    <3>2. QED
      BY <1>1, <2>1, <2>2, <3>1, WorkerMove
  <2>15. CASE stopper(w)
    <3>1. worker[w].pc = "stopper" /\ Move(w, "stopped", d, worker[w].dev, worker[w].res)
      BY <1>4, <2>3, <2>15, StopperEffect
    <3>2. QED
      BY <1>1, <2>1, <2>2, <3>1, WorkerMove
  <2>16. QED
    BY <1>4, <2>4, <2>5, <2>6, <2>7, <2>8, <2>9, <2>10, <2>11, <2>12, <2>13, <2>14, <2>15
       DEF ae_runner
<1>5. Service => UNCHANGED worker
  BY DEF Service, lifeUnchanged, register_autoevent_handlers, Start, Hold, Stop, Clear, Stopped,
         ChangeMap, LetGo
<1>6. \A d \in Dev : Fire(d) => UNCHANGED worker
  BY DEF Fire, lifeUnchanged
<1>7. QED
  BY <1>2, <1>3, <1>4, <1>5, <1>6 DEF Next, Work, vars

----------------------------------------------------------------------------
(* How a step changes the queue, and who has what                          *)

(* Every job of r is one of q or one of J.                                 *)
JobsOf(r, q, J) == \A i \in DOMAIN r : (\E j \in DOMAIN q : r[i] = q[j]) \/ r[i] \in J

LEMMA StopAppend ==
  ASSUME NEW q \in Seq(Job), NEW d \in Dev
  PROVE  LET r == q \o autoevent_stop(d) IN
         /\ r \in Seq(Job)
         /\ ai[d] = NULL => r = q
         /\ JobsOf(r, q, IF ai[d] = NULL THEN {} ELSE {StopJob(d)})
         /\ \A run, e : run # "stopper" \/ e # d => Places(r, run, e) = Places(q, run, e)
         /\ ai[d] # NULL /\ Places(q, "stopper", d) = {}
              => AtMostOne(Places(r, "stopper", d)) /\ Places(r, "stopper", d) # {}
<1> DEFINE r == q \o autoevent_stop(d)
<1> HIDE DEF r
<1>1. StopJob(d) \in Job /\ StopJob(d).run = "stopper" /\ StopJob(d).ai = d
  BY DEF StopJob, Job
<1>2. CASE ai[d] = NULL
  BY <1>2, StopQueued DEF JobsOf, r
<1>3. CASE ai[d] # NULL
  <2>1. r = Append(q, StopJob(d))
    BY <1>3, StopQueued DEF r
  <2>2. /\ r \in Seq(Job)
        /\ \A run, e : run # "stopper" \/ e # d => Places(r, run, e) = Places(q, run, e)
        /\ Places(q, "stopper", d) = {}
             => AtMostOne(Places(r, "stopper", d)) /\ Places(r, "stopper", d) # {}
    BY <1>1, <2>1, PlacesAppend
  <2>3. JobsOf(r, q, {StopJob(d)})
    BY <1>1, <2>1, PlacesAppend DEF JobsOf
  <2>4. QED
    BY <1>3, <2>2, <2>3 DEF r
<1>4. QED
  BY <1>2, <1>3

LEMMA StartAppend ==
  ASSUME NEW q \in Seq(Job), NEW d \in Dev, NEW r, r = q \o autoevent_start(d)
  PROVE  /\ r \in Seq(Job)
         /\ JobsOf(r, q, {[run |-> "starter", ai |-> d]})
         /\ \A e : Places(r, "stopper", e) = Places(q, "stopper", e)
<1> DEFINE x == [run |-> "starter", ai |-> d]
<1>1. x \in Job /\ x.run = "starter" /\ x.ai = d
  BY DEF Job
<1>2. r = IF own THEN Append(q, x) ELSE q
  BY StartQueued
<1> HIDE DEF x
<1>3. CASE ~own
  BY <1>2, <1>3 DEF JobsOf
<1>4. CASE own
  <2>1. r = Append(q, x)
    BY <1>2, <1>4
  <2>2. JobsOf(r, q, {x})
    BY <1>1, <2>1, PlacesAppend DEF JobsOf
  <2>3. r \in Seq(Job) /\ \A e : Places(r, "stopper", e) = Places(q, "stopper", e)
    BY <1>1, <2>1, PlacesAppend
  <2>4. QED
    BY <2>2, <2>3 DEF x
<1>5. QED
  BY <1>2, <1>3, <1>4, StartQueued DEF x

(* The reference that a runner has to its device.                          *)
LEMMA UserOf ==
  ASSUME Basic, NEW w \in Worker, worker[w].pc \in WithDevice, NEW e, e = worker[w].dev
  PROVE  /\ e \in Dev /\ w \in Users(e) /\ InUse(e) /\ jobs \in Seq(Job)
         /\ Dropped(w) = IF current = e \/ e \in held \/ Users(e) # {w} THEN jobs
                         ELSE jobs \o autoevent_stop(e)
<1>1. worker[w].pc # "idle" /\ TypeOK
  BY DEF WithDevice, Basic
<1>2. e \in Dev /\ jobs \in Seq(Job)
  BY <1>1, WorkerHas, Parts
<1>3. QED
  BY <1>2 DEF Users, InUse, Dropped

(* What a worker's move makes of the sets of workers.                      *)
LEMMA MoveSets ==
  ASSUME NEW w \in Worker, NEW pc, NEW d, NEW dev, NEW res, Move(w, pc, d, dev, res), NEW e
  PROVE  /\ Users(e)' = IF dev = e THEN Users(e) \cup {w} ELSE Users(e) \ {w}
         /\ Stoppers(e)' = IF d = e /\ pc \in {"stopper", "stopped"}
                           THEN Stoppers(e) \cup {w} ELSE Stoppers(e) \ {w}
         /\ Runners(e)' = IF d = e /\ pc \in Running THEN Runners(e) \cup {w} ELSE Runners(e) \ {w}
BY DEF Move, Users, Stoppers, Runners

----------------------------------------------------------------------------
(* Where there is no autoevent there is nothing of it                      *)

LEMMA NoneStep ==
  ASSUME NoneInv,
         phase' = "new" => phase = "new" /\ \A e \in Dev : ai'[e] = ai[e],
         \A e \in Dev : ai'[e] = NULL =>
           /\ ai[e] = NULL /\ leaked'[e] = leaked[e] /\ (e \in released' => e \in released)
           /\ sched'[e] = sched[e] /\ posted'[e] = posted[e],
         \A i \in DOMAIN jobs' : \/ \E j \in DOMAIN jobs : jobs'[i] = jobs[j]
                                 \/ ai'[jobs'[i].ai] # NULL,
         \A v \in Worker : \/ worker'[v].ai \in {worker[v].ai, NULL}
                           \/ ai'[worker'[v].ai] # NULL
  PROVE  NoneInv'
<1>1. phase' = "new" => \A d \in Dev : ai'[d] = NULL
  BY DEF NoneInv
<1>2. ASSUME NEW d \in Dev, ai'[d] = NULL
      PROVE  /\ \A i \in DOMAIN jobs' : jobs'[i].ai # d
             /\ \A w \in Worker : worker'[w].ai # d
             /\ d \notin released' /\ leaked'[d] = 0 /\ sched'[d] = "none" /\ posted'[d] = NULL
  <2>1. /\ ai[d] = NULL
        /\ \A i \in DOMAIN jobs : jobs[i].ai # d
        /\ \A w \in Worker : worker[w].ai # d
        /\ d \notin released /\ leaked[d] = 0 /\ sched[d] = "none" /\ posted[d] = NULL
    BY <1>2 DEF NoneInv
  <2>2. d # NULL
    BY NullApart
  <2>3. QED
    BY <1>2, <2>1, <2>2
<1>3. QED
  BY <1>1, <1>2 DEF NoneInv

(* A step of a thread whose autoevent is d.                                *)
LEMMA NoneWorker ==
  ASSUME Basic, NEW w \in Worker, NEW d \in Dev, ai[d] # NULL, phase' = phase,
         UNCHANGED worker \/ \E pc, a, dev, res : a \in {d, NULL} /\ Move(w, pc, a, dev, res),
         ai'[d] # NULL, \A e \in Dev \ {d} : ai'[e] = ai[e],
         \A e \in Dev \ {d} : /\ leaked'[e] = leaked[e] /\ (e \in released' => e \in released)
                              /\ sched'[e] = sched[e] /\ posted'[e] = posted[e],
         \A i \in DOMAIN jobs' : \/ \E j \in DOMAIN jobs : jobs'[i] = jobs[j]
                                 \/ ai[jobs'[i].ai] # NULL /\ jobs'[i].ai \in Dev
  PROVE  NoneInv'
<1>1. phase' # "new"
  BY DEF Basic, NoneInv
<1>2. \A i \in DOMAIN jobs' : \/ \E j \in DOMAIN jobs : jobs'[i] = jobs[j]
                              \/ ai'[jobs'[i].ai] # NULL
  OBVIOUS
<1>3. \A v \in Worker : \/ worker'[v].ai \in {worker[v].ai, NULL}
                        \/ ai'[worker'[v].ai] # NULL
  BY DEF Move
<1>4. NoneInv
  BY DEF Basic
<1>5. QED
  BY <1>1, <1>2, <1>3, <1>4, NoneStep

LEMMA AiKept ==
  ASSUME Basic, NEW d \in Dev, ai[d] # NULL,
         \/ UNCHANGED ai
         \/ \E refs, last : SetRefs(d, refs, last)
         \/ ai[d] \in AutoImpl /\ autoimpl_release(d)
  PROVE  ai'[d] # NULL /\ \A e \in Dev \ {d} : ai'[e] = ai[e]
<1>1. CASE UNCHANGED ai
  BY <1>1
<1>2. CASE \E refs, last : SetRefs(d, refs, last)
  BY <1>2, NullApart DEF SetRefs
<1>3. CASE ai[d] \in AutoImpl /\ autoimpl_release(d)
  <2>1. SetFreed(d) \/ SetRefs(d, ai[d].refs - 1, ai[d].last)
    BY <1>3, Released DEF Basic
  <2>2. QED
    BY <2>1, NullApart, AutoEventsAssumptions DEF SetFreed, SetRefs
<1>4. QED
  BY <1>1, <1>2, <1>3

LEMMA NoneRunner ==
  ASSUME Basic, NEW w \in Worker, ae_runner(w)
  PROVE  NoneInv'
<1> USE DEF service, mapVars, ghosts
<1> DEFINE d == worker[w].ai
<1> HIDE DEF d
<1>0. d = worker[w].ai
  BY DEF d
<1>1. /\ leaked \in [Dev -> Nat] /\ sched \in [Dev -> {"none", "active", "removed", "deleted"}]
      /\ posted \in [Dev -> Value \cup {NULL}] /\ jobs \in Seq(Job)
  BY Parts DEF Basic
<1>2. worker[w].pc # "idle"
  BY <1>0 DEF ae_runner, Begin, LookUp, Refused, Get, Compare, AssertionFailed, Post, FreeLast,
            StoreLast, Finish, Unknown, EndRunner, At
<1>3. d \in Dev /\ ai[d] # NULL /\ (worker[w].pc \in Running => ai[d] \in AutoImpl)
  BY <1>0, <1>2, WorkerHas, NullApart, AutoEventsAssumptions
<1>4. CASE Begin(w)
  <2>1. /\ phase' = phase /\ UNCHANGED <<jobs, leaked, released, sched, posted>>
        /\ UNCHANGED ai \/ \E refs, last : SetRefs(d, refs, last)
        /\ UNCHANGED worker \/ \E pc, dev, res : Move(w, pc, d, dev, res)
    BY <1>0, <1>4, BeginEffect
  <2>2. QED
    BY <1>3, <2>1, AiKept, NoneWorker
<1>5. CASE LookUp(w) \/ (\E r \in Value \cup {NULL} : Get(w, r)) \/ Compare(w) \/ AssertionFailed(w)
  <2>1. /\ phase' = phase /\ UNCHANGED <<ai, jobs, leaked, released, sched, posted>>
        /\ UNCHANGED worker \/ \E pc, dev, res : Move(w, pc, d, dev, res)
    BY <1>0, <1>5, LookUpEffect, GetEffect, CompareEffect, AssertionEffect
  <2>2. QED
    BY <1>3, <2>1, AiKept, NoneWorker
<1>6. ASSUME worker[w].pc \in WithDevice, jobs' = Dropped(w)
      PROVE  \A i \in DOMAIN jobs' : \/ \E j \in DOMAIN jobs : jobs'[i] = jobs[j]
                                     \/ ai[jobs'[i].ai] # NULL /\ jobs'[i].ai \in Dev
  <2> DEFINE e == worker[w].dev
  <2>1. e \in Dev /\ (jobs' = jobs \/ jobs' = jobs \o autoevent_stop(e))
    BY <1>6, UserOf
  <2>2. CASE jobs' = jobs
    BY <2>2
  <2>3. CASE jobs' = jobs \o autoevent_stop(e)
    <3>1. JobsOf(jobs', jobs, IF ai[e] = NULL THEN {} ELSE {StopJob(e)})
      BY <1>1, <2>1, <2>3, StopAppend
    <3>2. QED
      BY <2>1, <3>1 DEF JobsOf, StopJob
  <2>4. QED
    BY <2>1, <2>2, <2>3
<1>7. CASE Refused(w) \/ Finish(w)
  <2>1. /\ phase' = phase /\ UNCHANGED <<ai, released, sched, posted>>
        /\ \E pc, a, dev, res : a \in {d, NULL} /\ Move(w, pc, a, dev, res)
        /\ jobs' = Dropped(w) /\ worker[w].pc \in WithDevice
        /\ leaked' = leaked \/ leaked' = [leaked EXCEPT ![d] = @ + 1]
    BY <1>0, <1>7, RefusedEffect, FinishEffect DEF WithDevice
  <2>2. \A e \in Dev \ {d} : leaked'[e] = leaked[e]
    BY <1>1, <2>1
  <2>3. QED
    BY <1>3, <1>6, <2>1, <2>2, AiKept, NoneWorker
<1>8. ASSUME NEW ok \in BOOLEAN, Post(w, ok) PROVE NoneInv'
  <2>1. /\ phase' = phase /\ UNCHANGED <<ai, jobs, leaked, released, sched>>
        /\ \E pc, dev, res : Move(w, pc, d, dev, res)
        /\ posted' = posted \/ posted' = [posted EXCEPT ![d] = worker[w].res]
    BY <1>0, <1>8, PostEffect
  <2>2. \A e \in Dev \ {d} : posted'[e] = posted[e]
    BY <1>1, <2>1
  <2>3. QED
    BY <1>3, <2>1, <2>2, AiKept, NoneWorker
<1>9. CASE FreeLast(w) \/ StoreLast(w)
  <2>1. /\ phase' = phase /\ UNCHANGED <<jobs, leaked, released, sched, posted>>
        /\ UNCHANGED ai \/ \E refs, last : SetRefs(d, refs, last)
        /\ UNCHANGED worker \/ \E pc, dev, res : Move(w, pc, d, dev, res)
    BY <1>0, <1>9, FreeLastEffect, StoreLastEffect
  <2>2. QED
    BY <1>3, <2>1, AiKept, NoneWorker
<1>10. CASE Unknown(w)
  <2>1. /\ phase' = phase /\ UNCHANGED <<ai, jobs, leaked, released, posted>>
        /\ UNCHANGED worker \/ \E pc, dev, res : Move(w, pc, d, dev, res)
        /\ sched' = sched \/ sched' = [sched EXCEPT ![d] = "removed"]
    BY <1>0, <1>10, UnknownEffect
  <2>2. \A e \in Dev \ {d} : sched'[e] = sched[e]
    BY <1>1, <2>1
  <2>3. QED
    BY <1>3, <2>1, <2>2, AiKept, NoneWorker
<1>11. CASE EndRunner(w)
  <2>1. /\ phase' = phase /\ UNCHANGED <<jobs, leaked, released, sched, posted>>
        /\ autoimpl_release(d) /\ worker[w].pc \in Running
        /\ Move(w, "idle", NULL, NULL, NULL)
    BY <1>0, <1>11, EndEffect DEF Running
  <2>2. QED
    BY <1>3, <2>1, AiKept, NoneWorker
<1>12. QED
  BY <1>4, <1>5, <1>7, <1>8, <1>9, <1>10, <1>11 DEF ae_runner

LEMMA NoneStopper ==
  ASSUME Basic, TokenInv, NEW w \in Worker,
         starter(w) \/ StoreHandle(w) \/ stopper(w) \/ StopperReleases(w)
  PROVE  NoneInv'
<1> USE DEF service, mapVars, ghosts
<1> DEFINE d == worker[w].ai
<1> HIDE DEF d
<1>0. d = worker[w].ai
  BY DEF d
<1>1. sched \in [Dev -> {"none", "active", "removed", "deleted"}]
  BY Parts DEF Basic
<1>2. worker[w].pc # "idle"
  BY DEF starter, StoreHandle, stopper, StopperReleases, At
<1>3. d \in Dev /\ ai[d] # NULL
  BY <1>0, <1>2, WorkerHas, NullApart, AutoEventsAssumptions
<1>4. CASE starter(w) \/ StoreHandle(w)
  <2>1. /\ phase' = phase /\ UNCHANGED <<jobs, leaked, released, sched, posted>>
        /\ UNCHANGED ai \/ \E refs, last : SetRefs(d, refs, last)
        /\ \/ UNCHANGED worker
           \/ \E pc, a, dev, res : a \in {d, NULL} /\ Move(w, pc, a, dev, res)
    BY <1>0, <1>4, StarterEffect, StoreHandleEffect
  <2>2. QED
    BY <1>3, <2>1, AiKept, NoneWorker
<1>5. CASE stopper(w)
  <2>1. /\ phase' = phase /\ UNCHANGED <<ai, jobs, leaked, released, posted>>
        /\ UNCHANGED worker \/ \E pc, dev, res : Move(w, pc, d, dev, res)
        /\ sched' = sched \/ sched' = [sched EXCEPT ![d] = "deleted"]
    BY <1>0, <1>5, StopperEffect
  <2>2. \A e \in Dev \ {d} : sched'[e] = sched[e]
    BY <1>1, <2>1
  <2>3. QED
    BY <1>3, <2>1, <2>2, AiKept, NoneWorker
<1>6. CASE StopperReleases(w)
  <2>1. /\ phase' = phase /\ UNCHANGED <<jobs, leaked, sched, posted>>
        /\ released' = released \cup {d} /\ autoimpl_release(d)
        /\ worker[w].pc = "stopped" /\ Move(w, "idle", NULL, NULL, NULL)
    BY <1>0, <1>6, StopperReleasesEffect
  <2>2. ai[d] \in AutoImpl
    BY <1>0, <2>1, StopperHas
  <2>3. QED
    BY <1>3, <2>1, <2>2, AiKept, NoneWorker
<1>7. QED
  BY <1>4, <1>5, <1>6

(* The struct that a drop of the map's or a holder's reference stops.      *)
LEMMA NoneStop ==
  ASSUME Basic, NEW d \in Dev,
         UNCHANGED <<ai, worker, ghosts, sched>>, phase' = "new" => phase = "new",
         jobs' = jobs \/ jobs' = jobs \o autoevent_stop(d)
  PROVE  NoneInv'
<1>1. jobs \in Seq(Job) /\ NoneInv
  BY Parts DEF Basic
<1>2. ASSUME NEW i \in DOMAIN jobs'
      PROVE  (\E j \in DOMAIN jobs : jobs'[i] = jobs[j]) \/ ai'[jobs'[i].ai] # NULL
  <2>1. CASE jobs' = jobs
    BY <2>1
  <2>2. CASE jobs' = jobs \o autoevent_stop(d)
    <3>1. JobsOf(jobs', jobs, IF ai[d] = NULL THEN {} ELSE {StopJob(d)})
      BY <1>1, <2>2, StopAppend
    <3>2. QED
      BY <3>1 DEF JobsOf, StopJob
  <2>3. QED
    BY <2>1, <2>2
<1>3. QED
  BY <1>1, <1>2, NoneStep DEF ghosts

LEMMA NoneChange ==
  ASSUME Basic, NEW n \in Dev \cup {NULL}, NEW started \in BOOLEAN, NEW onChange \in BOOLEAN,
         ChangeMap(n, started, onChange)
  PROVE  NoneInv'
<1> DEFINE q == IF current # NULL /\ current \notin held /\ Users(current) = {}
                  THEN jobs \o autoevent_stop(current) ELSE jobs
           r == IF n # NULL /\ started THEN autoevent_start(n) ELSE <<>>
<1>1. /\ current \in Dev \cup {NULL} /\ jobs \in Seq(Job) /\ NoneInv
      /\ ai \in [Dev -> AutoImpl \cup {NULL, Freed}]
      /\ sched \in [Dev -> {"none", "active", "removed", "deleted"}]
  BY Parts DEF Basic
<1>2. q \in Seq(Job) /\ JobsOf(q, jobs, {StopJob(e) : e \in {e \in Dev : ai[e] # NULL}})
  <2>1. CASE current # NULL /\ current \notin held /\ Users(current) = {}
    <3>1. q \in Seq(Job) /\ JobsOf(q, jobs, IF ai[current] = NULL THEN {} ELSE {StopJob(current)})
      BY <1>1, <2>1, StopAppend
    <3>2. QED
      BY <1>1, <2>1, <3>1 DEF JobsOf
  <2>2. CASE ~(current # NULL /\ current \notin held /\ Users(current) = {})
    BY <1>1, <2>2 DEF JobsOf
  <2>3. QED
    BY <2>1, <2>2
<1>3. jobs' = q \o r
  BY DEF ChangeMap
<1>4. /\ phase' # "new" /\ UNCHANGED <<worker, ghosts>>
      /\ n # NULL => ai[n] = NULL
  BY DEF ChangeMap, lifeUnchanged, Fresh
<1> HIDE DEF q
<1>5. CASE n = NULL \/ ~started
  <2>1. jobs' = q
    BY <1>2, <1>3, <1>5, ConcatEmptySeq
  <2>2. UNCHANGED <<ai, sched>>
    BY <1>5 DEF ChangeMap, Starts
  <2>3. ASSUME NEW i \in DOMAIN jobs'
        PROVE  (\E j \in DOMAIN jobs : jobs'[i] = jobs[j]) \/ ai'[jobs'[i].ai] # NULL
    BY <1>2, <2>1, <2>2 DEF JobsOf, StopJob
  <2>4. QED
    BY <1>1, <1>4, <2>2, <2>3, NoneStep DEF ghosts
<1>6. CASE n # NULL /\ started
  <2>1. jobs' = q \o autoevent_start(n) /\ n \in Dev
    BY <1>3, <1>6
  <2>2. JobsOf(jobs', q, {[run |-> "starter", ai |-> n]})
    BY <1>2, <2>1, StartAppend
  <2>3. /\ ai' = [ai EXCEPT ![n] = new(onChange)]
        /\ sched' = sched \/ sched' = [sched EXCEPT ![n] = "active"]
    BY <1>6 DEF ChangeMap, Starts
  <2>4. new(onChange) # NULL
    <3>1. new(onChange) \in AutoImpl
      BY DEF new, AutoImpl
    <3>2. QED
      BY <3>1, NullApart
  <2> DEFINE a == new(onChange)
  <2> HIDE DEF a
  <2>5. /\ ai'[n] # NULL
        /\ \A e \in Dev \ {n} : ai'[e] = ai[e] /\ sched'[e] = sched[e]
    BY <1>1, <2>1, <2>3, <2>4 DEF a
  <2>6. ASSUME NEW i \in DOMAIN jobs'
        PROVE  (\E j \in DOMAIN jobs : jobs'[i] = jobs[j]) \/ ai'[jobs'[i].ai] # NULL
    <3>1. CASE \E j \in DOMAIN q : jobs'[i] = q[j]
      <4>1. PICK j \in DOMAIN q : jobs'[i] = q[j]
        BY <3>1
      <4>2. (\E k \in DOMAIN jobs : q[j] = jobs[k]) \/ \E e \in Dev : ai[e] # NULL /\ q[j] = StopJob(e)
        BY <1>2 DEF JobsOf
      <4>3. \A e \in Dev : ai[e] # NULL => ai'[e] # NULL
        BY <1>4, <2>1, <2>5
      <4>4. QED
        BY <4>1, <4>2, <4>3 DEF StopJob
    <3>2. CASE jobs'[i] = [run |-> "starter", ai |-> n]
      BY <2>5, <3>2
    <3>3. QED
      BY <2>2, <3>1, <3>2 DEF JobsOf
  <2>7. QED
    BY <1>1, <1>4, <2>5, <2>6, NoneStep DEF ghosts
<1>7. QED
  BY <1>5, <1>6

LEMMA NoneNext == Basic /\ TokenInv /\ [Next]_vars => NoneInv'
<1> SUFFICES ASSUME Basic, TokenInv, [Next]_vars PROVE NoneInv'
  OBVIOUS
<1>1. NoneInv /\ current \in Dev \cup {NULL} /\ jobs \in Seq(Job)
  BY Parts DEF Basic
<1>2. CASE register_autoevent_handlers \/ Start \/ Hold \/ Stop \/ Stopped \/ UNCHANGED vars
  <2>1. UNCHANGED <<ai, jobs, worker, sched, ghosts>> /\ (phase' = "new" => phase = "new")
    BY <1>2 DEF register_autoevent_handlers, Start, Hold, Stop, Stopped, lifeUnchanged, vars
  <2>2. QED
    BY <1>1, <2>1 DEF NoneInv, ghosts
<1>3. CASE Clear
  BY <1>1, <1>3, NoneStop DEF Clear, lifeUnchanged
<1>4. ASSUME NEW d \in Dev, LetGo(d) PROVE NoneInv'
  BY <1>4, NoneStop DEF LetGo, lifeUnchanged
<1>5. ASSUME NEW d \in Dev, Fire(d) PROVE NoneInv'
  <2> DEFINE x == [run |-> "ae_runner", ai |-> d]
  <2>1. /\ jobs' = Append(jobs, x) /\ sched[d] = "active"
        /\ UNCHANGED <<ai, sched, phase, worker, ghosts>>
    BY <1>5 DEF Fire, lifeUnchanged
  <2>2. ai[d] # NULL
    BY <1>1, <2>1 DEF NoneInv
  <2>3. x \in Job /\ x.ai = d
    BY DEF Job
  <2> HIDE DEF x
  <2>4. ASSUME NEW i \in DOMAIN jobs'
        PROVE  (\E j \in DOMAIN jobs : jobs'[i] = jobs[j]) \/ ai'[jobs'[i].ai] # NULL
    BY <1>1, <2>1, <2>2, <2>3, PlacesAppend
  <2>5. QED
    BY <1>1, <2>1, <2>4, NoneStep DEF ghosts
<1>6. ASSUME NEW w \in Worker, Take(w) PROVE NoneInv'
  <2> DEFINE d == Head(jobs).ai
  <2>1. /\ jobs # <<>> /\ jobs' = Tail(jobs) /\ Move(w, Head(jobs).run, d, NULL, NULL)
        /\ UNCHANGED <<service, ai, sched, ghosts>> /\ d \in Dev
    BY <1>6, TakeEffect DEF Job
  <2>2. /\ \E i \in DOMAIN jobs : d = jobs[i].ai
        /\ \A i \in DOMAIN jobs' : \E j \in DOMAIN jobs : jobs'[i] = jobs[j]
    BY <1>1, <2>1, PlacesTail
  <2> HIDE DEF d
  <2>3. ai[d] # NULL
    BY <1>1, <2>1, <2>2 DEF NoneInv
  <2>4. QED
    BY <2>1, <2>2, <2>3, NoneWorker DEF ghosts, service
<1>7. CASE Service
  BY <1>2, <1>3, <1>4, <1>7, NoneChange DEF Service
<1>8. QED
  BY <1>2, <1>5, <1>6, <1>7, NoneRunner, NoneStopper DEF Next, Work

----------------------------------------------------------------------------
(* Where the device's reference to its autoevent is                        *)

LEMMA TokenSame ==
  ASSUME NEW d \in Dev, Token(d), Queued(d)' = Queued(d), Stoppers(d)' = Stoppers(d),
         InUse(d)' <=> InUse(d), d \in released' <=> d \in released,
         ai'[d] # NULL => ai[d] # NULL
  PROVE  Token(d)'
BY DEF Token, AtMostOne

(* A struct that may be losing its last reference.                         *)
LEMMA TokenLost ==
  ASSUME NEW e \in Dev, Token(e), InUse(e), Stoppers(e)' = Stoppers(e),
         e \in released' <=> e \in released, ai'[e] = ai[e],
         InUse(e)' \/ ai[e] = NULL => Queued(e)' = Queued(e),
         ~InUse(e)' /\ ai[e] # NULL /\ Queued(e) = {} => AtMostOne(Queued(e)') /\ Queued(e)' # {}
  PROVE  Token(e)'
<1>1. CASE InUse(e)'
  <2>1. Queued(e)' = Queued(e)
    BY <1>1
  <2>2. QED
    BY <1>1, <2>1, TokenSame
<1>2. CASE ~InUse(e)'
  <2>1. Queued(e) = {} /\ Stoppers(e) = {} /\ e \notin released
    BY DEF Token
  <2>2. CASE ai[e] = NULL
    <3>1. Queued(e)' = {} /\ Stoppers(e)' = {} /\ e \notin released' /\ ai'[e] = NULL
      BY <2>1, <2>2
    <3>2. QED
      BY <3>1 DEF Token, AtMostOne
  <2>3. CASE ai[e] # NULL
    <3>1. /\ AtMostOne(Queued(e)') /\ Queued(e)' # {} /\ Stoppers(e)' = {} /\ e \notin released'
      BY <1>2, <2>1, <2>3
    <3>2. AtMostOne(Queued(e))' /\ AtMostOne(Stoppers(e))'
      BY <3>1 DEF AtMostOne
    <3>3. QED
      BY <1>2, <3>1, <3>2 DEF Token
  <2>4. QED
    BY <2>2, <2>3
<1>3. QED
  BY <1>1, <1>2

(* The struct e loses one of its references.                               *)
LEMMA TokenDrop ==
  ASSUME Basic, TokenInv, NEW e \in Dev, InUse(e), UNCHANGED <<ai, released>>,
         \A f \in Dev \ {e} : InUse(f)' <=> InUse(f),
         \A f \in Dev : Stoppers(f)' = Stoppers(f),
         jobs' = IF InUse(e)' THEN jobs ELSE jobs \o autoevent_stop(e)
  PROVE  TokenInv'
<1>1. jobs \in Seq(Job)
  BY Parts DEF Basic
<1>2. /\ jobs' # jobs => ai[e] # NULL
      /\ \A f \in Dev \ {e} : Queued(f)' = Queued(f)
      /\ ~InUse(e)' /\ ai[e] # NULL /\ Queued(e) = {} => AtMostOne(Queued(e)') /\ Queued(e)' # {}
  <2>1. CASE jobs' = jobs /\ InUse(e)'
    BY <2>1 DEF Queued
  <2>2. CASE jobs' = jobs \o autoevent_stop(e) /\ ~InUse(e)'
    <3>0. PICK r : r = jobs' /\ r = jobs \o autoevent_stop(e)
      BY <2>2
    <3>1. /\ ai[e] = NULL => r = jobs
          /\ \A f : f # e => Places(r, "stopper", f) = Places(jobs, "stopper", f)
          /\ ai[e] # NULL /\ Places(jobs, "stopper", e) = {}
               => AtMostOne(Places(r, "stopper", e)) /\ Places(r, "stopper", e) # {}
      <4>1. r = jobs \o autoevent_stop(e)
        BY <3>0
      <4>2. ai[e] = NULL => r = jobs
        BY <1>1, <4>1, StopAppend
      <4>3. ASSUME NEW f, f # e PROVE Places(r, "stopper", f) = Places(jobs, "stopper", f)
        <5>1. \A run, g : run # "stopper" \/ g # e
                => Places(jobs \o autoevent_stop(e), run, g) = Places(jobs, run, g)
          BY <1>1, StopAppend
        <5>2. QED
          BY <5>1, <4>1, <4>3
      <4>4. ai[e] # NULL /\ Places(jobs, "stopper", e) = {}
               => AtMostOne(Places(r, "stopper", e)) /\ Places(r, "stopper", e) # {}
        BY <1>1, <4>1, StopAppend
      <4>5. QED
        BY <4>2, <4>3, <4>4
    <3>2. \A f : Queued(f)' = Places(r, "stopper", f) /\ Queued(f) = Places(jobs, "stopper", f)
      BY <3>0 DEF Queued
    <3>3. QED
      BY <3>0, <3>1, <3>2
  <2>3. QED
    BY <2>1, <2>2
<1>3. ASSUME NEW f \in Dev, f # e PROVE Token(f)'
  BY <1>2, <1>3, TokenSame DEF TokenInv
<1>4. Token(e)'
  <2>1. Token(e) /\ Stoppers(e)' = Stoppers(e)
    BY DEF TokenInv
  <2>2. InUse(e)' \/ ai[e] = NULL => Queued(e)' = Queued(e)
    BY <1>2 DEF Queued
  <2>3. QED
    BY <1>2, <2>1, <2>2, TokenLost
<1>5. QED
  BY <1>3, <1>4 DEF TokenInv

(* A thread goes on without taking or giving up a device's reference.      *)
LEMMA TokenWork ==
  ASSUME Basic, TokenInv, UNCHANGED <<current, held, jobs, released>>,
         \A e \in Dev : ai'[e] # NULL => ai[e] # NULL,
         NEW w \in Worker,
         \/ UNCHANGED worker
         \/ \E pc, a, dev, res :
              /\ Move(w, pc, a, dev, res)
              /\ dev = worker[w].dev \/ (worker[w].dev = NULL /\ dev = current)
              /\ pc \in {"stopper", "stopped"} => a = worker[w].ai
              /\ pc \in {"stopper", "stopped"} <=> worker[w].pc \in {"stopper", "stopped"}
  PROVE  TokenInv'
<1>1. ASSUME NEW e \in Dev
      PROVE  Stoppers(e)' = Stoppers(e) /\ (InUse(e)' <=> InUse(e))
  <2>1. CASE UNCHANGED worker
    BY <2>1 DEF Stoppers, InUse, Users
  <2>2. ASSUME NEW pc, NEW a, NEW dev, NEW res, Move(w, pc, a, dev, res),
               dev = worker[w].dev \/ (worker[w].dev = NULL /\ dev = current),
               pc \in {"stopper", "stopped"} => a = worker[w].ai,
               pc \in {"stopper", "stopped"} <=> worker[w].pc \in {"stopper", "stopped"}
        PROVE  Stoppers(e)' = Stoppers(e) /\ (InUse(e)' <=> InUse(e))
    <3>1. Stoppers(e)' = Stoppers(e)
      BY SMTT(30), <2>2, MoveSets DEF Stoppers
    <3>2. Users(e)' = IF dev = e THEN Users(e) \cup {w} ELSE Users(e) \ {w}
      BY <2>2, MoveSets
    <3>3. w \in Users(e) <=> worker[w].dev = e
      BY DEF Users
    <3>4. e # NULL
      BY NullApart
    <3>5. InUse(e)' <=> InUse(e)
      <4>1. CASE current = e
        BY <4>1 DEF InUse
      <4>2. CASE current # e
        BY <2>2, <3>2, <3>3, <3>4, <4>2 DEF InUse
      <4>3. QED
        BY <4>1, <4>2
    <3>6. QED
      BY <3>1, <3>5
  <2>3. QED
    BY <2>1, <2>2
<1>2. \A e \in Dev : Queued(e)' = Queued(e)
  BY DEF Queued
<1>3. QED
  BY <1>1, <1>2, TokenSame DEF TokenInv

(* A runner gives up its device.                                           *)
LEMMA TokenRelease ==
  ASSUME Basic, TokenInv, NEW w \in Worker, worker[w].pc \in WithDevice,
         NEW pc, NEW a, NEW res, Move(w, pc, a, NULL, res), pc \notin {"stopper", "stopped"},
         jobs' = Dropped(w), UNCHANGED <<current, held, ai, released>>
  PROVE  TokenInv'
<1>0. PICK e \in Dev : e = worker[w].dev
  BY UserOf
<1>1. /\ e \in Dev /\ w \in Users(e) /\ InUse(e)
      /\ Dropped(w) = IF current = e \/ e \in held \/ Users(e) # {w} THEN jobs
                      ELSE jobs \o autoevent_stop(e)
  BY <1>0, UserOf
<1>2. \A f \in Dev : Users(f)' = Users(f) \ {w} /\ Stoppers(f)' = Stoppers(f) \ {w}
  BY MoveSets, NullApart
<1>3. \A f \in Dev : w \notin Stoppers(f) /\ (w \in Users(f) <=> f = e)
  BY <1>0 DEF Stoppers, Users, WithDevice
<1>4. ASSUME NEW f \in Dev, f # e PROVE InUse(f)' <=> InUse(f)
  <2>1. Users(f)' = Users(f)
    BY <1>2, <1>3, <1>4
  <2>2. QED
    BY <2>1 DEF InUse
<1>5. InUse(e)' <=> current = e \/ e \in held \/ Users(e) # {w}
  <2>1. Users(e)' # {} <=> Users(e) # {w}
    BY <1>1, <1>2
  <2>2. QED
    BY <2>1 DEF InUse
<1>6. QED
  BY ZenonT(60), <1>1, <1>2, <1>3, <1>4, <1>5, TokenDrop

LEMMA TokenRunner ==
  ASSUME Basic, TokenInv, NEW w \in Worker, ae_runner(w)
  PROVE  TokenInv'
<1> USE DEF service, mapVars, ghosts
<1>0. PICK d : d = worker[w].ai
  OBVIOUS
<1>1. worker[w].pc # "idle"
  BY DEF ae_runner, Begin, LookUp, Refused, Get, Compare, AssertionFailed, Post, FreeLast,
         StoreLast, Finish, Unknown, EndRunner, At
<1>2. d \in Dev /\ ai[d] # NULL /\ (worker[w].pc \in Running => ai[d] \in AutoImpl)
  BY <1>0, <1>1, WorkerHas, NullApart, AutoEventsAssumptions
<1>3. ASSUME \/ UNCHANGED ai
             \/ \E refs, last : SetRefs(d, refs, last)
             \/ ai[d] \in AutoImpl /\ autoimpl_release(d)
      PROVE  \A e \in Dev : ai'[e] # NULL => ai[e] # NULL
  BY <1>2, <1>3, AiKept
<1>4. CASE Begin(w)
  <2>1. /\ worker[w].pc = "ae_runner" /\ UNCHANGED <<current, held, jobs, released>>
        /\ UNCHANGED ai \/ \E refs, last : SetRefs(d, refs, last)
        /\ UNCHANGED worker \/ Move(w, "lookup", d, worker[w].dev, worker[w].res)
    BY <1>0, <1>4, BeginEffect
  <2>2. QED
    BY <1>3, <2>1, TokenWork
<1>5. CASE LookUp(w)
  <2>1. /\ worker[w].pc = "lookup" /\ UNCHANGED <<current, held, ai, jobs, released>>
        /\ \/ UNCHANGED worker
           \/ \E pc \in {"unknown", "check"} : Move(w, pc, d, current, worker[w].res)
    BY <1>0, <1>5, LookUpEffect
  <2>2. worker[w].dev = NULL
    BY <1>0, <2>1, WorkerHas DEF WithDevice
  <2>3. QED
    BY <1>3, <2>1, <2>2, TokenWork
<1>6. ASSUME worker[w].pc \notin {"stopper", "stopped"}, UNCHANGED <<current, held, jobs, released>>,
             \/ UNCHANGED ai
             \/ \E refs, last : SetRefs(d, refs, last)
             \/ ai[d] \in AutoImpl /\ autoimpl_release(d),
             \/ UNCHANGED worker
             \/ \E pc, a, res : /\ pc \notin {"stopper", "stopped"}
                                /\ Move(w, pc, a, worker[w].dev, res)
      PROVE  TokenInv'
  BY <1>3, <1>6, TokenWork
<1>7. ASSUME NEW r \in Value \cup {NULL}, Get(w, r) PROVE TokenInv'
  <2>1. /\ worker[w].pc = "check" /\ UNCHANGED <<current, held, ai, jobs, released>>
        /\ \E pc \in {"finish", "compare"} : Move(w, pc, d, worker[w].dev, r)
    BY <1>0, <1>7, GetEffect
  <2>2. QED
    BY <1>6, <2>1
<1>8. CASE Compare(w)
  <2>1. /\ worker[w].pc = "compare" /\ UNCHANGED <<current, held, ai, jobs, released>>
        /\ \/ UNCHANGED worker
           \/ \E pc \in {"finish", "post"} : Move(w, pc, d, worker[w].dev, worker[w].res)
    BY <1>0, <1>8, CompareEffect
  <2>2. QED
    BY <1>6, <2>1
<1>9. CASE AssertionFailed(w) \/ \E ok \in BOOLEAN : Post(w, ok)
  <2>1. /\ worker[w].pc = "post" /\ UNCHANGED <<current, held, ai, jobs, released>>
        /\ \E pc \in {"finish", "free last"} : Move(w, pc, d, worker[w].dev, worker[w].res)
    BY <1>0, <1>9, AssertionEffect, PostEffect
  <2>2. QED
    BY <1>6, <2>1
<1>10. CASE FreeLast(w) \/ StoreLast(w)
  <2>1. /\ worker[w].pc \in {"free last", "store"} /\ UNCHANGED <<current, held, jobs, released>>
        /\ UNCHANGED ai \/ \E refs, last : SetRefs(d, refs, last)
        /\ \/ UNCHANGED worker
           \/ \E pc \in {"store", "finish"} : Move(w, pc, d, worker[w].dev, worker[w].res)
    BY <1>0, <1>10, FreeLastEffect, StoreLastEffect
  <2>2. QED
    BY <1>6, <2>1
<1>11. CASE Unknown(w)
  <2>1. /\ worker[w].pc = "unknown" /\ UNCHANGED <<current, held, ai, jobs, released>>
        /\ UNCHANGED worker \/ Move(w, "release", d, worker[w].dev, worker[w].res)
    BY <1>0, <1>11, UnknownEffect
  <2>2. QED
    BY <1>6, <2>1
<1>12. CASE EndRunner(w)
  <2>1. /\ worker[w].pc = "release" /\ UNCHANGED <<current, held, jobs, released>>
        /\ autoimpl_release(d) /\ Move(w, "idle", NULL, NULL, NULL)
    BY <1>0, <1>12, EndEffect
  <2>2. worker[w].dev = NULL /\ ai[d] \in AutoImpl
    BY <1>0, <1>2, <2>1, WorkerHas DEF WithDevice, Running
  <2>3. QED
    BY <1>6, <2>1, <2>2
<1>13. CASE Refused(w)
  <2>1. /\ worker[w].pc = "check" /\ jobs' = Dropped(w)
        /\ Move(w, "idle", NULL, NULL, NULL) /\ UNCHANGED <<current, held, ai, released>>
    BY <1>0, <1>13, RefusedEffect
  <2>2. worker[w].pc \in WithDevice
    BY <2>1 DEF WithDevice
  <2>3. QED
    BY <2>1, <2>2, TokenRelease
<1>14. CASE Finish(w)
  <2>1. /\ worker[w].pc = "finish" /\ jobs' = Dropped(w)
        /\ Move(w, "release", d, NULL, NULL) /\ UNCHANGED <<current, held, ai, released>>
    BY <1>0, <1>14, FinishEffect
  <2>2. worker[w].pc \in WithDevice
    BY <2>1 DEF WithDevice
  <2>3. QED
    BY <2>1, <2>2, TokenRelease
<1>15. QED
  BY <1>4, <1>5, <1>7, <1>8, <1>9, <1>10, <1>11, <1>12, <1>13, <1>14 DEF ae_runner

LEMMA TokenStopper ==
  ASSUME Basic, TokenInv, NEW w \in Worker,
         starter(w) \/ StoreHandle(w) \/ stopper(w) \/ StopperReleases(w)
  PROVE  TokenInv'
<1> USE DEF service, mapVars, ghosts
<1>0. PICK d : d = worker[w].ai
  OBVIOUS
<1>1. worker[w].pc # "idle"
  BY DEF starter, StoreHandle, stopper, StopperReleases, At
<1>2. d \in Dev /\ ai[d] # NULL
  <2>1. d \in Dev /\ ai[d] \in AutoImpl \cup {Freed}
    BY <1>0, <1>1, WorkerHas
  <2>2. QED
    BY <2>1, NullApart, AutoEventsAssumptions
<1>3. CASE starter(w) \/ StoreHandle(w)
  <2>1. /\ worker[w].pc \in {"starter", "started"} /\ UNCHANGED <<current, held, jobs, released>>
        /\ UNCHANGED ai \/ \E refs, last : SetRefs(d, refs, last)
        /\ \/ UNCHANGED worker
           \/ Move(w, "started", d, worker[w].dev, worker[w].res)
           \/ Move(w, "idle", NULL, NULL, NULL)
    BY <1>0, <1>3, StarterEffect, StoreHandleEffect
  <2>2. worker[w].dev = NULL
    BY <1>0, <2>1, WorkerHas DEF WithDevice
  <2>3. \A e \in Dev : ai'[e] # NULL => ai[e] # NULL
    BY <1>2, <2>1, AiKept
  <2>4. QED
    BY <2>1, <2>2, <2>3, TokenWork
<1>4. CASE stopper(w)
  <2>1. /\ worker[w].pc = "stopper" /\ UNCHANGED <<current, held, ai, jobs, released>>
        /\ UNCHANGED worker \/ Move(w, "stopped", d, worker[w].dev, worker[w].res)
    BY <1>0, <1>4, StopperEffect
  <2>2. \A e \in Dev : ai'[e] # NULL => ai[e] # NULL
    BY <2>1
  <2>3. QED
    BY <1>0, <2>1, <2>2, TokenWork
<1>5. CASE StopperReleases(w)
  <2>1. /\ worker[w].pc = "stopped" /\ autoimpl_release(d) /\ released' = released \cup {d}
        /\ Move(w, "idle", NULL, NULL, NULL) /\ UNCHANGED <<current, held, jobs>>
    BY <1>0, <1>5, StopperReleasesEffect
  <2>2. ai[d] \in AutoImpl /\ w \in Stoppers(d) /\ worker[w].dev = NULL
    BY <1>0, <2>1, StopperHas, WorkerHas DEF WithDevice
  <2>3. \A e \in Dev : ai'[e] # NULL => ai[e] # NULL
    BY <1>2, <2>1, <2>2, AiKept
  <2>4. ASSUME NEW e \in Dev
        PROVE  /\ Users(e)' = Users(e) /\ Stoppers(e)' = Stoppers(e) \ {w}
               /\ Queued(e)' = Queued(e) /\ (InUse(e)' <=> InUse(e))
    <3>0. e # NULL /\ w \notin Users(e)
      BY <2>2, NullApart DEF Users
    <3>1. Users(e)' = Users(e) \ {w} /\ Stoppers(e)' = Stoppers(e) \ {w}
      BY <2>1, <3>0, MoveSets
    <3>2. Users(e)' = Users(e)
      BY <3>0, <3>1
    <3>3. QED
      BY <2>1, <3>1, <3>2 DEF InUse, Queued
  <2>5. ASSUME NEW e \in Dev, e # d PROVE Token(e)'
    <3>1. w \notin Stoppers(e)
      BY <1>0, <2>5 DEF Stoppers
    <3>2. Stoppers(e)' = Stoppers(e)
      BY <2>4, <3>1
    <3>3. e \in released' <=> e \in released
      BY <2>1, <2>5
    <3>4. Token(e)
      BY DEF TokenInv
    <3>5. (ai'[e] # NULL => ai[e] # NULL) /\ Queued(e)' = Queued(e) /\ (InUse(e)' <=> InUse(e))
      BY <2>3, <2>4
    <3>6. QED
      BY <3>2, <3>3, <3>4, <3>5, TokenSame
  <2>6. Token(d)'
    <3>1. Token(d)
      BY <1>2 DEF TokenInv
    <3>2. AtMostOne(Stoppers(d)) /\ ~InUse(d) /\ Queued(d) = {}
      BY <2>2, <3>1 DEF Token
    <3>3. Stoppers(d)' = {} /\ ~InUse(d)' /\ Queued(d)' = {} /\ d \in released'
      BY <1>2, <2>1, <2>2, <2>4, <3>2 DEF AtMostOne
    <3>4. QED
      BY <3>3 DEF Token, AtMostOne
  <2>7. QED
    BY <2>5, <2>6 DEF TokenInv
<1>6. QED
  BY <1>3, <1>4, <1>5

(* Where nothing about references changes.                                 *)
LEMMA TokenStill ==
  ASSUME TokenInv, UNCHANGED <<current, released, ai, worker>>,
         \A e \in Dev : Queued(e)' = Queued(e) /\ (InUse(e)' <=> InUse(e))
  PROVE  TokenInv'
<1>1. \A e \in Dev : Stoppers(e)' = Stoppers(e)
  BY DEF Stoppers
<1>2. QED
  BY <1>1, TokenSame DEF TokenInv

LEMMA TokenFire ==
  ASSUME Basic, TokenInv, NEW d \in Dev, Fire(d)
  PROVE  TokenInv'
<1> DEFINE x == [run |-> "ae_runner", ai |-> d]
<1>1. /\ jobs' = Append(jobs, x) /\ jobs \in Seq(Job)
      /\ UNCHANGED <<current, held, released, ai, worker>>
  BY Parts DEF Basic, Fire, lifeUnchanged, mapVars, ghosts
<1>2. x \in Job /\ x.run # "stopper"
  BY DEF Job
<1> HIDE DEF x
<1>3. PICK r : r = jobs' /\ r = Append(jobs, x)
  BY <1>1
<1>4. \A e : Places(r, "stopper", e) = Places(jobs, "stopper", e)
  <2>1. \A e : Places(Append(jobs, x), "stopper", e) = Places(jobs, "stopper", e)
    BY <1>1, <1>2, PlacesAppend
  <2>2. QED
    BY <1>3, <2>1
<1>5. \A e \in Dev : Queued(e)' = Queued(e)
  BY <1>3, <1>4 DEF Queued
<1>6. \A e \in Dev : InUse(e)' <=> InUse(e)
  BY <1>1 DEF InUse, Users
<1>7. QED
  BY <1>1, <1>5, <1>6, TokenStill

(* A thread takes a job: a stopper's goes on from the queue to the thread. *)
LEMMA TokenTake ==
  ASSUME Basic, TokenInv, NEW w \in Worker, Take(w)
  PROVE  TokenInv'
<1> USE DEF service, mapVars, ghosts
<1> DEFINE x == Head(jobs)
<1> HIDE DEF x
<1>1. /\ jobs # <<>> /\ jobs \in Seq(Job) /\ jobs' = Tail(jobs) /\ x \in Job
      /\ worker[w] = Idle /\ Move(w, x.run, x.ai, NULL, NULL)
      /\ UNCHANGED <<current, held, released, ai>>
  BY TakeEffect DEF x
<1>2. x.ai \in Dev /\ x.run \in {"ae_runner", "starter", "stopper"}
  BY <1>1 DEF Job
<1>3. PICK t : t = jobs' /\ t = Tail(jobs)
  BY <1>1
<1>4. ASSUME NEW e \in Dev PROVE Token(e)'
  <2>1. /\ Queued(e) = Places(jobs, "stopper", e) /\ Queued(e)' = Places(t, "stopper", e)
        /\ AtMostOne(Queued(e))
    BY <1>3 DEF Queued, TokenInv, Token
  <2>2. /\ AtMostOne(Places(t, "stopper", e))
        /\ Places(jobs, "stopper", e) = {} => Places(t, "stopper", e) = {}
        /\ x.run = "stopper" /\ x.ai = e
             => Places(jobs, "stopper", e) # {} /\ Places(t, "stopper", e) = {}
        /\ ~(x.run = "stopper" /\ x.ai = e) /\ Places(jobs, "stopper", e) # {}
             => Places(t, "stopper", e) # {}
    <3>1. /\ AtMostOne(Places(jobs, "stopper", e)) => AtMostOne(Places(Tail(jobs), "stopper", e))
          /\ Places(jobs, "stopper", e) = {} => Places(Tail(jobs), "stopper", e) = {}
          /\ AtMostOne(Places(jobs, "stopper", e)) /\ Head(jobs).run = "stopper" /\ Head(jobs).ai = e
               => Places(jobs, "stopper", e) # {} /\ Places(Tail(jobs), "stopper", e) = {}
          /\ ~(Head(jobs).run = "stopper" /\ Head(jobs).ai = e) /\ Places(jobs, "stopper", e) # {}
               => Places(Tail(jobs), "stopper", e) # {}
      <4>1. jobs \in Seq(Job) /\ jobs # <<>>
        BY <1>1
      <4>2. QED
        BY ONLY <4>1, PlacesTail
    <3>2. t = Tail(jobs) /\ x = Head(jobs)
      BY <1>3 DEF x
    <3>3. QED
      BY <2>1, <3>1, <3>2
  <2>3. w \notin Stoppers(e) /\ w \notin Users(e) /\ e # NULL
    BY <1>1, NullApart DEF Stoppers, Users, Idle
  <2>4. /\ Stoppers(e)' = IF x.ai = e /\ x.run \in {"stopper", "stopped"}
                            THEN Stoppers(e) \cup {w} ELSE Stoppers(e) \ {w}
        /\ Users(e)' = Users(e) \ {w}
    BY <1>1, <2>3, MoveSets
  <2>5. InUse(e)' <=> InUse(e)
    <3>1. Users(e)' = Users(e)
      BY <2>3, <2>4
    <3>2. QED
      BY <1>1, <3>1 DEF InUse
  <2>6. Token(e)
    BY DEF TokenInv
  <2>7. CASE x.run = "stopper" /\ x.ai = e
    <3>1. Queued(e) # {} /\ Queued(e)' = {} /\ Stoppers(e)' = Stoppers(e) \cup {w}
      BY <2>1, <2>2, <2>4, <2>7
    <3>2. ~InUse(e) /\ Stoppers(e) = {} /\ e \notin released
      BY <2>6, <3>1 DEF Token
    <3>3. Stoppers(e)' = {w} /\ ~InUse(e)' /\ e \notin released'
      BY <1>1, <2>5, <3>1, <3>2
    <3>4. QED
      BY <3>1, <3>3 DEF Token, AtMostOne
  <2>8. CASE ~(x.run = "stopper" /\ x.ai = e)
    <3>1. Stoppers(e)' = Stoppers(e)
      BY <1>2, <2>3, <2>4, <2>8
    <3>2. (Queued(e)' = {} <=> Queued(e) = {}) /\ AtMostOne(Queued(e)')
      BY <2>1, <2>2, <2>8
    <3>3. /\ AtMostOne(Stoppers(e)) /\ (InUse(e) => Queued(e) = {} /\ Stoppers(e) = {} /\ e \notin released)
          /\ Queued(e) # {} => Stoppers(e) = {} /\ e \notin released
          /\ Stoppers(e) # {} => e \notin released
          /\ ai[e] # NULL => InUse(e) \/ Queued(e) # {} \/ Stoppers(e) # {} \/ e \in released
      BY <2>6 DEF Token
    <3>4. AtMostOne(Queued(e))' /\ AtMostOne(Stoppers(e))'
      BY <3>1, <3>2, <3>3 DEF AtMostOne
    <3>5. ai'[e] = ai[e] /\ (e \in released' <=> e \in released)
      BY <1>1
    <3>6. QED
      BY <2>5, <3>1, <3>2, <3>3, <3>4, <3>5 DEF Token
  <2>9. QED
    BY <2>7, <2>8
<1>5. QED
  BY <1>4 DEF TokenInv

(* A device comes into the map, and the one that was there goes.           *)
LEMMA TokenChange ==
  ASSUME Basic, TokenInv, NEW n \in Dev \cup {NULL}, NEW started \in BOOLEAN,
         NEW onChange \in BOOLEAN, ChangeMap(n, started, onChange)
  PROVE  TokenInv'
<1> DEFINE last == current # NULL /\ current \notin held /\ Users(current) = {}
           q == IF last THEN jobs \o autoevent_stop(current) ELSE jobs
           r == IF n # NULL /\ started THEN autoevent_start(n) ELSE <<>>
<1>1. /\ current \in Dev \cup {NULL} /\ jobs \in Seq(Job) /\ NoneInv
      /\ ai \in [Dev -> AutoImpl \cup {NULL, Freed}]
  BY Parts DEF Basic
<1>2. /\ q \in Seq(Job)
      /\ ~last \/ ai[current] = NULL => q = jobs
      /\ \A e : e # current => Places(q, "stopper", e) = Places(jobs, "stopper", e)
      /\ last /\ ai[current] # NULL /\ Places(jobs, "stopper", current) = {}
           => AtMostOne(Places(q, "stopper", current)) /\ Places(q, "stopper", current) # {}
  <2>1. CASE last
    <3>1. current \in Dev /\ q = jobs \o autoevent_stop(current)
      BY <1>1, <2>1
    <3>2. PICK d \in Dev : d = current
      BY <3>1
    <3>3. LET x == jobs \o autoevent_stop(d) IN
          /\ x \in Seq(Job)
          /\ ai[d] = NULL => x = jobs
          /\ \A run, e : run # "stopper" \/ e # d => Places(x, run, e) = Places(jobs, run, e)
          /\ ai[d] # NULL /\ Places(jobs, "stopper", d) = {}
               => AtMostOne(Places(x, "stopper", d)) /\ Places(x, "stopper", d) # {}
      BY <1>1, StopAppend
    <3>4. QED
      BY <2>1, <3>1, <3>2, <3>3
  <2>2. CASE ~last
    BY <1>1, <2>2
  <2>3. QED
    BY <2>1, <2>2
<1>3. jobs' = q \o r
  BY DEF ChangeMap
<1> HIDE DEF q
<1>4. PICK z : z = jobs' /\ z = q \o r
  BY <1>3
<1>5. \A e : Places(z, "stopper", e) = Places(q, "stopper", e)
  <2>1. CASE n = NULL \/ ~started
    BY <1>2, <1>4, <2>1, ConcatEmptySeq
  <2>2. CASE n \in Dev /\ started
    <3>1. n # NULL
      BY <2>2, NullApart
    <3>2. z = q \o autoevent_start(n)
      BY <1>4, <2>2, <3>1
    <3>3. q \in Seq(Job)
      BY <1>2
    <3>4. QED
      BY <2>2, <3>2, <3>3, StartAppend
  <2>3. QED
    BY <2>1, <2>2
<1>6. \A e \in Dev : /\ Queued(e) = Places(jobs, "stopper", e)
                     /\ Queued(e)' = Places(q, "stopper", e)
  BY <1>4, <1>5 DEF Queued
<1>7. /\ current' = n /\ current # n /\ UNCHANGED <<held, worker, released>>
      /\ n # NULL => ~InUse(n) /\ ai[n] = NULL
  BY DEF ChangeMap, lifeUnchanged, Fresh, ghosts
<1>8. \A e \in Dev \ {n} : ai'[e] = ai[e]
  BY <1>1 DEF ChangeMap, Starts
<1>9. \A e \in Dev : /\ Users(e)' = Users(e) /\ Stoppers(e)' = Stoppers(e)
                     /\ InUse(e) <=> current = e \/ e \in held \/ Users(e) # {}
                     /\ InUse(e)' <=> n = e \/ e \in held \/ Users(e) # {}
  BY <1>7 DEF InUse, Users, Stoppers
<1>10. ASSUME NEW e \in Dev, e # current, e # n PROVE Token(e)'
  <2>1. Token(e)
    BY DEF TokenInv
  <2>2. (InUse(e)' <=> InUse(e)) /\ Queued(e)' = Queued(e) /\ Stoppers(e)' = Stoppers(e)
    BY <1>2, <1>6, <1>9, <1>10
  <2>3. (e \in released' <=> e \in released) /\ ai'[e] = ai[e]
    BY <1>7, <1>8, <1>10
  <2>4. QED
    BY <2>1, <2>2, <2>3, TokenSame
<1>11. ASSUME current \in Dev PROVE \A e \in Dev : e = current => Token(e)'
  <2>1. PICK e \in Dev : e = current
    BY <1>11
  <2>2. e # NULL /\ e # n
    BY <1>7, <2>1, NullApart
  <2>3. InUse(e) /\ (InUse(e)' <=> ~last) /\ Stoppers(e)' = Stoppers(e)
    BY <1>9, <2>1, <2>2
  <2>4. /\ InUse(e)' \/ ai[e] = NULL => Queued(e)' = Queued(e)
        /\ ~InUse(e)' /\ ai[e] # NULL /\ Queued(e) = {}
             => AtMostOne(Queued(e)') /\ Queued(e)' # {}
    BY <1>2, <1>6, <2>1, <2>3
  <2>5. (e \in released' <=> e \in released) /\ ai'[e] = ai[e]
    BY <1>7, <1>8, <2>2
  <2>6. Token(e)
    BY DEF TokenInv
  <2>7. Token(e)'
    BY <2>3, <2>4, <2>5, <2>6, TokenLost
  <2>8. QED
    BY <2>1, <2>7
<1>12. ASSUME NEW e \in Dev, e = n PROVE Token(e)'
  <2>1. ~InUse(e) /\ ai[e] = NULL /\ e # current
    BY <1>7, <1>12, NullApart
  <2>2. /\ \A i \in DOMAIN jobs : jobs[i].ai # e
        /\ \A w \in Worker : worker[w].ai # e
        /\ e \notin released
    BY <1>1, <2>1 DEF NoneInv
  <2>3. Places(jobs, "stopper", e) = {} /\ Stoppers(e) = {}
    BY <2>2 DEF Places, Stoppers
  <2>4. Queued(e)' = {} /\ Stoppers(e)' = {} /\ e \notin released' /\ InUse(e)'
    BY <1>2, <1>6, <1>7, <1>9, <1>12, <2>1, <2>2, <2>3
  <2>5. QED
    BY <2>4 DEF Token, AtMostOne
<1>13. QED
  BY <1>10, <1>11, <1>12 DEF TokenInv

LEMMA TokenNext == Basic /\ TokenInv /\ [Next]_vars => TokenInv'
<1> SUFFICES ASSUME Basic, TokenInv, [Next]_vars PROVE TokenInv'
  OBVIOUS
<1> USE DEF lifeUnchanged, mapVars, ghosts
<1>1. held \subseteq Dev /\ current \in Dev \cup {NULL}
  BY DEF Basic, TypeOK
<1>2. CASE register_autoevent_handlers \/ Start \/ Stop \/ Stopped \/ UNCHANGED vars
  <2>1. UNCHANGED <<current, held, jobs, released, ai, worker>>
    BY <1>2 DEF register_autoevent_handlers, Start, Stop, Stopped, vars
  <2>2. \A e \in Dev : Queued(e)' = Queued(e) /\ (InUse(e)' <=> InUse(e))
    BY <2>1 DEF Queued, InUse, Users
  <2>3. QED
    BY <2>1, <2>2, TokenStill
<1>3. CASE Hold
  <2>1. UNCHANGED <<current, jobs, released, ai, worker>> /\ held' = held \cup {current}
    BY <1>3 DEF Hold
  <2>2. \A e \in Dev : Queued(e)' = Queued(e) /\ (InUse(e)' <=> InUse(e))
    BY <2>1 DEF Queued, InUse, Users
  <2>3. QED
    BY <2>1, <2>2, TokenStill
<1>4. CASE Clear
  <2>1. /\ current # NULL /\ current' = NULL /\ UNCHANGED <<held, ai, released, worker>>
        /\ jobs' = IF current \in held \/ Users(current) # {} THEN jobs
                   ELSE jobs \o autoevent_stop(current)
    BY <1>4 DEF Clear
  <2>2. PICK e \in Dev : e = current
    BY <1>1, <2>1
  <2>3. \A f \in Dev : /\ Users(f)' = Users(f) /\ Stoppers(f)' = Stoppers(f) /\ f # NULL
                       /\ InUse(f) <=> e = f \/ f \in held \/ Users(f) # {}
                       /\ InUse(f)' <=> f \in held \/ Users(f) # {}
    BY <2>1, <2>2, NullApart DEF Users, Stoppers, InUse
  <2>4. jobs' = IF InUse(e)' THEN jobs ELSE jobs \o autoevent_stop(e)
    BY <2>1, <2>2, <2>3
  <2>5. QED
    BY <2>1, <2>2, <2>3, <2>4, TokenDrop
<1>5. ASSUME NEW e \in Dev, LetGo(e) PROVE TokenInv'
  <2>1. /\ e \in held /\ held' = held \ {e} /\ UNCHANGED <<current, ai, released, worker>>
        /\ jobs' = IF current = e \/ Users(e) # {} THEN jobs ELSE jobs \o autoevent_stop(e)
    BY <1>5 DEF LetGo
  <2>2. \A f \in Dev : /\ Users(f)' = Users(f) /\ Stoppers(f)' = Stoppers(f)
                       /\ InUse(f) <=> current = f \/ f \in held \/ Users(f) # {}
                       /\ InUse(f)' <=> current = f \/ f \in held' \/ Users(f) # {}
    BY <2>1 DEF Users, Stoppers, InUse
  <2>3. jobs' = IF InUse(e)' THEN jobs ELSE jobs \o autoevent_stop(e)
    BY <2>1, <2>2
  <2>4. QED
    BY <2>1, <2>2, <2>3, TokenDrop
<1>6. CASE Service
  BY <1>2, <1>3, <1>4, <1>5, <1>6, TokenChange DEF Service
<1>7. QED
  BY <1>2, <1>6, TokenFire, TokenTake, TokenRunner, TokenStopper DEF Next, Work

----------------------------------------------------------------------------
(* The references to an autoevent are counted                              *)

LEMMA CountType == ASSUME TypeOK, NEW d \in Dev PROVE Count(d) \in Nat
<1>1. Cardinality(Runners(d)) \in Nat /\ leaked[d] \in Nat
  BY RunnersFinite, Parts
<1>2. QED
  BY <1>1 DEF Count

LEMMA CountSame ==
  ASSUME NEW d \in Dev, Runners(d)' = Runners(d), d \in released' <=> d \in released,
         leaked'[d] = leaked[d]
  PROVE  Count(d)' = Count(d)
BY DEF Count

LEMMA RefsKept ==
  ASSUME RefsInv, NEW d \in Dev, Count(d)' = Count(d),
         ai'[d] = ai[d] \/ (ai[d] \in AutoImpl /\ ai'[d] \in AutoImpl /\ ai'[d].refs = ai[d].refs)
  PROVE  Counted(d)'
<1>1. Counted(d)
  BY DEF RefsInv
<1>2. CASE ai'[d] = ai[d]
  BY <1>1, <1>2 DEF Counted
<1>3. CASE ai[d] \in AutoImpl /\ ai'[d] \in AutoImpl /\ ai'[d].refs = ai[d].refs
  <2>1. ai'[d] # Freed
    BY <1>3, NullApart
  <2>2. QED
    BY <1>1, <1>3, <2>1 DEF Counted
<1>4. QED
  BY <1>2, <1>3

(* The thread w neither becomes nor ceases to be a runner of d.            *)
LEMMA RunnersSame ==
  ASSUME NEW w \in Worker, NEW pc, NEW a, NEW dev, NEW res, Move(w, pc, a, dev, res), NEW d,
         a = d /\ pc \in Running <=> worker[w].ai = d /\ worker[w].pc \in Running
  PROVE  Runners(d)' = Runners(d)
<1>1. w \in Runners(d) <=> worker[w].ai = d /\ worker[w].pc \in Running
  BY DEF Runners
<1>2. Runners(d)' = IF a = d /\ pc \in Running THEN Runners(d) \cup {w} ELSE Runners(d) \ {w}
  BY MoveSets
<1>3. QED
  BY <1>1, <1>2

(* A thread goes on, as a runner or not, and the counts stay.              *)
LEMMA RefsWork ==
  ASSUME Basic, UNCHANGED <<leaked, released>>, NEW w \in Worker, NEW d \in Dev,
         d = worker[w].ai,
         \/ UNCHANGED ai
         \/ \E last : ai[d] \in AutoImpl /\ SetRefs(d, ai[d].refs, last),
         \/ UNCHANGED worker
         \/ \E pc, a, dev, res : /\ Move(w, pc, a, dev, res)
                                 /\ a = d \/ pc = "idle"
                                 /\ pc \in Running <=> worker[w].pc \in Running
  PROVE  RefsInv'
<1>1. ASSUME NEW e \in Dev PROVE Runners(e)' = Runners(e)
  <2>1. CASE UNCHANGED worker
    BY <2>1 DEF Runners
  <2>2. CASE UNCHANGED worker => FALSE
    <3>1. PICK pc, a, dev, res : /\ Move(w, pc, a, dev, res)
                                 /\ a = d \/ pc = "idle"
                                 /\ pc \in Running <=> worker[w].pc \in Running
      BY <2>2
    <3>2. a = e /\ pc \in Running <=> worker[w].ai = e /\ worker[w].pc \in Running
      BY <3>1 DEF Running
    <3>3. QED
      BY <3>1, <3>2, RunnersSame
  <2>3. QED
    BY <2>1, <2>2
<1>2. \A e \in Dev : Count(e)' = Count(e)
  BY <1>1, CountSame
<1>3. \A e \in Dev : \/ ai'[e] = ai[e]
                     \/ ai[e] \in AutoImpl /\ ai'[e] \in AutoImpl /\ ai'[e].refs = ai[e].refs
  BY DEF SetRefs
<1>4. QED
  BY <1>2, <1>3, RefsKept DEF Basic, RefsInv

(* One more or one less of the references to d.                            *)
LEMMA RefsOther ==
  ASSUME Basic, NEW w \in Worker, NEW pc, NEW a, NEW dev, NEW res, Move(w, pc, a, dev, res),
         NEW d \in Dev, d = worker[w].ai, a = d \/ pc = "idle",
         NEW e \in Dev, e # d, e \in released' <=> e \in released, leaked'[e] = leaked[e],
         ai'[e] = ai[e]
  PROVE  Counted(e)'
<1>1. a = e /\ pc \in Running <=> worker[w].ai = e /\ worker[w].pc \in Running
  BY DEF Running
<1>2. Runners(e)' = Runners(e)
  BY <1>1, RunnersSame
<1>3. QED
  BY <1>2, CountSame, RefsKept DEF Basic

LEMMA RefsTaken ==
  ASSUME Basic, UNCHANGED <<leaked, released>>, NEW w \in Worker, NEW d \in Dev,
         d = worker[w].ai, worker[w].pc = "ae_runner", NEW dev, NEW res,
         Move(w, "lookup", d, dev, res), ai[d] \in AutoImpl,
         NEW last, SetRefs(d, ai[d].refs + 1, last)
  PROVE  RefsInv'
<1>1. ASSUME NEW e \in Dev, e # d PROVE Counted(e)'
  BY <1>1, RefsOther DEF SetRefs
<1>2. Counted(d)'
  <2>0. "lookup" \in Running /\ w \notin Runners(d)
    BY DEF Runners, Running
  <2>1. Runners(d)' = Runners(d) \cup {w} /\ w \notin Runners(d)
    BY <2>0, MoveSets
  <2>2. Cardinality(Runners(d))' = Cardinality(Runners(d)) + 1
    BY <2>1, RunnersFinite, FS_AddElement
  <2>3. Count(d)' = Count(d) + 1
    <3>1. Cardinality(Runners(d)) \in Nat /\ leaked[d] \in Nat
      BY RunnersFinite, Parts DEF Basic
    <3>2. QED
      BY <2>2, <3>1 DEF Count
  <2>4. ai'[d].refs = ai[d].refs + 1 /\ ai'[d] # Freed
    BY NullApart DEF SetRefs
  <2>5. ai[d].refs = Count(d) /\ Count(d) \in Nat
    BY CountType DEF Basic, RefsInv, Counted
  <2>6. QED
    BY <2>3, <2>4, <2>5 DEF Counted
<1>3. QED
  BY <1>1, <1>2 DEF RefsInv

LEMMA RefsGiven ==
  ASSUME Basic, UNCHANGED leaked, NEW w \in Worker, NEW d \in Dev, d = worker[w].ai,
         Move(w, "idle", NULL, NULL, NULL), ai[d] \in AutoImpl, autoimpl_release(d),
         \/ worker[w].pc \in Running /\ UNCHANGED released
         \/ worker[w].pc \notin Running /\ d \notin released /\ released' = released \cup {d}
  PROVE  RefsInv'
<1>0. /\ ai[d].refs \in Nat \ {0}
      /\ ai[d].refs = 1 => SetFreed(d)
      /\ ai[d].refs # 1 => SetRefs(d, ai[d].refs - 1, ai[d].last)
  BY Released DEF Basic
<1>1. ASSUME NEW e \in Dev, e # d PROVE Counted(e)'
  <2>1. ai'[e] = ai[e]
    BY <1>0, <1>1 DEF SetRefs, SetFreed
  <2>2. e \in released' <=> e \in released
    BY <1>1
  <2>3. QED
    BY <1>1, <2>1, <2>2, RefsOther
<1>2. Counted(d)'
  <2>0. d # NULL /\ (w \in Runners(d) <=> worker[w].pc \in Running)
    BY NullApart DEF Runners
  <2>1. Runners(d)' = Runners(d) \ {w} /\ (w \in Runners(d) <=> worker[w].pc \in Running)
    BY <2>0, MoveSets
  <2>2. Cardinality(Runners(d)) \in Nat /\ leaked[d] \in Nat
    BY RunnersFinite, Parts DEF Basic
  <2>3. Count(d)' = Count(d) - 1 /\ Count(d) \in Nat
    <3>1. CASE worker[w].pc \in Running /\ UNCHANGED released
      <4>1. Cardinality(Runners(d))' = Cardinality(Runners(d)) - 1
        BY ZenonT(60), <2>1, <3>1, RunnersFinite, FS_RemoveElement
      <4>2. QED
        BY <2>2, <3>1, <4>1 DEF Count
    <3>2. CASE worker[w].pc \notin Running /\ d \notin released /\ released' = released \cup {d}
      <4>1. Runners(d)' = Runners(d) /\ d \in released'
        BY <2>1, <3>2
      <4>2. Cardinality(Runners(d))' = Cardinality(Runners(d))
        BY <4>1
      <4>3. QED
        BY <2>2, <3>2, <4>1, <4>2 DEF Count
    <3>3. QED
      BY <3>1, <3>2
  <2>4. ai[d].refs = Count(d)
    BY DEF Basic, RefsInv, Counted
  <2>5. CASE ai[d].refs = 1
    <3>1. ai'[d] = Freed /\ Count(d)' = 0
      BY <1>0, <2>3, <2>4, <2>5 DEF SetFreed
    <3>2. QED
      BY <3>1, NullApart DEF Counted
  <2>6. CASE ai[d].refs # 1
    <3>1. ai'[d] \in AutoImpl /\ ai'[d].refs = ai[d].refs - 1
      BY <1>0, <2>6 DEF SetRefs
    <3>2. ai'[d] # Freed
      BY <3>1, NullApart
    <3>3. Count(d)' > 0 /\ ai'[d].refs = Count(d)'
      BY <1>0, <2>3, <2>4, <2>6, <3>1
    <3>4. QED
      BY <3>2, <3>3 DEF Counted
  <2>7. QED
    BY <2>5, <2>6
<1>3. QED
  BY <1>1, <1>2 DEF RefsInv

LEMMA RefsRefused ==
  ASSUME Basic, NEW w \in Worker, Refused(w)
  PROVE  RefsInv'
<1>0. PICK d : d = worker[w].ai
  OBVIOUS
<1>1. /\ worker[w].pc = "check" /\ leaked' = [leaked EXCEPT ![d] = @ + 1]
      /\ Move(w, "idle", NULL, NULL, NULL) /\ UNCHANGED <<ai, released>>
  BY <1>0, RefusedEffect
<1>2. d \in Dev /\ "check" \in Running /\ "idle" \notin Running
  BY <1>0, <1>1, WorkerHas DEF Running
<1>3. leaked \in [Dev -> Nat]
  BY Parts DEF Basic
<1>4. ASSUME NEW e \in Dev, e # d PROVE Counted(e)'
  <2>1. leaked'[e] = leaked[e]
    BY <1>1, <1>3, <1>4
  <2>2. QED
    BY <1>0, <1>1, <1>2, <1>4, <2>1, RefsOther
<1>5. Counted(d)'
  <2>0. d # NULL /\ w \in Runners(d)
    BY <1>0, <1>1, <1>2, NullApart DEF Runners
  <2>1. Runners(d)' = Runners(d) \ {w}
    BY <1>1, <2>0, MoveSets
  <2>2. Cardinality(Runners(d))' = Cardinality(Runners(d)) - 1
    BY <1>2, <2>0, <2>1, RunnersFinite, FS_RemoveElement
  <2>3. leaked'[d] = leaked[d] + 1 /\ leaked[d] \in Nat /\ Cardinality(Runners(d)) \in Nat
    BY <1>1, <1>2, <1>3, RunnersFinite
  <2>4. Count(d)' = Count(d)
    BY <1>1, <2>2, <2>3 DEF Count
  <2>5. QED
    BY <1>1, <1>2, <2>4, RefsKept DEF Basic
<1>6. QED
  BY <1>4, <1>5 DEF RefsInv

LEMMA RefsWorker ==
  ASSUME Basic, TokenInv, NEW w \in Worker,
         ae_runner(w) \/ starter(w) \/ StoreHandle(w) \/ stopper(w) \/ StopperReleases(w)
  PROVE  RefsInv'
<1> USE DEF service, mapVars, ghosts
<1>0. PICK d : d = worker[w].ai
  OBVIOUS
<1>1. worker[w].pc # "idle"
  BY DEF ae_runner, Begin, LookUp, Refused, Get, Compare, AssertionFailed, Post, FreeLast,
         StoreLast, Finish, Unknown, EndRunner, starter, StoreHandle, stopper,
         StopperReleases, At
<1>2. d \in Dev /\ (worker[w].pc \in Running => ai[d] \in AutoImpl)
  BY <1>0, <1>1, WorkerHas
<1>3. ASSUME UNCHANGED <<leaked, released>>,
             \/ UNCHANGED ai
             \/ \E last : ai[d] \in AutoImpl /\ SetRefs(d, ai[d].refs, last),
             \/ UNCHANGED worker
             \/ \E pc, dev, res : /\ Move(w, pc, d, dev, res)
                                  /\ pc \in Running <=> worker[w].pc \in Running
      PROVE  RefsInv'
  <2>1. \/ UNCHANGED worker
        \/ \E pc, a, dev, res : /\ Move(w, pc, a, dev, res)
                                /\ a = d \/ pc = "idle"
                                /\ pc \in Running <=> worker[w].pc \in Running
    BY <1>3
  <2>2. QED
    BY <1>0, <1>2, <1>3, <2>1, RefsWork
<1>4. CASE Begin(w)
  <2>1. /\ worker[w].pc = "ae_runner" /\ UNCHANGED <<leaked, released>>
        /\ \/ UNCHANGED <<ai, worker>>
           \/ /\ ai[d] \in AutoImpl /\ SetRefs(d, ai[d].refs + 1, ai[d].last)
              /\ Move(w, "lookup", d, worker[w].dev, worker[w].res)
    BY <1>0, <1>4, BeginEffect
  <2>2. CASE UNCHANGED <<ai, worker>>
    BY <1>3, <2>1, <2>2
  <2>3. CASE /\ ai[d] \in AutoImpl /\ SetRefs(d, ai[d].refs + 1, ai[d].last)
             /\ Move(w, "lookup", d, worker[w].dev, worker[w].res)
    BY <1>0, <1>2, <2>1, <2>3, RefsTaken
  <2>4. QED
    BY <2>1, <2>2, <2>3
<1>5. CASE LookUp(w)
  <2>1. /\ worker[w].pc = "lookup" /\ UNCHANGED <<leaked, released, ai>>
        /\ \/ UNCHANGED worker
           \/ \E pc \in {"unknown", "check"} : Move(w, pc, d, current, worker[w].res)
    BY <1>0, <1>5, LookUpEffect
  <2>2. QED
    BY <1>3, <2>1 DEF Running
<1>6. ASSUME NEW r \in Value \cup {NULL}, Get(w, r) PROVE RefsInv'
  <2>1. /\ worker[w].pc = "check" /\ UNCHANGED <<leaked, released, ai>>
        /\ \E pc \in {"finish", "compare"} : Move(w, pc, d, worker[w].dev, r)
    BY <1>0, <1>6, GetEffect
  <2>2. QED
    BY <1>3, <2>1 DEF Running
<1>7. CASE Compare(w)
  <2>1. /\ worker[w].pc = "compare" /\ UNCHANGED <<leaked, released, ai>>
        /\ \/ UNCHANGED worker
           \/ \E pc \in {"finish", "post"} : Move(w, pc, d, worker[w].dev, worker[w].res)
    BY <1>0, <1>7, CompareEffect
  <2>2. QED
    BY <1>3, <2>1 DEF Running
<1>8. CASE AssertionFailed(w) \/ \E ok \in BOOLEAN : Post(w, ok)
  <2>1. /\ worker[w].pc = "post" /\ UNCHANGED <<leaked, released, ai>>
        /\ \E pc \in {"finish", "free last"} : Move(w, pc, d, worker[w].dev, worker[w].res)
    BY <1>0, <1>8, AssertionEffect, PostEffect
  <2>2. QED
    BY <1>3, <2>1 DEF Running
<1>9. CASE FreeLast(w) \/ StoreLast(w)
  <2>1. /\ worker[w].pc \in {"free last", "store"} /\ UNCHANGED <<leaked, released>>
        /\ UNCHANGED ai \/ \E last : SetRefs(d, ai[d].refs, last)
        /\ \/ UNCHANGED worker
           \/ \E pc \in {"store", "finish"} : Move(w, pc, d, worker[w].dev, worker[w].res)
    BY <1>0, <1>9, FreeLastEffect, StoreLastEffect
  <2>2. worker[w].pc \in Running /\ ai[d] \in AutoImpl
    BY <1>2, <2>1 DEF Running
  <2>3. QED
    BY <1>3, <2>1, <2>2 DEF Running
<1>10. CASE Finish(w) \/ Unknown(w)
  <2>1. /\ worker[w].pc \in {"finish", "unknown"} /\ UNCHANGED <<leaked, released, ai>>
        /\ UNCHANGED worker \/ \E dev, res : Move(w, "release", d, dev, res)
    BY <1>0, <1>10, FinishEffect, UnknownEffect
  <2>2. QED
    BY <1>3, <2>1 DEF Running
<1>11. CASE EndRunner(w)
  <2>1. /\ worker[w].pc = "release" /\ autoimpl_release(d) /\ UNCHANGED <<leaked, released>>
        /\ Move(w, "idle", NULL, NULL, NULL)
    BY <1>0, <1>11, EndEffect
  <2>2. worker[w].pc \in Running
    BY <2>1 DEF Running
  <2>3. QED
    BY <1>0, <1>2, <2>1, <2>2, RefsGiven
<1>12. CASE starter(w) \/ stopper(w)
  <2>1. /\ worker[w].pc \in {"starter", "stopper"} /\ UNCHANGED <<leaked, released, ai>>
        /\ \/ UNCHANGED worker
           \/ \E pc \in {"started", "stopped"} : Move(w, pc, d, worker[w].dev, worker[w].res)
    BY <1>0, <1>12, StarterEffect, StopperEffect
  <2>2. QED
    BY <1>3, <2>1 DEF Running
<1>13. CASE StoreHandle(w)
  <2>1. /\ worker[w].pc = "started" /\ UNCHANGED <<leaked, released>>
        /\ \/ UNCHANGED <<ai, worker>>
           \/ /\ ai[d] \in AutoImpl /\ SetRefs(d, ai[d].refs, ai[d].last)
              /\ Move(w, "idle", NULL, NULL, NULL)
    BY <1>0, <1>13, StoreHandleEffect
  <2>2. \/ UNCHANGED ai
        \/ \E last : ai[d] \in AutoImpl /\ SetRefs(d, ai[d].refs, last)
    BY <2>1
  <2>3. "idle" \in Running <=> worker[w].pc \in Running
    BY <2>1 DEF Running
  <2>4. \/ UNCHANGED worker
        \/ \E pc, a, dev, res : /\ Move(w, pc, a, dev, res)
                                /\ a = d \/ pc = "idle"
                                /\ pc \in Running <=> worker[w].pc \in Running
    BY <2>1, <2>3
  <2>5. QED
    BY <1>0, <1>2, <2>1, <2>2, <2>4, RefsWork
<1>14. CASE StopperReleases(w)
  <2>1. /\ worker[w].pc = "stopped" /\ autoimpl_release(d) /\ UNCHANGED leaked
        /\ released' = released \cup {d} /\ Move(w, "idle", NULL, NULL, NULL)
    BY <1>0, <1>14, StopperReleasesEffect
  <2>2. worker[w].pc \notin Running /\ ai[d] \in AutoImpl /\ d \notin released
    BY <1>0, <2>1, StopperHas DEF Running
  <2>3. QED
    BY <1>0, <1>2, <2>1, <2>2, RefsGiven
<1>15. QED
  BY <1>4, <1>5, <1>6, <1>7, <1>8, <1>9, <1>10, <1>11, <1>12, <1>13, <1>14, RefsRefused
     DEF ae_runner

(* A device that comes into the map has the only reference.                *)
LEMMA RefsChange ==
  ASSUME Basic, NEW n \in Dev \cup {NULL}, NEW started \in BOOLEAN, NEW onChange \in BOOLEAN,
         ChangeMap(n, started, onChange)
  PROVE  RefsInv'
<1>1. UNCHANGED <<worker, released, leaked>> /\ (n # NULL => ai[n] = NULL)
  BY DEF ChangeMap, lifeUnchanged, ghosts, Fresh
<1>2. \A e \in Dev : Count(e)' = Count(e)
  BY <1>1 DEF Count, Runners
<1>3. ASSUME NEW e \in Dev, ai'[e] = ai[e] PROVE Counted(e)'
  BY <1>2, <1>3, RefsKept DEF Basic
<1>4. CASE UNCHANGED ai
  BY <1>3, <1>4 DEF RefsInv
<1>5. CASE n \in Dev /\ ai' = [ai EXCEPT ![n] = new(onChange)]
  <2>1. ai \in [Dev -> AutoImpl \cup {NULL, Freed}]
    BY Parts DEF Basic
  <2>2. new(onChange) \in AutoImpl /\ new(onChange).refs = 1
    BY DEF new, AutoImpl
  <2> DEFINE a == new(onChange)
  <2> HIDE DEF a
  <2>3. ai'[n] \in AutoImpl /\ ai'[n].refs = 1 /\ \A e \in Dev \ {n} : ai'[e] = ai[e]
    BY <1>5, <2>1, <2>2 DEF a
  <2>4. n \notin released /\ leaked[n] = 0 /\ Runners(n) = {}
    <3>1. ai[n] = NULL
      BY <1>1, <1>5, NullApart
    <3>2. \A w \in Worker : worker[w].ai # n
      BY <1>5, <3>1 DEF Basic, NoneInv
    <3>3. QED
      BY <1>5, <3>1, <3>2 DEF Basic, NoneInv, Runners
  <2>5. Count(n) = 1
    BY <2>4, FS_EmptySet DEF Count
  <2>6. Counted(n)'
    <3>1. Count(n)' = 1 /\ ai'[n] # Freed
      BY <1>2, <1>5, <2>3, <2>5, NullApart
    <3>2. QED
      BY <2>3, <3>1 DEF Counted
  <2>7. QED
    BY <1>3, <2>3, <2>6 DEF RefsInv
<1>6. QED
  BY <1>4, <1>5 DEF ChangeMap, Starts

LEMMA RefsNext == Basic /\ TokenInv /\ [Next]_vars => RefsInv'
<1> SUFFICES ASSUME Basic, TokenInv, [Next]_vars PROVE RefsInv'
  OBVIOUS
<1> USE DEF lifeUnchanged, mapVars, ghosts
<1>1. ASSUME UNCHANGED <<ai, worker, leaked, released>> PROVE RefsInv'
  <2>1. \A e \in Dev : Count(e)' = Count(e) /\ ai'[e] = ai[e]
    BY <1>1 DEF Count, Runners
  <2>2. QED
    BY <2>1, RefsKept DEF Basic, RefsInv
<1>2. CASE \/ register_autoevent_handlers \/ Start \/ Hold \/ Stop \/ Clear \/ Stopped
           \/ (\E d \in Dev : LetGo(d) \/ Fire(d)) \/ UNCHANGED vars
  <2>1. UNCHANGED <<ai, worker, leaked, released>>
    BY <1>2 DEF register_autoevent_handlers, Start, Hold, Stop, Clear, Stopped, LetGo, Fire, vars
  <2>2. QED
    BY <1>1, <2>1
<1>3. ASSUME NEW w \in Worker, Take(w) PROVE RefsInv'
  <2>0. PICK x : x = Head(jobs)
    OBVIOUS
  <2>1. /\ x \in Job /\ worker[w] = Idle /\ Move(w, x.run, x.ai, NULL, NULL)
        /\ UNCHANGED <<ai, leaked, released>>
    BY <1>3, <2>0, TakeEffect
  <2>2. x.run \notin Running /\ worker[w].pc \notin Running
    <3>1. x.run \in {"ae_runner", "starter", "stopper"}
      BY <2>1 DEF Job
    <3>2. worker[w].pc = "idle"
      BY <2>1 DEF Idle
    <3>3. QED
      BY <3>1, <3>2 DEF Running
  <2>3. \A e \in Dev : Runners(e)' = Runners(e)
    BY <2>1, <2>2, RunnersSame
  <2>4. \A e \in Dev : Count(e)' = Count(e) /\ ai'[e] = ai[e]
    BY <2>1, <2>3, CountSame
  <2>5. QED
    BY <2>4, RefsKept DEF Basic, RefsInv
<1>4. CASE Service
  BY <1>2, <1>4, RefsChange DEF Service
<1>5. QED
  BY <1>2, <1>3, <1>4, RefsWorker DEF Next, Work

----------------------------------------------------------------------------
(* The schedules                                                           *)

LEMMA SchedStep ==
  ASSUME SchedInv, own' = own,
         \A d \in Dev : sched'[d] = "active" =>
           /\ sched[d] = "active" /\ (d \in released' => d \in released)
           /\ \A w \in Worker : worker'[w].ai = d /\ worker'[w].pc = "stopped"
                => worker[w].ai = d /\ worker[w].pc = "stopped"
  PROVE  SchedInv'
BY DEF SchedInv

LEMMA SchedWork ==
  ASSUME SchedInv, UNCHANGED <<own, sched, released>>, NEW w \in Worker,
         \/ UNCHANGED worker
         \/ \E pc, a, dev, res : Move(w, pc, a, dev, res) /\ pc # "stopped"
  PROVE  SchedInv'
<1>1. \A v \in Worker : worker'[v].pc = "stopped" => worker'[v] = worker[v]
  BY DEF Move
<1>2. \A d \in Dev : d \in released' => d \in released
  OBVIOUS
<1>3. QED
  BY <1>1, <1>2, SchedStep

LEMMA SchedWorker ==
  ASSUME Basic, SchedInv, NEW w \in Worker,
         ae_runner(w) \/ starter(w) \/ StoreHandle(w) \/ stopper(w) \/ StopperReleases(w)
  PROVE  SchedInv'
<1> USE DEF service, mapVars, ghosts
<1>0. PICK d : d = worker[w].ai
  OBVIOUS
<1>1. sched \in [Dev -> {"none", "active", "removed", "deleted"}]
  BY Parts DEF Basic
<1>2. CASE Begin(w) \/ LookUp(w) \/ Refused(w) \/ (\E r \in Value \cup {NULL} : Get(w, r))
  <2>1. /\ UNCHANGED <<own, sched, released>>
        /\ \/ UNCHANGED worker
           \/ \E pc \in {"lookup", "unknown", "check", "idle", "finish", "compare"} : \E a, dev, res :
                Move(w, pc, a, dev, res)
    <3>1. CASE Begin(w) \/ LookUp(w)
      BY <1>0, <3>1, BeginEffect, LookUpEffect
    <3>2. CASE Refused(w) \/ (\E r \in Value \cup {NULL} : Get(w, r))
      BY <1>0, <3>2, RefusedEffect, GetEffect
    <3>3. QED
      BY <1>2, <3>1, <3>2
  <2>2. QED
    BY <2>1, SchedWork
<1>3. CASE Compare(w) \/ AssertionFailed(w) \/ (\E ok \in BOOLEAN : Post(w, ok))
  <2>1. /\ UNCHANGED <<own, sched, released>>
        /\ \/ UNCHANGED worker
           \/ \E pc \in {"finish", "post", "free last"} : \E a, dev, res : Move(w, pc, a, dev, res)
    BY <1>0, <1>3, CompareEffect, AssertionEffect, PostEffect
  <2>2. QED
    BY <2>1, SchedWork
<1>4. CASE FreeLast(w) \/ StoreLast(w) \/ Finish(w) \/ EndRunner(w)
  <2>1. /\ UNCHANGED <<own, sched, released>>
        /\ \/ UNCHANGED worker
           \/ \E pc \in {"store", "finish", "release", "idle"} : \E a, dev, res :
                Move(w, pc, a, dev, res)
    BY <1>0, <1>4, FreeLastEffect, StoreLastEffect, FinishEffect, EndEffect
  <2>2. QED
    BY <2>1, SchedWork
<1>5. CASE starter(w) \/ StoreHandle(w)
  <2>1. /\ UNCHANGED <<own, sched, released>>
        /\ \/ UNCHANGED worker
           \/ \E pc \in {"started", "idle"} : \E a, dev, res : Move(w, pc, a, dev, res)
    BY <1>0, <1>5, StarterEffect, StoreHandleEffect
  <2>2. QED
    BY <2>1, SchedWork
<1>6. CASE Unknown(w)
  <2>1. /\ UNCHANGED <<own, released>>
        /\ sched' = sched \/ sched' = [sched EXCEPT ![d] = "removed"]
        /\ UNCHANGED worker \/ \E a, dev, res : Move(w, "release", a, dev, res)
    BY <1>0, <1>6, UnknownEffect
  <2>2. \A e \in Dev : sched'[e] = "active" => sched[e] = "active"
    BY <1>1, <2>1
  <2>3. \A v \in Worker : worker'[v].pc = "stopped" => worker'[v] = worker[v]
    BY <2>1 DEF Move
  <2>4. QED
    BY <2>1, <2>2, <2>3, SchedStep
<1>7. CASE stopper(w)
  <2>1. /\ worker[w].pc = "stopper" /\ UNCHANGED <<own, released>>
        /\ \/ UNCHANGED <<sched, worker>>
           \/ /\ sched' = IF own THEN sched ELSE [sched EXCEPT ![d] = "deleted"]
              /\ Move(w, "stopped", d, worker[w].dev, worker[w].res)
    BY <1>0, <1>7, StopperEffect
  <2>2. CASE UNCHANGED <<sched, worker>>
    BY <2>1, <2>2, SchedWork
  <2>3. CASE /\ sched' = IF own THEN sched ELSE [sched EXCEPT ![d] = "deleted"]
             /\ Move(w, "stopped", d, worker[w].dev, worker[w].res)
    <3>1. \A e \in Dev : sched'[e] = "active" => sched[e] = "active" /\ e # d
      BY <1>1, <2>3 DEF SchedInv
    <3>2. \A e \in Dev, v \in Worker :
            e # d /\ worker'[v].ai = e /\ worker'[v].pc = "stopped"
              => worker[v].ai = e /\ worker[v].pc = "stopped"
      BY <2>3 DEF Move
    <3>3. \A e \in Dev : e \in released' => e \in released
      BY <2>1
    <3>4. own' = own
      BY <2>1
    <3>5. QED
      BY <3>1, <3>2, <3>3, <3>4, SchedStep
  <2>4. QED
    BY <2>1, <2>2, <2>3
<1>8. CASE StopperReleases(w)
  <2>1. /\ worker[w].pc = "stopped" /\ released' = released \cup {d} /\ UNCHANGED <<own, sched>>
        /\ Move(w, "idle", NULL, NULL, NULL)
    BY <1>0, <1>8, StopperReleasesEffect
  <2>2. \A e \in Dev : sched[e] = "active" => e # d
    BY <1>0, <2>1 DEF SchedInv
  <2>3. \A v \in Worker : worker'[v].pc = "stopped" => worker'[v] = worker[v]
    BY <2>1 DEF Move
  <2>4. \A e \in Dev : sched'[e] = "active" =>
          /\ sched[e] = "active" /\ (e \in released' => e \in released)
    BY <2>1, <2>2
  <2>5. QED
    BY <2>1, <2>3, <2>4, SchedStep
<1>9. QED
  BY <1>2, <1>3, <1>4, <1>5, <1>6, <1>7, <1>8 DEF ae_runner

LEMMA SchedNext == Basic /\ SchedInv /\ [Next]_vars => SchedInv'
<1> SUFFICES ASSUME Basic, SchedInv, [Next]_vars PROVE SchedInv'
  OBVIOUS
<1> USE DEF lifeUnchanged, mapVars, ghosts
<1>1. CASE \/ Start \/ Hold \/ Stop \/ Clear \/ Stopped
           \/ (\E d \in Dev : LetGo(d) \/ Fire(d)) \/ UNCHANGED vars
  <2>1. UNCHANGED <<own, sched, released, worker>>
    BY <1>1 DEF Start, Hold, Stop, Clear, Stopped, LetGo, Fire, vars
  <2>2. QED
    BY <2>1, SchedStep
<1>2. CASE register_autoevent_handlers
  <2>1. phase = "new" /\ sched' = sched
    BY <1>2 DEF register_autoevent_handlers
  <2>2. \A d \in Dev : sched'[d] # "active"
    BY <2>1 DEF Basic, NoneInv
  <2>3. QED
    BY <2>2 DEF SchedInv
<1>3. ASSUME NEW n \in Dev \cup {NULL}, NEW started \in BOOLEAN, NEW onChange \in BOOLEAN,
             ChangeMap(n, started, onChange)
      PROVE  SchedInv'
  <2>1. /\ UNCHANGED <<own, released, worker>>
        /\ n # NULL => ai[n] = NULL
        /\ sched' = sched \/ (n # NULL /\ ~own /\ sched' = [sched EXCEPT ![n] = "active"])
    BY <1>3 DEF ChangeMap, Fresh, Starts
  <2>2. CASE sched' = sched
    BY <2>1, <2>2, SchedStep
  <2>3. CASE n # NULL /\ ~own /\ sched' = [sched EXCEPT ![n] = "active"]
    <3>1. sched \in [Dev -> {"none", "active", "removed", "deleted"}]
      BY Parts DEF Basic
    <3>2. \A e \in Dev \ {n} : sched'[e] = sched[e]
      BY <2>3, <3>1
    <3>3. n \notin released' /\ \A w \in Worker : worker'[w].ai # n
      BY <2>1, <2>3 DEF Basic, NoneInv
    <3>4. QED
      BY <2>1, <2>3, <3>2, <3>3 DEF SchedInv
  <2>4. QED
    BY <2>1, <2>2, <2>3
<1>4. ASSUME NEW w \in Worker, Take(w) PROVE SchedInv'
  <2>1. PICK x : x = Head(jobs)
    OBVIOUS
  <2>2. x \in Job /\ Move(w, x.run, x.ai, NULL, NULL) /\ UNCHANGED <<own, sched, released>>
    BY <1>4, <2>1, TakeEffect DEF service
  <2>3. x.run # "stopped"
    BY <2>2 DEF Job
  <2>4. QED
    BY <2>2, <2>3, SchedWork
<1>5. CASE Service
  BY <1>1, <1>2, <1>3, <1>5 DEF Service
<1>6. QED
  BY <1>1, <1>4, <1>5, SchedWorker DEF Next, Work

(* The stopper never finds its autoevent freed.                            *)
LEMMA StopperAlive == Basic /\ TokenInv /\ crash # "stopper" /\ [Next]_vars => crash' # "stopper"
<1> SUFFICES ASSUME Basic, TokenInv, crash # "stopper", [Next]_vars PROVE crash' # "stopper"
  OBVIOUS
<1>1. (Service \/ \E d \in Dev : Fire(d)) => crash' = crash
  BY DEF Service, Fire, lifeUnchanged, register_autoevent_handlers, Start, Hold, Stop, Clear,
         Stopped, ChangeMap, LetGo
<1>2. \A w \in Worker : Take(w) \/ ae_runner(w) => crash' # "stopper"
  BY ZenonT(60) DEF Take, ae_runner, Begin, LookUp, Refused, Get, Compare, AssertionFailed, Post, FreeLast,
         StoreLast, Finish, Unknown, EndRunner
<1>3. \A w \in Worker : starter(w) \/ StoreHandle(w) \/ StopperReleases(w) => crash' # "stopper"
  BY DEF starter, StoreHandle, StopperReleases
<1>4. ASSUME NEW w \in Worker, stopper(w) PROVE crash' = crash
  <2>1. PICK d : d = worker[w].ai
    OBVIOUS
  <2>2. worker[w].pc = "stopper" /\ (crash' = crash \/ ai[d] = Freed)
    BY <1>4, <2>1, StopperEffect
  <2>3. ai[d] \in AutoImpl
    BY <2>1, <2>2, StopperHas
  <2>4. QED
    BY <2>2, <2>3, NullApart
<1>5. QED
  BY <1>1, <1>2, <1>3, <1>4 DEF Next, Work, vars

----------------------------------------------------------------------------
(* After the stop of the service                                           *)

LEMMA StopStep ==
  ASSUME StopInv, phase = "stopped",
         \A i \in DOMAIN jobs' : \/ \E j \in DOMAIN jobs : jobs'[i] = jobs[j]
                                 \/ jobs'[i].run # "ae_runner",
         \A w \in Worker : worker'[w] = worker[w]
                           \/ worker'[w].pc \notin Running \cup {"ae_runner"}
  PROVE  StopInv'
BY DEF StopInv

LEMMA StopNext == Basic /\ StopInv /\ [Next]_vars => StopInv'
<1> SUFFICES ASSUME Basic, StopInv, [Next]_vars PROVE StopInv'
  OBVIOUS
<1> USE DEF lifeUnchanged, mapVars, ghosts
<1>1. jobs \in Seq(Job)
  BY Parts DEF Basic
<1>2. CASE phase' # "stopped"
  BY <1>2 DEF StopInv
<1>3. CASE register_autoevent_handlers \/ Start \/ Hold \/ Stop \/ Clear
  <2>1. phase' # "stopped"
    BY <1>3 DEF register_autoevent_handlers, Start, Hold, Stop, Clear
  <2>2. QED
    BY <1>2, <2>1
<1>4. ASSUME NEW n, NEW started, NEW onChange, ChangeMap(n, started, onChange) PROVE StopInv'
  <2>1. phase' # "stopped"
    BY <1>4 DEF ChangeMap
  <2>2. QED
    BY <1>2, <2>1
<1>5. ASSUME NEW d \in Dev, Fire(d) PROVE StopInv'
  <2>1. phase' # "stopped"
    BY <1>5 DEF Fire
  <2>2. QED
    BY <1>2, <2>1
<1>6. CASE Stopped
  <2>1. jobs' = <<>> /\ \A w \in Worker : worker'[w] = Idle
    BY <1>6 DEF Stopped
  <2>2. DOMAIN jobs' = {}
    BY <2>1
  <2>3. Idle.pc \notin Running \cup {"ae_runner"}
    BY DEF Idle, Running
  <2>4. QED
    BY <2>1, <2>2, <2>3 DEF StopInv
<1>7. ASSUME NEW d \in Dev, LetGo(d), phase' = "stopped" PROVE StopInv'
  <2>1. phase = "stopped" /\ worker' = worker
        /\ (jobs' = jobs \/ jobs' = jobs \o autoevent_stop(d))
    BY <1>7 DEF LetGo
  <2>2. JobsOf(jobs \o autoevent_stop(d), jobs, {StopJob(d)})
    <3>1. JobsOf(jobs \o autoevent_stop(d), jobs, IF ai[d] = NULL THEN {} ELSE {StopJob(d)})
      BY <1>1, StopAppend
    <3>2. QED
      BY <3>1 DEF JobsOf
  <2>3. \A i \in DOMAIN jobs' : (\E j \in DOMAIN jobs : jobs'[i] = jobs[j])
                                \/ jobs'[i].run # "ae_runner"
    <3>1. CASE jobs' = jobs
      BY <3>1
    <3>2. CASE jobs' = jobs \o autoevent_stop(d)
      <4>1. JobsOf(jobs', jobs, {StopJob(d)})
        BY <2>2, <3>2
      <4>2. QED
        BY <4>1 DEF JobsOf, StopJob
    <3>3. QED
      BY <2>1, <3>1, <3>2
  <2>4. QED
    BY <2>1, <2>3, StopStep
<1>8. ASSUME NEW w \in Worker, Take(w), phase' = "stopped" PROVE StopInv'
  <2>1. PICK x : x = Head(jobs)
    OBVIOUS
  <2>2. /\ jobs # <<>> /\ jobs' = Tail(jobs) /\ x \in Job /\ phase = "stopped"
        /\ Move(w, x.run, x.ai, NULL, NULL)
    BY <1>8, <2>1, TakeEffect DEF service
  <2>3. /\ \E i \in DOMAIN jobs : x = jobs[i]
        /\ \A i \in DOMAIN jobs' : \E j \in DOMAIN jobs : jobs'[i] = jobs[j]
    BY <1>1, <2>1, <2>2, PlacesTail
  <2>4. x.run # "ae_runner" /\ x.run \in {"ae_runner", "starter", "stopper"}
    BY <2>2, <2>3 DEF StopInv, Job
  <2>5. x.run \notin Running \cup {"ae_runner"}
    BY <2>4 DEF Running
  <2>6. \A v \in Worker : worker'[v] = worker[v]
                          \/ worker'[v].pc \notin Running \cup {"ae_runner"}
    BY <2>2, <2>5 DEF Move
  <2>7. QED
    BY <2>2, <2>3, <2>6, StopStep
<1>9. ASSUME NEW w \in Worker, ae_runner(w) PROVE StopInv'
  <2>1. worker[w].pc \in Running \cup {"ae_runner"}
    BY <1>9 DEF ae_runner, Begin, LookUp, Refused, Get, Compare, AssertionFailed, Post, FreeLast,
           StoreLast, Finish, Unknown, EndRunner, At, Running
  <2>2. phase' = phase
    BY <1>9 DEF ae_runner, Begin, LookUp, Refused, Get, Compare, AssertionFailed, Post, FreeLast,
           StoreLast, Finish, Unknown, EndRunner, runnerUnchanged
  <2>3. phase # "stopped"
    BY <2>1 DEF StopInv
  <2>4. QED
    BY <1>2, <2>2, <2>3
<1>10. ASSUME NEW w \in Worker, phase' = "stopped",
              starter(w) \/ StoreHandle(w) \/ stopper(w) \/ StopperReleases(w)
       PROVE  StopInv'
  <2>1. /\ phase = "stopped" /\ UNCHANGED jobs
        /\ \/ UNCHANGED worker
           \/ \E pc \in {"started", "stopped", "idle"} : \E a, dev, res : Move(w, pc, a, dev, res)
    <3>1. CASE starter(w) \/ StoreHandle(w)
      BY <1>10, <3>1, StarterEffect, StoreHandleEffect DEF service
    <3>2. CASE stopper(w) \/ StopperReleases(w)
      BY <1>10, <3>2, StopperEffect, StopperReleasesEffect DEF service
    <3>3. QED
      BY <1>10, <3>1, <3>2
  <2>2. \A v \in Worker : worker'[v] = worker[v]
                          \/ worker'[v].pc \notin Running \cup {"ae_runner"}
    BY <2>1 DEF Move, Running
  <2>3. QED
    BY <2>1, <2>2, StopStep
<1>11. CASE UNCHANGED vars
  BY <1>11 DEF StopInv, vars
<1>12. CASE Service
  BY <1>2, <1>3, <1>4, <1>6, <1>7, <1>12 DEF Service
<1>13. QED
  BY <1>2, <1>5, <1>8, <1>9, <1>10, <1>11, <1>12 DEF Next, Work

----------------------------------------------------------------------------
(* With onChange, changes only                                             *)

(* What is between reading and storing the result has its autoevent.       *)
LEMMA ComparerHas ==
  Basic => \A d \in Dev : Comparers(d) # {} => ai[d] \in AutoImpl
<1> SUFFICES ASSUME Basic, NEW d \in Dev, NEW w \in Comparers(d) PROVE ai[d] \in AutoImpl
  OBVIOUS
<1>1. w \in Worker /\ worker[w].ai = d /\ worker[w].pc \in Comparing
  BY DEF Comparers
<1>2. worker[w].pc # "idle" /\ worker[w].pc \in Running
  BY <1>1 DEF Comparing, Running
<1>3. QED
  BY <1>1, <1>2, WorkerHas

LEMMA ComparerNext ==
  Basic' => (\A d \in Dev : Comparers(d) # {} => ai[d] \in AutoImpl)'
BY ComparerHas, PTL

(* The thread w does not come to, leave or go on in the comparing of d.    *)
LEMMA ComparersSame ==
  ASSUME NEW w \in Worker, NEW pc, NEW a, NEW dev, NEW res, Move(w, pc, a, dev, res), NEW d,
         a # d \/ pc \notin Comparing, worker[w].ai # d \/ worker[w].pc \notin Comparing
  PROVE  Comparers(d)' = Comparers(d) /\ \A v \in Comparers(d) : worker'[v] = worker[v]
BY DEF Move, Comparers

LEMMA ChangeSame ==
  ASSUME Basic', NEW d \in Dev, posted'[d] = posted[d], Comparers(d)' = Comparers(d),
         \A v \in Comparers(d) : worker'[v] = worker[v],
         \/ ai'[d] = ai[d]
         \/ ai'[d] = Freed
         \/ /\ ai[d] \in AutoImpl /\ ai'[d] \in AutoImpl
            /\ ai'[d].last = ai[d].last /\ ai'[d].onChange = ai[d].onChange
  PROVE  /\ StoresOnChange(d) => StoresOnChange(d)'
         /\ Unrepeated(d) => Unrepeated(d)'
<1>1. AtMostOne(Comparers(d))' <=> AtMostOne(Comparers(d))
  BY DEF AtMostOne
<1>2. CASE ai'[d] = ai[d]
  <2>1. StoresOnChange(d) => StoresOnChange(d)'
    BY <1>2 DEF StoresOnChange
  <2>2. Unrepeated(d) => Unrepeated(d)'
    BY <1>1, <1>2 DEF Unrepeated
  <2>3. QED
    BY <2>1, <2>2
<1>3. CASE ai'[d] = Freed
  <2>1. ai'[d] \notin AutoImpl
    BY <1>3, NullApart
  <2>2. Comparers(d)' = {}
    BY <2>1, ComparerNext
  <2>3. QED
    BY <1>1, <2>1, <2>2 DEF StoresOnChange, Unrepeated
<1>4. CASE /\ ai[d] \in AutoImpl /\ ai'[d] \in AutoImpl
           /\ ai'[d].last = ai[d].last /\ ai'[d].onChange = ai[d].onChange
  BY <1>1, <1>4 DEF StoresOnChange, Unrepeated
<1>5. QED
  BY <1>2, <1>3, <1>4

(* A thread takes a step outside the comparing.                            *)
LEMMA ChangeCalm ==
  ASSUME Basic', ChangeInv, UNCHANGED <<repeated, posted>>,
         overlapped \subseteq overlapped', crash' = "last" => overlapped' # {},
         NEW w \in Worker, NEW d \in Dev,
         \/ UNCHANGED ai
         \/ SetFreed(d)
         \/ \E refs : ai[d] \in AutoImpl /\ SetRefs(d, refs, ai[d].last),
         \/ UNCHANGED worker
         \/ \E pc, a, dev, res : /\ Move(w, pc, a, dev, res)
                                 /\ pc \notin Comparing /\ worker[w].pc \notin Comparing
  PROVE  ChangeInv'
<1>1. ASSUME NEW e \in Dev
      PROVE  Comparers(e)' = Comparers(e) /\ \A v \in Comparers(e) : worker'[v] = worker[v]
  <2>1. CASE UNCHANGED worker
    BY <2>1 DEF Comparers
  <2>2. CASE \E pc, a, dev, res : /\ Move(w, pc, a, dev, res)
                                  /\ pc \notin Comparing /\ worker[w].pc \notin Comparing
    BY <2>2, ComparersSame
  <2>3. QED
    BY <2>1, <2>2
<1>2. \A e \in Dev : \/ ai'[e] = ai[e]
                     \/ ai'[e] = Freed
                     \/ /\ ai[e] \in AutoImpl /\ ai'[e] \in AutoImpl
                        /\ ai'[e].last = ai[e].last /\ ai'[e].onChange = ai[e].onChange
  <2>1. CASE UNCHANGED ai
    BY <2>1
  <2>2. CASE SetFreed(d)
    BY <2>2 DEF SetFreed
  <2>3. ASSUME NEW refs, ai[d] \in AutoImpl, SetRefs(d, refs, ai[d].last)
        PROVE  \A e \in Dev : \/ ai'[e] = ai[e]
                              \/ /\ ai[e] \in AutoImpl /\ ai'[e] \in AutoImpl
                                 /\ ai'[e].last = ai[e].last /\ ai'[e].onChange = ai[e].onChange
    BY <2>3 DEF SetRefs
  <2>4. QED
    BY <2>1, <2>2, <2>3
<1>3. \A e \in Dev : /\ StoresOnChange(e) => StoresOnChange(e)'
                     /\ Unrepeated(e) => Unrepeated(e)'
  BY <1>1, <1>2, ChangeSame
<1>4. QED
  BY <1>3 DEF ChangeInv

(* The thread w takes a step of the comparing of d.                        *)
LEMMA ChangeStep ==
  ASSUME Basic', ChangeInv, NEW w \in Worker, NEW d \in Dev, d = worker[w].ai,
         repeated' \subseteq overlapped', crash' = "last" => overlapped' # {},
         overlapped \subseteq overlapped',
         NEW pc, NEW dev, NEW res, Move(w, pc, d, dev, res),
         \A e \in Dev \ {d} : ai'[e] = ai[e] /\ posted'[e] = posted[e],
         StoresOnChange(d)', d \notin overlapped' => Unrepeated(d)'
  PROVE  ChangeInv'
<1>1. ASSUME NEW e \in Dev, e # d
      PROVE  StoresOnChange(e)' /\ (e \notin overlapped' => Unrepeated(e)')
  <2>1. Comparers(e)' = Comparers(e) /\ \A v \in Comparers(e) : worker'[v] = worker[v]
    BY <1>1, ComparersSame
  <2>2. /\ StoresOnChange(e) => StoresOnChange(e)'
        /\ Unrepeated(e) => Unrepeated(e)'
    BY <1>1, <2>1, ChangeSame
  <2>3. QED
    BY <2>2 DEF ChangeInv
<1>2. QED
  BY <1>1 DEF ChangeInv

LEMMA ComparersStep ==
  ASSUME NEW w \in Worker, NEW pc, NEW d, NEW dev, NEW res, Move(w, pc, d, dev, res),
         NEW e, e = d
  PROVE  /\ Comparers(e)' = IF pc \in Comparing THEN Comparers(e) \cup {w} ELSE Comparers(e) \ {w}
         /\ \A v \in Comparers(e) \ {w} : worker'[v] = worker[v]
         /\ worker'[w].pc = pc /\ worker'[w].res = res
BY DEF Move, Comparers

(* Where nothing overlapped, the thread that compares is alone.            *)
LEMMA Alone ==
  ASSUME ChangeInv, NEW d \in Dev, d \notin overlapped, NEW w \in Comparers(d)
  PROVE  Comparers(d) = {w}
BY DEF ChangeInv, Unrepeated, AtMostOne

(* The last result posted is one that can be posted.                       *)
LEMMA PostedValid == ASSUME Basic, NEW d \in Dev PROVE posted[d] # Freed
<1>1. posted[d] \in Value \cup {NULL}
  BY Parts DEF Basic
<1>2. QED
  BY <1>1, AutoEventsAssumptions

LEMMA ChangeCompare ==
  ASSUME Basic, Basic', ChangeInv, NEW w \in Worker, Compare(w)
  PROVE  ChangeInv'
<1> USE DEF ghosts
<1>0. PICK d : d = worker[w].ai
  OBVIOUS
<1>1. /\ worker[w].pc = "compare"
      /\ overlapped' = IF Overlaps(w, d) THEN overlapped \cup {d} ELSE overlapped
      /\ UNCHANGED <<ai, repeated, posted>>
      /\ \/ /\ crash' = "last" /\ ai[d].onChange /\ ai[d].last = Freed /\ UNCHANGED worker
         \/ /\ crash' = crash /\ Move(w, "finish", d, worker[w].dev, worker[w].res)
         \/ /\ crash' = crash /\ Move(w, "post", d, worker[w].dev, worker[w].res)
            /\ ai[d].onChange => ai[d].last # worker[w].res
  BY <1>0, CompareEffect
<1>2. d \in Dev /\ ai[d] \in AutoImpl
  BY <1>0, <1>1, WorkerHas DEF Running
<1>3. ASSUME d \notin overlapped'
      PROVE  /\ Comparers(d) = {} /\ Unrepeated(d)
             /\ ai[d].onChange => ai[d].last = posted[d]
  <2>1. ~Overlaps(w, d) /\ d \notin overlapped
    BY <1>1, <1>3
  <2>2. w \notin Comparers(d)
    BY <1>1 DEF Comparers, Comparing
  <2>3. Comparers(d) = {}
    BY <2>1, <2>2 DEF Overlaps, Comparers, Runners, Running, Comparing
  <2>4. Unrepeated(d)
    BY <1>2, <2>1 DEF ChangeInv
  <2>5. QED
    BY <1>2, <2>3, <2>4 DEF Unrepeated
<1>4. overlapped \subseteq overlapped' /\ (crash = "last" => overlapped' # {})
  BY <1>1 DEF ChangeInv
<1>5. CASE crash' = "last" /\ ai[d].onChange /\ ai[d].last = Freed /\ UNCHANGED worker
  <2>1. d \in overlapped'
    BY <1>2, <1>3, <1>5, PostedValid
  <2>2. QED
    BY <1>1, <1>2, <1>4, <1>5, <2>1, ChangeCalm
<1>6. CASE crash' = crash /\ Move(w, "finish", d, worker[w].dev, worker[w].res)
  <2>1. "finish" \notin Comparing /\ worker[w].pc \notin Comparing
    BY <1>1 DEF Comparing
  <2>2. QED
    BY <1>1, <1>2, <1>4, <1>6, <2>1, ChangeCalm
<1>7. CASE /\ crash' = crash /\ Move(w, "post", d, worker[w].dev, worker[w].res)
           /\ ai[d].onChange => ai[d].last # worker[w].res
  <2>1. /\ Comparers(d)' = Comparers(d) \cup {w} /\ worker'[w].pc = "post"
        /\ worker'[w].res = worker[w].res
        /\ \A v \in Comparers(d) \ {w} : worker'[v] = worker[v]
    <3>1. "post" \in Comparing
      BY DEF Comparing
    <3>2. QED
      BY <1>7, <3>1, ComparersStep
  <2>2. StoresOnChange(d)'
    <3>1. StoresOnChange(d) /\ ai'[d] = ai[d]
      BY <1>1, <1>2 DEF ChangeInv
    <3>2. QED
      BY <2>1, <3>1 DEF StoresOnChange
  <2>3. ASSUME d \notin overlapped' PROVE Unrepeated(d)'
    <3>1. Comparers(d)' = {w}
      BY <1>3, <2>1, <2>3
    <3>2. ai'[d] = ai[d] /\ posted'[d] = posted[d]
      BY <1>1
    <3>3. ai[d].onChange => ai[d].last = posted[d] /\ worker'[w].res # posted[d]
      BY <1>3, <1>7, <2>1, <2>3
    <3>4. QED
      BY <2>1, <3>1, <3>2, <3>3 DEF Unrepeated, AtMostOne
  <2>4. repeated' \subseteq overlapped'
    BY <1>1, <1>4 DEF ChangeInv
  <2>5. \A e \in Dev \ {d} : ai'[e] = ai[e] /\ posted'[e] = posted[e]
    BY <1>1
  <2>6. QED
    BY <1>0, <1>2, <1>4, <1>7, <2>2, <2>3, <2>4, <2>5, ChangeStep
<1>8. QED
  BY <1>1, <1>5, <1>6, <1>7

(* A result that is not posted.                                            *)
LEMMA ChangeFailed ==
  ASSUME Basic, Basic', ChangeInv, NEW w \in Worker, worker[w].pc = "post", NEW d, d = worker[w].ai,
         Move(w, "finish", d, worker[w].dev, worker[w].res),
         UNCHANGED <<ai, repeated, posted, overlapped, crash>>
  PROVE  ChangeInv'
<1>1. d \in Dev /\ w \in Comparers(d)
  BY WorkerHas DEF Comparers, Comparing
<1>2. Comparers(d)' = Comparers(d) \ {w} /\ \A v \in Comparers(d) \ {w} : worker'[v] = worker[v]
  <2>1. "finish" \notin Comparing
    BY DEF Comparing
  <2>2. QED
    BY <2>1, ComparersStep
<1>3. StoresOnChange(d)'
  <2>1. StoresOnChange(d)
    BY <1>1 DEF ChangeInv
  <2>2. QED
    BY <1>2, <2>1 DEF StoresOnChange
<1>4. ASSUME d \notin overlapped' PROVE Unrepeated(d)'
  <2>1. Comparers(d) = {w} /\ Unrepeated(d)
    BY <1>1, <1>4, Alone DEF ChangeInv
  <2>2. Comparers(d)' = {}
    BY <1>2, <2>1
  <2>3. ai[d] \in AutoImpl /\ ai[d].onChange => ai[d].last = posted[d]
    BY <2>1 DEF Unrepeated
  <2>4. QED
    BY <2>2, <2>3 DEF Unrepeated, AtMostOne
<1>5. /\ repeated' \subseteq overlapped' /\ (crash' = "last" => overlapped' # {})
      /\ overlapped \subseteq overlapped'
      /\ \A e \in Dev \ {d} : ai'[e] = ai[e] /\ posted'[e] = posted[e]
  BY DEF ChangeInv
<1>6. QED
  BY <1>1, <1>3, <1>4, <1>5, ChangeStep

LEMMA ChangePosted ==
  ASSUME Basic, Basic', ChangeInv, NEW w \in Worker, worker[w].pc = "post", NEW d, d = worker[w].ai,
         ai[d].onChange, Move(w, "free last", d, worker[w].dev, worker[w].res),
         posted' = [posted EXCEPT ![d] = worker[w].res],
         repeated' = IF posted[d] = worker[w].res THEN repeated \cup {d} ELSE repeated,
         UNCHANGED <<ai, overlapped, crash>>
  PROVE  ChangeInv'
<1>1. d \in Dev /\ w \in Comparers(d) /\ ai[d] \in AutoImpl
  BY WorkerHas DEF Comparers, Comparing, Running
<1>2. /\ Comparers(d)' = Comparers(d) \cup {w}
      /\ \A v \in Comparers(d) \ {w} : worker'[v] = worker[v]
      /\ worker'[w].pc = "free last" /\ worker'[w].res = worker[w].res
  <2>1. Move(w, "free last", d, worker[w].dev, worker[w].res) /\ "free last" \in Comparing
    BY DEF Comparing
  <2>2. \A v \in Worker \ {w} : worker'[v] = worker[v]
    BY <2>1 DEF Move
  <2>3. worker'[w].pc = "free last" /\ worker'[w].res = worker[w].res /\ worker'[w].ai = d
    BY <2>1 DEF Move
  <2>4. Comparers(d)' = Comparers(d) \cup {w}
    BY <2>1, <2>2, <2>3 DEF Comparers
  <2>5. QED
    BY <2>2, <2>3, <2>4 DEF Comparers
<1>3. posted'[d] = worker[w].res /\ \A e \in Dev \ {d} : posted'[e] = posted[e]
  <2>1. posted \in [Dev -> Value \cup {NULL}]
    BY Parts DEF Basic
  <2>2. QED
    BY <1>1, <2>1
<1>4. StoresOnChange(d)'
  BY DEF StoresOnChange
<1>5. ASSUME d \notin overlapped
      PROVE  Comparers(d) = {w} /\ ai[d].last = posted[d] /\ worker[w].res # posted[d]
  <2>1. Comparers(d) = {w} /\ Unrepeated(d)
    BY <1>1, <1>5, Alone DEF ChangeInv
  <2>2. QED
    BY <1>1, <2>1 DEF Unrepeated
<1>6. ASSUME d \notin overlapped' PROVE Unrepeated(d)'
  <2>1. Comparers(d)' = {w} /\ ai'[d].last # Freed
    BY <1>1, <1>2, <1>5, <1>6, PostedValid
  <2>2. QED
    BY <1>2, <1>3, <2>1 DEF Unrepeated, AtMostOne
<1>7. repeated' \subseteq overlapped'
  <2>1. repeated \subseteq overlapped
    BY DEF ChangeInv
  <2>2. QED
    BY <1>5, <2>1
<1>8. /\ crash' = "last" => overlapped' # {}
      /\ overlapped \subseteq overlapped'
      /\ \A e \in Dev \ {d} : ai'[e] = ai[e]
  BY DEF ChangeInv
<1>9. QED
  BY <1>1, <1>3, <1>4, <1>6, <1>7, <1>8, ChangeStep

LEMMA ChangeFreeLast ==
  ASSUME Basic, Basic', ChangeInv, NEW w \in Worker, FreeLast(w)
  PROVE  ChangeInv'
<1> USE DEF ghosts
<1>0. PICK d : d = worker[w].ai
  OBVIOUS
<1>1. /\ worker[w].pc = "free last" /\ UNCHANGED <<repeated, posted, overlapped>>
      /\ \/ crash' = "last" /\ ai[d].last = Freed /\ UNCHANGED <<ai, worker>>
         \/ /\ crash' = crash /\ Move(w, "store", d, worker[w].dev, worker[w].res)
            /\ \E x : SetRefs(d, ai[d].refs, x)
  BY <1>0, FreeLastEffect
<1>2. d \in Dev /\ w \in Comparers(d) /\ ai[d] \in AutoImpl
  BY <1>0, <1>1, WorkerHas DEF Comparers, Comparing, Running
<1>3. ai[d].onChange /\ repeated \subseteq overlapped /\ (crash = "last" => overlapped # {})
  BY <1>1, <1>2 DEF ChangeInv, StoresOnChange
<1>4. ASSUME d \notin overlapped
      PROVE  Comparers(d) = {w} /\ ai[d].last # Freed /\ worker[w].res = posted[d]
  <2>1. Comparers(d) = {w} /\ Unrepeated(d)
    BY <1>2, <1>4, Alone DEF ChangeInv
  <2>2. QED
    BY <1>1, <1>2, <1>3, <2>1 DEF Unrepeated
<1>5. CASE crash' = "last" /\ ai[d].last = Freed /\ UNCHANGED <<ai, worker>>
  <2>1. d \in overlapped
    BY <1>4, <1>5
  <2>2. overlapped \subseteq overlapped' /\ overlapped' # {}
    BY <1>1, <2>1
  <2>3. QED
    BY <1>1, <1>2, <1>5, <2>2, ChangeCalm
<1>6. CASE /\ crash' = crash /\ Move(w, "store", d, worker[w].dev, worker[w].res)
           /\ \E x : SetRefs(d, ai[d].refs, x)
  <2>1. /\ Comparers(d)' = Comparers(d) \cup {w}
        /\ \A v \in Comparers(d) \ {w} : worker'[v] = worker[v]
        /\ worker'[w].pc = "store" /\ worker'[w].res = worker[w].res
    <3>1. "store" \in Comparing
      BY DEF Comparing
    <3>2. QED
      BY <1>6, <3>1, ComparersStep
  <2>2. ai'[d].onChange = ai[d].onChange /\ \A e \in Dev \ {d} : ai'[e] = ai[e]
    BY <1>6 DEF SetRefs
  <2>3. StoresOnChange(d)'
    BY <1>3, <2>2 DEF StoresOnChange
  <2>4. ASSUME d \notin overlapped' PROVE Unrepeated(d)'
    <3>1. Comparers(d)' = {w} /\ worker'[w].res = posted'[d]
      BY <1>1, <1>2, <1>4, <2>1, <2>4
    <3>2. QED
      BY <2>1, <3>1 DEF Unrepeated, AtMostOne
  <2>5. /\ repeated' \subseteq overlapped' /\ (crash' = "last" => overlapped' # {})
        /\ overlapped \subseteq overlapped' /\ \A e \in Dev \ {d} : posted'[e] = posted[e]
    BY <1>1, <1>3, <1>6
  <2>6. QED
    BY <1>0, <1>2, <1>6, <2>2, <2>3, <2>4, <2>5, ChangeStep
<1>7. QED
  BY <1>1, <1>5, <1>6

LEMMA ChangeStoreLast ==
  ASSUME Basic, Basic', ChangeInv, NEW w \in Worker, StoreLast(w)
  PROVE  ChangeInv'
<1> USE DEF ghosts
<1>0. PICK d : d = worker[w].ai
  OBVIOUS
<1>1. /\ worker[w].pc = "store" /\ UNCHANGED <<repeated, posted, overlapped, crash>>
      /\ Move(w, "finish", d, worker[w].dev, worker[w].res)
      /\ SetRefs(d, ai[d].refs, worker[w].res)
  BY <1>0, StoreLastEffect
<1>2. d \in Dev /\ w \in Comparers(d) /\ ai[d] \in AutoImpl
  BY <1>0, <1>1, WorkerHas DEF Comparers, Comparing, Running
<1>3. ai[d].onChange
  BY <1>1, <1>2 DEF ChangeInv, StoresOnChange
<1>4. Comparers(d)' = Comparers(d) \ {w}
  <2>1. "finish" \notin Comparing
    BY DEF Comparing
  <2>2. QED
    BY <1>1, <2>1, ComparersStep
<1>5. /\ ai'[d].onChange = ai[d].onChange /\ ai'[d].last = worker[w].res
      /\ \A e \in Dev \ {d} : ai'[e] = ai[e]
  BY <1>1 DEF SetRefs
<1>6. StoresOnChange(d)'
  BY <1>3, <1>5 DEF StoresOnChange
<1>7. ASSUME d \notin overlapped' PROVE Unrepeated(d)'
  <2>1. Comparers(d) = {w} /\ Unrepeated(d)
    BY <1>1, <1>2, <1>7, Alone DEF ChangeInv
  <2>2. Comparers(d)' = {}
    BY <1>4, <2>1
  <2>3. worker[w].res = posted[d]
    BY <1>1, <1>2, <1>3, <2>1 DEF Unrepeated
  <2>4. ai'[d].last = posted'[d]
    BY <1>1, <1>5, <2>3
  <2>5. QED
    BY <2>2, <2>4 DEF Unrepeated, AtMostOne
<1>8. /\ repeated' \subseteq overlapped' /\ (crash' = "last" => overlapped' # {})
      /\ overlapped \subseteq overlapped' /\ \A e \in Dev \ {d} : posted'[e] = posted[e]
  BY <1>1 DEF ChangeInv
<1>9. QED
  BY <1>0, <1>1, <1>2, <1>5, <1>6, <1>7, <1>8, ChangeStep

LEMMA ChangeRunner ==
  ASSUME Basic, Basic', ChangeInv, NEW w \in Worker, ae_runner(w)
  PROVE  ChangeInv'
<1> USE DEF service, mapVars, ghosts
<1>0. PICK d : d = worker[w].ai
  OBVIOUS
<1>1. worker[w].pc # "idle"
  BY DEF ae_runner, Begin, LookUp, Refused, Get, Compare, AssertionFailed, Post, FreeLast,
         StoreLast, Finish, Unknown, EndRunner, At
<1>2. d \in Dev /\ (worker[w].pc \in Running => ai[d] \in AutoImpl)
  BY <1>0, <1>1, WorkerHas
<1>3. ASSUME worker[w].pc \notin Comparing, UNCHANGED <<repeated, posted, overlapped>>,
             crash' = crash \/ crash' # "last",
             \/ UNCHANGED ai
             \/ SetFreed(d)
             \/ \E refs : ai[d] \in AutoImpl /\ SetRefs(d, refs, ai[d].last),
             \/ UNCHANGED worker
             \/ \E pc, a, dev, res : Move(w, pc, a, dev, res) /\ pc \notin Comparing
      PROVE  ChangeInv'
  <2>1. overlapped \subseteq overlapped' /\ (crash' = "last" => overlapped' # {})
    BY <1>3 DEF ChangeInv
  <2>2. QED
    BY <1>2, <1>3, <2>1, ChangeCalm
<1>4. CASE Begin(w)
  <2>1. /\ worker[w].pc = "ae_runner" /\ UNCHANGED <<repeated, posted, overlapped>>
        /\ \/ crash' = "runner begins" /\ UNCHANGED <<ai, worker>>
           \/ /\ ai[d] \in AutoImpl /\ SetRefs(d, ai[d].refs + 1, ai[d].last)
              /\ Move(w, "lookup", d, worker[w].dev, worker[w].res) /\ crash' = crash
    BY <1>0, <1>4, BeginEffect
  <2>2. worker[w].pc \notin Comparing /\ "lookup" \notin Comparing
    BY <2>1 DEF Comparing
  <2>3. QED
    BY <1>3, <2>1, <2>2
<1>5. CASE LookUp(w)
  <2>1. /\ worker[w].pc = "lookup" /\ UNCHANGED <<repeated, posted, overlapped, ai>>
        /\ \/ crash' = "lookup" /\ UNCHANGED worker
           \/ /\ crash' = crash
              /\ \E pc \in {"unknown", "check"} : Move(w, pc, d, current, worker[w].res)
    BY <1>0, <1>5, LookUpEffect
  <2>2. worker[w].pc \notin Comparing /\ \A pc \in {"unknown", "check"} : pc \notin Comparing
    BY <2>1 DEF Comparing
  <2>3. QED
    BY <1>3, <2>1, <2>2
<1>6. CASE Refused(w)
  <2>1. /\ worker[w].pc = "check" /\ UNCHANGED <<repeated, posted, overlapped, ai, crash>>
        /\ Move(w, "idle", NULL, NULL, NULL)
    BY <1>0, <1>6, RefusedEffect
  <2>2. worker[w].pc \notin Comparing /\ "idle" \notin Comparing
    BY <2>1 DEF Comparing
  <2>3. QED
    BY <1>3, <2>1, <2>2
<1>7. ASSUME NEW r \in Value \cup {NULL}, Get(w, r) PROVE ChangeInv'
  <2>1. /\ worker[w].pc = "check" /\ UNCHANGED <<repeated, posted, overlapped, ai, crash>>
        /\ \E pc \in {"finish", "compare"} : Move(w, pc, d, worker[w].dev, r)
    BY <1>0, <1>7, GetEffect
  <2>2. worker[w].pc \notin Comparing /\ \A pc \in {"finish", "compare"} : pc \notin Comparing
    BY <2>1 DEF Comparing
  <2>3. QED
    BY <1>3, <2>1, <2>2
<1>8. CASE AssertionFailed(w)
  BY <1>0, <1>8, AssertionEffect, ChangeFailed
<1>9. ASSUME NEW ok \in BOOLEAN, Post(w, ok) PROVE ChangeInv'
  <2>1. /\ worker[w].pc = "post" /\ UNCHANGED <<ai, overlapped, crash>>
        /\ \/ /\ ai[d].onChange /\ Move(w, "free last", d, worker[w].dev, worker[w].res)
              /\ posted' = [posted EXCEPT ![d] = worker[w].res]
              /\ repeated' = IF posted[d] = worker[w].res THEN repeated \cup {d} ELSE repeated
           \/ /\ Move(w, "finish", d, worker[w].dev, worker[w].res)
              /\ UNCHANGED <<posted, repeated>>
    BY <1>0, <1>9, PostEffect
  <2>2. CASE /\ ai[d].onChange /\ Move(w, "free last", d, worker[w].dev, worker[w].res)
             /\ posted' = [posted EXCEPT ![d] = worker[w].res]
             /\ repeated' = IF posted[d] = worker[w].res THEN repeated \cup {d} ELSE repeated
    BY <1>0, <2>1, <2>2, ChangePosted
  <2>3. CASE /\ Move(w, "finish", d, worker[w].dev, worker[w].res)
             /\ UNCHANGED <<posted, repeated>>
    BY <1>0, <2>1, <2>3, ChangeFailed
  <2>4. QED
    BY <2>1, <2>2, <2>3
<1>10. CASE Finish(w)
  <2>1. /\ worker[w].pc = "finish" /\ UNCHANGED <<repeated, posted, overlapped, ai, crash>>
        /\ Move(w, "release", d, NULL, NULL)
    BY <1>0, <1>10, FinishEffect
  <2>2. worker[w].pc \notin Comparing /\ "release" \notin Comparing
    BY <2>1 DEF Comparing
  <2>3. QED
    BY <1>3, <2>1, <2>2
<1>11. CASE Unknown(w)
  <2>1. /\ worker[w].pc = "unknown" /\ UNCHANGED <<repeated, posted, overlapped, ai>>
        /\ \/ crash' = "schedule" /\ UNCHANGED worker
           \/ crash' = crash /\ Move(w, "release", d, worker[w].dev, worker[w].res)
    BY <1>0, <1>11, UnknownEffect
  <2>2. worker[w].pc \notin Comparing /\ "release" \notin Comparing
    BY <2>1 DEF Comparing
  <2>3. QED
    BY <1>3, <2>1, <2>2
<1>12. CASE EndRunner(w)
  <2>1. /\ worker[w].pc = "release" /\ UNCHANGED <<repeated, posted, overlapped, crash>>
        /\ autoimpl_release(d) /\ Move(w, "idle", NULL, NULL, NULL)
    BY <1>0, <1>12, EndEffect
  <2>2. worker[w].pc \notin Comparing /\ "idle" \notin Comparing /\ worker[w].pc \in Running
    BY <2>1 DEF Comparing, Running
  <2>3. ai[d] \in AutoImpl
    BY <1>2, <2>2
  <2>4. SetFreed(d) \/ \E refs : ai[d] \in AutoImpl /\ SetRefs(d, refs, ai[d].last)
    BY <1>2, <2>1, <2>3, Released DEF Basic
  <2>5. QED
    BY <1>3, <2>1, <2>2, <2>4
<1>13. QED
  BY <1>4, <1>5, <1>6, <1>7, <1>8, <1>9, <1>10, <1>11, <1>12, ChangeCompare, ChangeFreeLast,
     ChangeStoreLast DEF ae_runner

LEMMA ChangeStopper ==
  ASSUME Basic, Basic', TokenInv, ChangeInv, NEW w \in Worker,
         starter(w) \/ StoreHandle(w) \/ stopper(w) \/ StopperReleases(w)
  PROVE  ChangeInv'
<1> USE DEF service, mapVars, ghosts
<1>0. PICK d : d = worker[w].ai
  OBVIOUS
<1>1. worker[w].pc # "idle"
  BY DEF starter, StoreHandle, stopper, StopperReleases, At
<1>2. d \in Dev
  BY <1>0, <1>1, WorkerHas
<1>3. "idle" \notin Comparing /\ "started" \notin Comparing /\ "stopped" \notin Comparing
  BY DEF Comparing
<1>4. ASSUME worker[w].pc \notin Comparing, UNCHANGED <<repeated, posted, overlapped>>,
             crash' = crash \/ crash' # "last",
             \/ UNCHANGED ai
             \/ SetFreed(d)
             \/ \E refs : ai[d] \in AutoImpl /\ SetRefs(d, refs, ai[d].last),
             \/ UNCHANGED worker
             \/ \E pc \in {"idle", "started", "stopped"} : \E a, dev, res : Move(w, pc, a, dev, res)
      PROVE  ChangeInv'
  <2>1. overlapped \subseteq overlapped' /\ (crash' = "last" => overlapped' # {})
    BY <1>4 DEF ChangeInv
  <2>2. \/ UNCHANGED worker
        \/ \E pc, a, dev, res : /\ Move(w, pc, a, dev, res)
                                /\ pc \notin Comparing /\ worker[w].pc \notin Comparing
    BY <1>3, <1>4
  <2>3. QED
    BY <1>2, <1>4, <2>1, <2>2, ChangeCalm
<1>5. CASE starter(w)
  <2>1. /\ worker[w].pc = "starter" /\ UNCHANGED <<repeated, posted, overlapped, ai>>
        /\ crash' = crash \/ crash' = "starter"
        /\ UNCHANGED worker \/ Move(w, "started", d, worker[w].dev, worker[w].res)
    BY <1>0, <1>5, StarterEffect
  <2>2. worker[w].pc \notin Comparing
    BY <2>1 DEF Comparing
  <2>3. QED
    BY <1>4, <2>1, <2>2
<1>6. CASE StoreHandle(w)
  <2>1. /\ worker[w].pc = "started" /\ UNCHANGED <<repeated, posted, overlapped>>
        /\ \/ crash' = "starter" /\ UNCHANGED <<ai, worker>>
           \/ /\ crash' = crash /\ ai[d] \in AutoImpl /\ SetRefs(d, ai[d].refs, ai[d].last)
              /\ Move(w, "idle", NULL, NULL, NULL)
    BY <1>0, <1>6, StoreHandleEffect
  <2>2. QED
    BY <1>3, <1>4, <2>1
<1>7. CASE stopper(w)
  <2>1. /\ worker[w].pc = "stopper" /\ UNCHANGED <<repeated, posted, overlapped, ai>>
        /\ crash' = crash \/ crash' = "stopper"
        /\ UNCHANGED worker \/ Move(w, "stopped", d, worker[w].dev, worker[w].res)
    BY <1>0, <1>7, StopperEffect
  <2>2. worker[w].pc \notin Comparing
    BY <2>1 DEF Comparing
  <2>3. QED
    BY <1>4, <2>1, <2>2
<1>8. CASE StopperReleases(w)
  <2>1. /\ worker[w].pc = "stopped" /\ UNCHANGED <<repeated, posted, overlapped, crash>>
        /\ autoimpl_release(d) /\ Move(w, "idle", NULL, NULL, NULL)
    BY <1>0, <1>8, StopperReleasesEffect
  <2>2. ai[d] \in AutoImpl
    BY <1>0, <2>1, StopperHas
  <2>3. SetFreed(d) \/ \E refs : ai[d] \in AutoImpl /\ SetRefs(d, refs, ai[d].last)
    BY <1>2, <2>1, <2>2, Released DEF Basic
  <2>4. QED
    BY <1>3, <1>4, <2>1, <2>3
<1>9. QED
  BY <1>5, <1>6, <1>7, <1>8

LEMMA ChangeNext == Basic /\ Basic' /\ TokenInv /\ ChangeInv /\ [Next]_vars => ChangeInv'
<1> SUFFICES ASSUME Basic, Basic', TokenInv, ChangeInv, [Next]_vars PROVE ChangeInv'
  OBVIOUS
<1> USE DEF lifeUnchanged, mapVars, ghosts
<1>1. ASSUME UNCHANGED <<ai, worker, repeated, posted, overlapped, crash>> PROVE ChangeInv'
  <2>1. \A e \in Dev : /\ StoresOnChange(e) => StoresOnChange(e)'
                       /\ Unrepeated(e) => Unrepeated(e)'
    BY <1>1 DEF StoresOnChange, Unrepeated, Comparers, AtMostOne
  <2>2. QED
    BY <1>1, <2>1 DEF ChangeInv
<1>2. CASE \/ register_autoevent_handlers \/ Start \/ Hold \/ Stop \/ Clear \/ Stopped
           \/ (\E d \in Dev : LetGo(d) \/ Fire(d)) \/ UNCHANGED vars
  <2>1. UNCHANGED <<ai, worker, repeated, posted, overlapped, crash>>
    BY <1>2 DEF register_autoevent_handlers, Start, Hold, Stop, Clear, Stopped, LetGo, Fire, vars
  <2>2. QED
    BY <1>1, <2>1
<1>3. ASSUME NEW n \in Dev \cup {NULL}, NEW started \in BOOLEAN, NEW onChange \in BOOLEAN,
             ChangeMap(n, started, onChange)
      PROVE  ChangeInv'
  <2>1. /\ UNCHANGED <<worker, repeated, posted, overlapped, crash>>
        /\ n # NULL => ai[n] = NULL
        /\ ai' = ai \/ (n # NULL /\ ai' = [ai EXCEPT ![n] = new(onChange)])
    BY <1>3 DEF ChangeMap, Fresh, Starts
  <2>2. CASE ai' = ai
    BY <1>1, <2>1, <2>2
  <2>3. CASE n # NULL /\ ai' = [ai EXCEPT ![n] = new(onChange)]
    <3>1. ai \in [Dev -> AutoImpl \cup {NULL, Freed}]
      BY Parts DEF Basic
    <3>2. \A e \in Dev \ {n} : ai'[e] = ai[e]
      BY <2>3, <3>1
    <3>3. ai'[n].last = NULL
      BY <2>3, <3>1 DEF new
    <3>4. posted'[n] = NULL /\ \A w \in Worker : worker'[w].ai # n
      BY <2>1, <2>3 DEF Basic, NoneInv
    <3>5. Comparers(n)' = {}
      BY <3>4 DEF Comparers
    <3>6. StoresOnChange(n)' /\ Unrepeated(n)'
      BY <3>3, <3>4, <3>5 DEF StoresOnChange, Unrepeated, AtMostOne
    <3>7. \A e \in Dev \ {n} : /\ StoresOnChange(e) => StoresOnChange(e)'
                               /\ Unrepeated(e) => Unrepeated(e)'
      <4>1. \A e : Comparers(e)' = Comparers(e)
        BY <2>1 DEF Comparers
      <4>2. QED
        BY <2>1, <3>2, <4>1, ChangeSame
    <3>8. QED
      BY <2>1, <3>6, <3>7 DEF ChangeInv
  <2>4. QED
    BY <2>1, <2>2, <2>3
<1>4. ASSUME NEW w \in Worker, Take(w) PROVE ChangeInv'
  <2>1. PICK x : x = Head(jobs)
    OBVIOUS
  <2>2. /\ x \in Job /\ worker[w] = Idle /\ Move(w, x.run, x.ai, NULL, NULL)
        /\ UNCHANGED <<ai, repeated, posted, overlapped, crash>>
    BY <1>4, <2>1, TakeEffect
  <2>3. x.run \notin Comparing /\ worker[w].pc \notin Comparing
    <3>1. x.run \in {"ae_runner", "starter", "stopper"} /\ worker[w].pc = "idle"
      BY <2>2 DEF Job, Idle
    <3>2. QED
      BY <3>1 DEF Comparing
  <2>4. x.ai \in Dev
    BY <2>2 DEF Job
  <2>5. overlapped \subseteq overlapped' /\ (crash' = "last" => overlapped' # {})
    BY <2>2 DEF ChangeInv
  <2>6. QED
    BY <2>2, <2>3, <2>4, <2>5, ChangeCalm
<1>5. CASE Service
  BY <1>2, <1>3, <1>5 DEF Service
<1>6. QED
  BY <1>2, <1>4, <1>5, ChangeRunner, ChangeStopper DEF Next, Work

----------------------------------------------------------------------------
(* Theorems                                                                *)

Inv == Basic /\ TokenInv /\ SchedInv /\ StopInv /\ ChangeInv /\ crash # "stopper"

LEMMA InitInv == Init => Inv
<1> SUFFICES ASSUME Init PROVE Inv
  OBVIOUS
<1>1. TypeOK
  BY InitTypes
<1>2. /\ current = NULL /\ held = {} /\ jobs = <<>> /\ phase = "new"
      /\ \A w \in Worker : worker[w] = Idle
      /\ \A d \in Dev : ai[d] = NULL /\ sched[d] = "none" /\ leaked[d] = 0 /\ posted[d] = NULL
      /\ released = {} /\ overlapped = {} /\ repeated = {} /\ crash = "none"
  BY DEF Init
<1>3. Idle.pc = "idle" /\ Idle.ai = NULL /\ Idle.dev = NULL /\ Idle.res = NULL
  BY DEF Idle
<1>4. WorkerInv
  BY <1>2, <1>3 DEF WorkerInv, WithDevice, WithResult
<1>5. DOMAIN jobs = {}
  BY <1>2
<1>6. NoneInv
  BY <1>2, <1>3, <1>5, NullApart DEF NoneInv
<1>7. RefsInv
  BY <1>2, NullApart, AutoEventsAssumptions DEF RefsInv, Counted
<1>8. ASSUME NEW d \in Dev PROVE Token(d)
  <2>1. Queued(d) = {} /\ Stoppers(d) = {}
    BY <1>2, <1>3, <1>5 DEF Queued, Places, Stoppers
  <2>2. QED
    BY <1>2, <2>1 DEF Token, AtMostOne
<1>9. SchedInv
  BY <1>2 DEF SchedInv
<1>10. StopInv
  BY <1>2 DEF StopInv
<1>11. ASSUME NEW d \in Dev PROVE StoresOnChange(d) /\ Unrepeated(d)
  <2>1. Comparers(d) = {}
    BY <1>2, <1>3 DEF Comparers, Comparing
  <2>2. ai[d] \notin AutoImpl
    BY <1>2, NullApart
  <2>3. QED
    BY <2>1, <2>2 DEF StoresOnChange, Unrepeated, AtMostOne
<1>12. ChangeInv
  BY <1>2, <1>11 DEF ChangeInv
<1>13. QED
  BY <1>1, <1>2, <1>4, <1>6, <1>7, <1>8, <1>9, <1>10, <1>12 DEF Inv, Basic, TokenInv

LEMMA InvNext == Inv /\ [Next]_vars => Inv'
<1> SUFFICES ASSUME Inv, [Next]_vars PROVE Inv'
  OBVIOUS
<1>1. Basic /\ TokenInv /\ SchedInv /\ StopInv /\ ChangeInv /\ crash # "stopper"
  BY DEF Inv
<1>2. Basic'
  BY <1>1, TypeNext, WorkerNext, NoneNext, RefsNext DEF Basic
<1>3. TokenInv' /\ SchedInv' /\ StopInv' /\ crash' # "stopper"
  BY <1>1, TokenNext, SchedNext, StopNext, StopperAlive
<1>4. ChangeInv'
  BY <1>1, <1>2, ChangeNext
<1>5. QED
  BY <1>2, <1>3, <1>4 DEF Inv

LEMMA Invariant == Spec => []Inv
BY InitInv, InvNext, PTL DEF Spec

(* The variables have their types, whoever does what.                      *)
THEOREM TypeCorrect == Spec => []TypeOK
<1>1. Inv => TypeOK
  BY DEF Inv, Basic
<1>2. QED
  BY <1>1, Invariant, PTL

(* The count of an autoevent is that of the references to it, so none is   *)
(* freed under a runner or a stopper, and what is gone leaves nothing      *)
(* behind but what a refused runner kept (autoevent.c 56-65).              *)
THEOREM References == Spec => []RefsExact
<1>1. ASSUME Inv PROVE RefsExact
  <2>1. TypeOK /\ NoneInv /\ RefsInv /\ TokenInv /\ SchedInv /\ crash # "stopper"
    BY <1>1 DEF Inv, Basic
  <2>2. ASSUME NEW d \in Dev
        PROVE  IF ai[d] = Freed THEN Count(d) = 0
               ELSE ai[d] # NULL => Count(d) > 0 /\ ai[d].refs = Count(d)
    BY <2>1, Parts DEF RefsInv, Counted
  <2>3. ASSUME NEW d \in Dev, d \in released \/ ai[d] = NULL PROVE sched[d] # "active"
    BY <2>1, <2>3 DEF SchedInv, NoneInv
  <2>4. ASSUME NEW d \in Dev, ai[d] = Freed PROVE sched[d] # "active"
    <3>1. Count(d) = 0
      BY <2>2, <2>4
    <3>2. Cardinality(Runners(d)) \in Nat /\ leaked[d] \in Nat
      BY <2>1, RunnersFinite, Parts
    <3>3. d \in released
      BY <3>1, <3>2 DEF Count
    <3>4. QED
      BY <2>3, <3>3
  <2>5. ASSUME NEW d \in Dev, jobs = <<>>, \A w \in Worker : worker[w] = Idle, ~InUse(d)
        PROVE  (ai[d] \in {NULL, Freed} \/ leaked[d] > 0) /\ sched[d] # "active"
    <3>1. Queued(d) = {} /\ Stoppers(d) = {} /\ Runners(d) = {}
      <4>1. Idle.pc = "idle" /\ "idle" \notin Running /\ DOMAIN jobs = {}
        BY <2>5 DEF Idle, Running
      <4>2. QED
        BY <2>5, <4>1 DEF Queued, Places, Stoppers, Runners
    <3>2. ai[d] = NULL \/ d \in released
      BY <2>1, <2>5, <3>1 DEF TokenInv, Token
    <3>3. sched[d] # "active"
      BY <2>3, <3>2
    <3>4. Cardinality(Runners(d)) = 0 /\ leaked[d] \in Nat
      BY <2>1, <3>1, FS_EmptySet, Parts
    <3>5. ASSUME ai[d] \notin {NULL, Freed} PROVE leaked[d] > 0
      <4>1. d \in released /\ Count(d) > 0
        BY <2>2, <3>2, <3>5
      <4>2. Count(d) = leaked[d]
        BY <3>4, <4>1 DEF Count
      <4>3. QED
        BY <4>1, <4>2
    <3>6. QED
      BY <3>3, <3>5
  <2>6. GoneIsFreed
    BY <2>4, <2>5 DEF GoneIsFreed
  <2>7. QED
    BY <2>1, <2>2, <2>6 DEF RefsExact, Count
<1>2. QED
  BY <1>1, Invariant, PTL

(* With onChange, a result is posted again only if two runs of the         *)
(* autoevent overlapped (autoevent.c 90).                                  *)
THEOREM Changes == Spec => []ChangesOnlyUnlessOverlapped
<1>1. Inv => ChangesOnlyUnlessOverlapped
  BY DEF Inv, ChangeInv, ChangesOnlyUnlessOverlapped
<1>2. QED
  BY <1>1, Invariant, PTL

(* After the stop of the service no autoevent runs (devsdk.h 209).         *)
THEOREM NoEvents == Spec => []NoEventAfterStop
<1>1. Inv => NoEventAfterStop
  BY DEF Inv, StopInv, NoEventAfterStop
<1>2. QED
  BY <1>1, Invariant, PTL

=============================================================================
