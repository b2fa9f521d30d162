----------------------------- MODULE AutoEvents -----------------------------
(***************************************************************************)
(* The SDK's automatic events, device-sdk-c/src/c/autoevent.c, with the    *)
(* scheduler and the thread pool that run them, the device map that starts *)
(* and stops them and the stop of the service.                             *)
(*                                                                         *)
(* All the device structs here are those of one device name, one after     *)
(* the other, each with one autoevent (autoevents only share the pool).    *)
(* A device struct is freed with its last holder (see DevMap); freeing it  *)
(* queues the job that stops its autoevent.                                *)
(***************************************************************************)
EXTENDS Naturals, Sequences, FiniteSets

CONSTANTS
  Dev,          \* memory for edgex_device structs with that name
  Worker,       \* threads of the service's pool
  Value,        \* results that the driver may read
  Frequency,    \* what a device may say of its autoevent: [number, unit]
  MaxFires,     \* bound: firings of the scheduler
  NULL,
  Freed         \* a struct or result that has been freed

(* An autoevent: its references, whether the service's start handler has   *)
(* returned a handle for it, the last result, and its onChange.            *)
AutoImpl == [refs : Nat, handle : BOOLEAN, last : Value \cup {NULL, Freed}, onChange : BOOLEAN]

ASSUME AutoEventsAssumptions ==
  /\ IsFiniteSet(Worker) /\ MaxFires \in Nat
  /\ Frequency \subseteq [number : Nat, unit : STRING]
  /\ NULL \notin Dev \cup Value \cup AutoImpl /\ Freed \notin Dev \cup Value \cup AutoImpl
  /\ NULL # Freed

VARIABLES
  current,      \* the struct that the map has under the name, or NULL
  dangling,     \* the map was cleared: the name leads to a freed string
  held,         \* structs that threads outside the pool have a reference to
  ai,           \* ai[d]: the edgex_autoimpl of d; NULL, a record or Freed
  sched,        \* sched[d]: its schedule: "none", "active", "removed", "deleted"
  jobs,         \* the queue of the thread pool
  worker,       \* worker[w]: the job that w runs
  own,          \* the service registered handlers of its own
  phase,        \* of the service: "new", "starting", "running", "stopping", "stopped"
  fires,        \* number of firings of the scheduler
  driver,       \* driver[d]: what the service's own handlers were last asked
                \* for: "none", "started", "stopped", "stopped NULL"
  posted,       \* history: posted[d]: the last result posted by d, with onChange
  leaked,       \* history: leaked[d]: references that runners kept
  released,     \* history: autoevents whose stopper gave its reference back
  overlapped,   \* history: autoevents with two runners between reading and
                \* storing the last result
  repeated,     \* history: autoevents that posted an unchanged result
  crash         \* "none", or who used freed memory

mapVars == <<current, dangling, held>>
ghosts == <<leaked, released, overlapped, repeated, posted>>
vars == <<mapVars, ai, sched, jobs, worker, own, phase, fires, driver, ghosts, crash>>

Alive == crash = "none"

Idle == [pc |-> "idle", ai |-> NULL, dev |-> NULL, res |-> NULL]

(* The steps at which a runner has its reference to the autoevent.         *)
Running == {"lookup", "check", "compare", "post", "free last", "store",
            "finish", "unknown", "release"}

(* Those between its reading and its storing of the last result.           *)
Comparing == {"post", "free last", "store"}

Runners(d) == {w \in Worker : worker[w].ai = d /\ worker[w].pc \in Running}

----------------------------------------------------------------------------
(* Who has a reference to the struct d                                     *)

Users(d) == {w \in Worker : worker[w].dev = d}
InUse(d) == current = d \/ d \in held \/ Users(d) # {}

(* edgex_device_autoevent_stop, called when the last reference to d goes:  *)
(* the jobs that are queued.                                               *)
autoevent_stop(d) ==
  IF ai[d] = NULL THEN <<>> ELSE <<[run |-> "stopper", ai |-> d]>>

(* edgex_device_autoevent_start with handlers of the service's own or not: *)
(* the jobs that are queued.                                               *)
autoevent_start(d) == IF own THEN <<[run |-> "starter", ai |-> d]>> ELSE <<>>

(* The fields of a new edgex_autoimpl.  handle: it has been stored.        *)
new(onChange) == [refs |-> 1, handle |-> FALSE, last |-> NULL, onChange |-> onChange]

Fresh(d) == ~InUse(d) /\ ai[d] = NULL

(* The units in milliseconds; without one of them the period is zero.      *)
suffixes == [ms |-> 1, s |-> 1000, m |-> 60000, h |-> 3600000]

parseTime(spec) == IF spec.unit \in DOMAIN suffixes THEN spec.number * suffixes[spec.unit] ELSE 0

(* The struct d comes into the map.  Its autoevent is not started if its   *)
(* resource is unknown or its frequency does not parse.                    *)
Starts(d, started, onChange) ==
  IF started
  THEN /\ ai' = [ai EXCEPT ![d] = new(onChange)]
       /\ sched' = IF own THEN sched ELSE [sched EXCEPT ![d] = "active"]
  ELSE UNCHANGED <<ai, sched>>

Init ==
  /\ current = NULL /\ dangling = FALSE /\ held = {}
  /\ ai = [d \in Dev |-> NULL] /\ sched = [d \in Dev |-> "none"]
  /\ jobs = <<>> /\ worker = [w \in Worker |-> Idle]
  /\ own = FALSE /\ phase = "new" /\ fires = 0
  /\ driver = [d \in Dev |-> "none"]
  /\ leaked = [d \in Dev |-> 0] /\ released = {} /\ overlapped = {} /\ repeated = {}
  /\ posted = [d \in Dev |-> NULL]
  /\ crash = "none"

----------------------------------------------------------------------------
(* The service and its map                                                 *)

lifeUnchanged == UNCHANGED <<worker, driver, ghosts, crash>>

(* edgex_device_register_autoevent_handlers works only before the start.   *)
register_autoevent_handlers ==
  /\ phase = "new" /\ ~own
  /\ own' = TRUE
  /\ UNCHANGED <<mapVars, ai, sched, jobs, phase, fires>> /\ lifeUnchanged

(* The start of the service, which fills the map, and the moment the       *)
(* scheduler and the REST server run.                                      *)
Start ==
  /\ \/ phase = "new" /\ phase' = "starting"
     \/ phase = "starting" /\ phase' = "running"
  /\ UNCHANGED <<mapVars, ai, sched, jobs, own, fires>> /\ lifeUnchanged

(* edgex_devmap: a device is added, removed, or replaced by one of another *)
(* shape.                                                                  *)
ChangeMap(new_, started, onChange) ==
  /\ Alive /\ phase \in {"starting", "running"}
  /\ current # new_ /\ (phase = "starting" => current = NULL)
  /\ new_ # NULL => Fresh(new_)
  /\ current' = new_
  /\ jobs' = (IF current # NULL /\ current \notin held /\ Users(current) = {}
                THEN jobs \o autoevent_stop(current) ELSE jobs)
               \o (IF new_ # NULL /\ started THEN autoevent_start(new_) ELSE <<>>)
  /\ IF new_ = NULL THEN UNCHANGED <<ai, sched>> ELSE Starts(new_, started, onChange)
  /\ UNCHANGED <<dangling, held, own, phase, fires>> /\ lifeUnchanged

(* Another thread looks the device up and later releases it.               *)
Hold ==
  /\ Alive /\ phase = "running" /\ current # NULL
  /\ held' = held \cup {current}
  /\ UNCHANGED <<current, dangling, ai, sched, jobs, own, phase, fires>>
  /\ lifeUnchanged

LetGo(d) ==
  /\ Alive /\ d \in held
  /\ held' = held \ {d}
  /\ jobs' = IF current = d \/ Users(d) # {} THEN jobs ELSE jobs \o autoevent_stop(d)
  /\ UNCHANGED <<current, dangling, ai, sched, own, phase, fires>>
  /\ lifeUnchanged

(* edgex_device_service_stop: no more firings, no more callbacks, then     *)
(* edgex_devmap_clear,                                                     *)
Stop ==
  /\ Alive /\ phase = "running"
  /\ phase' = "stopping"
  /\ UNCHANGED <<mapVars, ai, sched, jobs, own, fires>> /\ lifeUnchanged

Clear ==
  /\ Alive /\ phase = "stopping" /\ current # NULL
  /\ current' = NULL /\ dangling' = TRUE
  /\ jobs' = IF current \in held \/ Users(current) # {} THEN jobs
             ELSE jobs \o autoevent_stop(current)
  /\ UNCHANGED <<held, ai, sched, own, phase, fires>> /\ lifeUnchanged

(* Defective variant: the stop does not wait for the pool.                 *)
StoppedEarly ==
  /\ Alive /\ phase = "stopping" /\ current = NULL
  /\ phase' = "stopped"
  /\ UNCHANGED <<mapVars, ai, sched, jobs, own, fires>> /\ lifeUnchanged

(* and iot_threadpool_wait: every job is done.                             *)
Stopped ==
  /\ Alive /\ phase = "stopping" /\ current = NULL
  /\ jobs = <<>> /\ \A w \in Worker : worker[w] = Idle
  /\ phase' = "stopped"
  /\ UNCHANGED <<mapVars, ai, sched, jobs, own, fires>> /\ lifeUnchanged

----------------------------------------------------------------------------
(* The scheduler and the pool                                              *)

(* A period has passed, whether the job of the last one is done or not.    *)
Fire(d) ==
  /\ Alive /\ phase = "running" /\ fires < MaxFires
  /\ sched[d] = "active"
  /\ fires' = fires + 1
  /\ jobs' = Append(jobs, [run |-> "ae_runner", ai |-> d])
  /\ UNCHANGED <<mapVars, ai, sched, own, phase>> /\ lifeUnchanged

Take(w) ==
  /\ Alive /\ jobs # <<>> /\ worker[w] = Idle /\ phase # "new"
  /\ worker' = [worker EXCEPT ![w].pc = Head(jobs).run, ![w].ai = Head(jobs).ai]
  /\ jobs' = Tail(jobs)
  /\ UNCHANGED <<mapVars, ai, sched, own, phase, fires, driver, ghosts, crash>>

----------------------------------------------------------------------------
(* ae_runner                                                               *)

At(w, pc) == Alive /\ worker[w].pc = pc

GoTo(w, pc) == worker' = [worker EXCEPT ![w].pc = pc]

runnerUnchanged == UNCHANGED <<own, phase, fires, driver>>

(* The reference to the autoevent is taken when the job runs, not when it  *)
(* is queued.                                                              *)
Begin(w) ==
  LET d == worker[w].ai IN
  /\ At(w, "ae_runner")
  /\ IF ai[d] = Freed
     THEN crash' = "runner begins" /\ UNCHANGED <<ai, worker>>
     ELSE ai' = [ai EXCEPT ![d].refs = @ + 1] /\ GoTo(w, "lookup") /\ UNCHANGED crash
  /\ UNCHANGED <<mapVars, sched, jobs, ghosts>> /\ runnerUnchanged

(* edgex_devmap_device_byname, by the name the autoevent was started with. *)
(* In a map that was cleared it follows a bad pointer.                     *)
LookUp(w) ==
  /\ At(w, "lookup")
  /\ IF dangling THEN crash' = "lookup" /\ UNCHANGED worker
     ELSE /\ worker' = [worker EXCEPT ![w].dev = current,
                                      ![w].pc = IF current = NULL THEN "unknown" ELSE "check"]
          /\ UNCHANGED crash
  /\ UNCHANGED <<mapVars, ai, sched, jobs, ghosts>> /\ runnerUnchanged

(* The jobs queued when w gives back its reference to its device.          *)
Dropped(w) ==
  LET d == worker[w].dev IN
  IF current = d \/ d \in held \/ Users(d) # {w} THEN jobs ELSE jobs \o autoevent_stop(d)

(* A locked or disabled device (callbacks may set its state at any time):  *)
(* the device is released, the autoevent is not.                           *)
Refused(w) ==
  /\ At(w, "check")
  /\ jobs' = Dropped(w)
  /\ leaked' = [leaked EXCEPT ![worker[w].ai] = @ + 1]
  /\ worker' = [worker EXCEPT ![w] = Idle]
  /\ UNCHANGED <<mapVars, ai, sched, released, overlapped, repeated, posted, crash>>
  /\ runnerUnchanged

(* Otherwise the driver's gethandler reads r, or fails.                    *)
Get(w, r) ==
  /\ At(w, "check")
  /\ worker' = [worker EXCEPT ![w].res = r,
                              ![w].pc = IF r = NULL THEN "finish" ELSE "compare"]
  /\ UNCHANGED <<mapVars, ai, sched, jobs, ghosts, crash>> /\ runnerUnchanged

(* Defective variant: results are compared whatever onChange says, and     *)
(* posted when equal.                                                      *)
CompareNot(w) ==
  LET d == worker[w].ai IN
  /\ At(w, "compare")
  /\ GoTo(w, "post")
  /\ overlapped' = IF \E v \in Runners(d) \ {w} : worker[v].pc \in Comparing
                   THEN overlapped \cup {d} ELSE overlapped
  /\ UNCHANGED <<mapVars, ai, sched, jobs, leaked, released, repeated, posted, crash>>
  /\ runnerUnchanged

(* With onChange, a result equal to the last one is not posted.            *)
Compare(w) ==
  LET d == worker[w].ai
      onChange == ai[d].onChange
  IN
  /\ At(w, "compare")
  /\ IF onChange /\ ai[d].last = Freed THEN crash' = "last" /\ UNCHANGED worker
     ELSE /\ GoTo(w, IF onChange /\ ai[d].last = worker[w].res THEN "finish" ELSE "post")
          /\ UNCHANGED crash
  /\ overlapped' = IF \E v \in Runners(d) \ {w} : worker[v].pc \in Comparing
                   THEN overlapped \cup {d} ELSE overlapped
  /\ UNCHANGED <<mapVars, ai, sched, jobs, leaked, released, repeated, posted>>
  /\ runnerUnchanged

(* edgex_data_process_event finds that the assertion does not hold: core-  *)
(* metadata is asked to disable the device.                                *)
AssertionFailed(w) ==
  /\ At(w, "post")
  /\ GoTo(w, "finish")
  /\ UNCHANGED <<mapVars, ai, sched, jobs, ghosts, crash>>
  /\ runnerUnchanged

(* The event is posted to core-data, or core-data does not take it.        *)
Post(w, ok) ==
  LET d == worker[w].ai IN
  /\ At(w, "post")
  /\ posted' = IF ok /\ ai[d].onChange THEN [posted EXCEPT ![d] = worker[w].res] ELSE posted
  /\ repeated' = IF ok /\ ai[d].onChange /\ posted[d] = worker[w].res
                 THEN repeated \cup {d} ELSE repeated
  /\ GoTo(w, IF ok /\ ai[d].onChange THEN "free last" ELSE "finish")
  /\ UNCHANGED <<mapVars, ai, sched, jobs, leaked, released, overlapped, crash>>
  /\ runnerUnchanged

FreeLast(w) ==
  LET d == worker[w].ai IN
  /\ At(w, "free last")
  /\ IF ai[d].last = Freed THEN crash' = "last" /\ UNCHANGED <<ai, worker>>
     ELSE /\ ai' = [ai EXCEPT ![d].last = IF @ = NULL THEN NULL ELSE Freed]
          /\ GoTo(w, "store") /\ UNCHANGED crash
  /\ UNCHANGED <<mapVars, sched, jobs, ghosts>> /\ runnerUnchanged

StoreLast(w) ==
  /\ At(w, "store")
  /\ ai' = [ai EXCEPT ![worker[w].ai].last = worker[w].res]
  /\ GoTo(w, "finish")
  /\ UNCHANGED <<mapVars, sched, jobs, ghosts, crash>> /\ runnerUnchanged

(* edgex_device_release, possibly of the last reference                    *)
Finish(w) ==
  /\ At(w, "finish")
  /\ jobs' = Dropped(w)
  /\ worker' = [worker EXCEPT ![w] = [Idle EXCEPT !.pc = "release", !.ai = worker[w].ai]]
  /\ UNCHANGED <<mapVars, ai, sched, ghosts, crash>> /\ runnerUnchanged

(* The device is unknown: its schedule is removed from the scheduler,      *)
(* which follows a bad pointer if the stopper has deleted it.              *)
Unknown(w) ==
  LET d == worker[w].ai IN
  /\ At(w, "unknown")
  /\ IF sched[d] = "deleted" THEN crash' = "schedule" /\ UNCHANGED <<sched, worker>>
     ELSE /\ sched' = [sched EXCEPT ![d] = "removed"]
          /\ GoTo(w, "release") /\ UNCHANGED crash
  /\ UNCHANGED <<mapVars, ai, jobs, ghosts>> /\ runnerUnchanged

(* Defective variant: freed when the count was zero before.                *)
autoimpl_releaseLate(d) ==
  ai' = IF ai[d].refs = 0 THEN [ai EXCEPT ![d] = Freed] ELSE [ai EXCEPT ![d].refs = @ - 1]

(* edgex_autoimpl_release                                                  *)
autoimpl_release(d) ==
  ai' = IF ai[d].refs = 1 THEN [ai EXCEPT ![d] = Freed] ELSE [ai EXCEPT ![d].refs = @ - 1]

EndRunner(w) ==
  /\ At(w, "release")
  /\ autoimpl_release(worker[w].ai)
  /\ worker' = [worker EXCEPT ![w] = Idle]
  /\ UNCHANGED <<mapVars, sched, jobs, ghosts, crash>> /\ runnerUnchanged

----------------------------------------------------------------------------
(* starter and stopper                                                     *)

starterUnchanged == UNCHANGED <<mapVars, jobs, own, phase, fires, leaked, overlapped, repeated, posted>>

(* The starter has no reference: it reads the autoevent, calls the         *)
(* service's handler and then stores what that returns.                    *)
starter(w) ==
  LET d == worker[w].ai IN
  /\ At(w, "starter")
  /\ IF ai[d] = Freed THEN crash' = "starter" /\ UNCHANGED <<worker, driver>>
     ELSE /\ driver' = [driver EXCEPT ![d] = "started"]
          /\ GoTo(w, "started") /\ UNCHANGED crash
  /\ UNCHANGED <<ai, sched, released>> /\ starterUnchanged

StoreHandle(w) ==
  LET d == worker[w].ai IN
  /\ At(w, "started")
  /\ IF ai[d] = Freed THEN crash' = "starter" /\ UNCHANGED <<ai, worker>>
     ELSE /\ ai' = [ai EXCEPT ![d].handle = TRUE]
          /\ worker' = [worker EXCEPT ![w] = Idle] /\ UNCHANGED crash
  /\ UNCHANGED <<sched, driver, released>> /\ starterUnchanged

(* The stopper has the reference of the device struct.                     *)
stopper(w) ==
  LET d == worker[w].ai IN
  /\ At(w, "stopper")
  /\ IF ai[d] = Freed THEN crash' = "stopper" /\ UNCHANGED <<sched, driver, worker>>
     ELSE /\ IF own THEN /\ driver' = [driver EXCEPT ![d] = IF ai[d].handle THEN "stopped"
                                                            ELSE "stopped NULL"]
                         /\ UNCHANGED sched
             ELSE sched' = [sched EXCEPT ![d] = "deleted"] /\ UNCHANGED driver
          /\ GoTo(w, "stopped") /\ UNCHANGED crash
  /\ UNCHANGED <<ai, released>> /\ starterUnchanged

StopperReleases(w) ==
  LET d == worker[w].ai IN
  /\ At(w, "stopped")
  /\ autoimpl_release(d)
  /\ released' = released \cup {d}
  /\ worker' = [worker EXCEPT ![w] = Idle]
  /\ UNCHANGED <<sched, driver, crash>> /\ starterUnchanged

----------------------------------------------------------------------------
Service ==
  \/ register_autoevent_handlers \/ Start \/ Hold \/ Stop \/ Clear \/ Stopped
  \/ \E n \in Dev \cup {NULL}, known, onChange \in BOOLEAN, spec \in Frequency :
       ChangeMap(n, known /\ parseTime(spec) # 0, onChange)
  \/ \E d \in Dev : LetGo(d)

ae_runner(w) ==
  \/ Begin(w) \/ LookUp(w) \/ Refused(w)
  \/ \E r \in Value \cup {NULL} : Get(w, r)
  \/ Compare(w) \/ AssertionFailed(w) \/ (\E ok \in BOOLEAN : Post(w, ok))
  \/ FreeLast(w) \/ StoreLast(w) \/ Finish(w) \/ Unknown(w) \/ EndRunner(w)

Work(w) == \/ Take(w) \/ ae_runner(w)
           \/ starter(w) \/ StoreHandle(w) \/ stopper(w) \/ StopperReleases(w)

Next == Service \/ (\E d \in Dev : Fire(d)) \/ (\E w \in Worker : Work(w))

Spec == Init /\ [][Next]_vars

----------------------------------------------------------------------------
(* Properties                                                              *)

Job == [run : {"ae_runner", "starter", "stopper"}, ai : Dev]

PCs == Running \cup {"idle", "ae_runner", "starter", "started", "stopper", "stopped"}
WorkerState ==
  [pc : PCs, ai : Dev \cup {NULL}, dev : Dev \cup {NULL}, res : Value \cup {NULL}]

TypeOK ==
  /\ current \in Dev \cup {NULL} /\ dangling \in BOOLEAN
  /\ held \subseteq Dev
  /\ ai \in [Dev -> AutoImpl \cup {NULL, Freed}]
  /\ sched \in [Dev -> {"none", "active", "removed", "deleted"}]
  /\ jobs \in Seq(Job)
  /\ worker \in [Worker -> WorkerState]
  /\ own \in BOOLEAN
  /\ phase \in {"new", "starting", "running", "stopping", "stopped"}
  /\ fires \in Nat
  /\ driver \in [Dev -> {"none", "started", "stopped", "stopped NULL"}]
  /\ leaked \in [Dev -> Nat] /\ released \subseteq Dev
  /\ overlapped \subseteq Dev /\ repeated \subseteq Dev
  /\ posted \in [Dev -> Value \cup {NULL}]
  /\ crash \in {"none", "runner begins", "lookup", "last", "schedule", "starter", "stopper"}

(* Nothing is left of a device that is gone when the pool is idle: its     *)
(* autoevent is freed unless a reference was kept, and its schedule is no  *)
(* longer active.  Nor can the schedule of a freed autoevent ever fire.    *)
GoneIsFreed ==
  /\ \A d \in Dev : ai[d] = Freed => sched[d] # "active"
  /\ Alive /\ jobs = <<>> /\ (\A w \in Worker : worker[w] = Idle)
       => \A d \in Dev : ~InUse(d) => /\ ai[d] \in {NULL, Freed} \/ leaked[d] > 0
                                      /\ sched[d] # "active"

(* autoevent.c 56-65: the count of an autoevent is that of the references  *)
(* to it: the device's until the stopper gives it back, that of each       *)
(* runner at work, and those that runners kept when they found the device  *)
(* locked.  So no autoevent is freed under a runner that has begun, nor    *)
(* kept without cause, and the stop of a device's autoevent never finds    *)
(* the autoevent freed; and nothing is left of a device that is gone.      *)
RefsExact ==
  /\ TypeOK
  /\ \A d \in Dev :
       LET n == (IF d \in released THEN 0 ELSE 1) + Cardinality(Runners(d)) + leaked[d] IN
       IF ai[d] = Freed THEN n = 0 ELSE ai[d] # NULL => n > 0 /\ ai[d].refs = n
  /\ crash # "stopper"
  /\ GoneIsFreed

(* autoevent.c 90: with onChange, no result is posted that is the same as  *)
(* the one posted before, and the last result is valid, unless two runs    *)
(* of the autoevent overlapped.                                            *)
ChangesOnlyUnlessOverlapped ==
  /\ repeated \subseteq overlapped
  /\ crash = "last" => overlapped # {}

(* devsdk.h 209: "Any automatic events will be cancelled" by the stop: no  *)
(* run of an autoevent is left after it.                                   *)
NoEventAfterStop ==
  phase = "stopped" => \A w \in Worker : worker[w].pc \notin Running \cup {"ae_runner"}
=============================================================================
