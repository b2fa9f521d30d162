------------------------------- MODULE DevMap -------------------------------
(***************************************************************************)
(* The SDK's device map, device-sdk-c/src/c/devmap.c, with those who use   *)
(* it: the handler of core-metadata's callbacks (callback.c), the threads  *)
(* that look devices up and release them (device.c, devman.c, service.c),  *)
(* the start of the service that fills it and the stop that clears it.     *)
(*                                                                         *)
(* The map is one record: heap holds the edgex_device structs, devices and *)
(* name_to_id are the maps of the same names.  name_to_id stores the       *)
(* pointer dup->id, that is, the string inside the struct; it is modelled  *)
(* by the struct.  Each function of devmap.c is an operator on the record  *)
(* and, being under the map's rwlock, one step of its caller.              *)
(***************************************************************************)
EXTENDS Null, Naturals, FiniteSets

CONSTANTS
  Id,           \* the database ids of the devices
  Name,         \* device names
  Profile,      \* names of device profiles
  Obj,          \* memory for edgex_device structs
  Callback,     \* HTTP threads that run the callback handler
  Http,         \* HTTP threads that run commands
  Thread,       \* the driver's threads, which nothing stops
  MaxChanges,   \* bound: changes made in core-metadata
  Deleted       \* the state of a device that metadata no longer has

Reader == Http \cup Thread

(* An edgex_device struct.  prof stands for its profile, autoevents and    *)
(* protocols, ptr for the pointer to the profile struct, labels for its    *)
(* labels and description.                                                 *)
Device == [id : Id, name : Name, prof : Profile, ptr : Nat \ {0},
           enabled : BOOLEAN, labels : Nat, refs : Nat \ {0}]

(* A device of core-metadata.  ours: it is one of this service.            *)
MetaDevice == [name : Name, prof : Profile, enabled : BOOLEAN, labels : Nat,
               ours : BOOLEAN]

ASSUME DevMapAssumptions ==
  /\ IsFiniteSet(Reader)
  /\ NULL \notin Obj \cup Device \cup MetaDevice \cup [id : Id, dev : MetaDevice]
  /\ Deleted \notin MetaDevice \cup {NULL}
  /\ MaxChanges \in Nat

VARIABLES
  map,          \* edgex_devmap_t and the structs it points to
  holds,        \* holds[t]: the structs t has a reference to
  copying,      \* copying[t]: the struct t is copying, or NULL
  cb,           \* cb[c]: the device a callback has fetched, or NULL
  meta,         \* meta[i]: the device i in core-metadata, NULL before it is
                \* added, Deleted after
  missing,      \* profiles that a thread did not find and is fetching
  refetched,    \* history: profiles that such a thread replaced in the map
  pending,      \* callbacks posted by core-metadata and not yet taken up
  changes,      \* number of changes made in core-metadata
  phase,        \* of the service: "new", "starting", "running", "stopping",
                \* "stopped", "freed"
  devs,         \* the devices still to be put into the map at the start
  clearing,     \* the struct edgex_devmap_clear has released, or NULL
  crash,        \* "none", or the function that dereferenced a bad pointer
  raced         \* history: a change fell into the start, two callbacks for
                \* one device overlapped, or a device given to another
                \* service changed again before the callback was handled

core == <<meta, pending, changes>>
profs == <<missing, refetched>>
life == <<phase, devs, clearing>>
vars == <<map, holds, copying, cb, profs, core, life, crash, raced>>

----------------------------------------------------------------------------
(* The functions of devmap.c                                               *)

EmptyMap ==
  [heap       |-> [o \in Obj |-> NULL],
   devices    |-> [i \in Id |-> NULL],
   name_to_id |-> [n \in Name |-> NULL],
   profiles   |-> [p \in Profile |-> 0],
   structs    |-> 0]    \* number of profile structs: they are pointers 1..structs

Free(m) == {o \in Obj : m.heap[o] = NULL}

(* Defective variant: frees when the count was zero before.                *)
releaseLate(m, o) ==
  IF m.heap[o].refs = 0 THEN [m EXCEPT !.heap[o] = NULL]
                        ELSE [m EXCEPT !.heap[o].refs = @ - 1]

(* edgex_device_release                                                    *)
release(m, o) ==
  IF m.heap[o].refs = 1 THEN [m EXCEPT !.heap[o] = NULL]
                        ELSE [m EXCEPT !.heap[o].refs = @ - 1]

(* Defective variant: the struct keeps its own copy of the profile.        *)
add_lockedOwnProfile(m, i, dev, o) ==
  [m EXCEPT
     !.heap[o] = [id |-> i, name |-> dev.name, prof |-> dev.prof, ptr |-> m.structs + 1,
                  enabled |-> dev.enabled, labels |-> dev.labels, refs |-> 1],
     !.devices[i] = o,
     !.name_to_id[dev.name] = o,
     !.profiles[dev.prof] = IF @ = 0 THEN m.structs + 1 ELSE @,
     !.structs = @ + 1]

(* edgex_device_dup'd from dev into o, with the profile of the map if it   *)
(* has one of that name.                                                   *)
add_locked(m, i, dev, o) ==
  LET known == m.profiles[dev.prof] # 0
      p == IF known THEN m.profiles[dev.prof] ELSE m.structs + 1
  IN  [m EXCEPT
         !.heap[o] = [id |-> i, name |-> dev.name, prof |-> dev.prof, ptr |-> p,
                      enabled |-> dev.enabled, labels |-> dev.labels, refs |-> 1],
         !.devices[i] = o,
         !.name_to_id[dev.name] = o,
         !.profiles[dev.prof] = p,
         !.structs = IF known THEN @ ELSE @ + 1]

(* Defective variant: the name stays.                                      *)
remove_lockedKeepName(m, o) ==
  release([m EXCEPT !.devices[m.heap[o].id] = NULL], o)

remove_locked(m, o) ==
  release([m EXCEPT !.name_to_id[m.heap[o].name] = NULL,
                    !.devices[m.heap[o].id] = NULL], o)

(* update_in_place refuses a change of name, profile, autoevents or        *)
(* protocols.                                                              *)
SameShape(d, dev) == d.name = dev.name /\ d.prof = dev.prof

(* Defective variant: the states are not copied.                           *)
update_in_placePartly(m, o, dev) == [m EXCEPT !.heap[o].labels = dev.labels]

update_in_place(m, o, dev) ==
  [m EXCEPT !.heap[o].enabled = dev.enabled, !.heap[o].labels = dev.labels]

(* edgex_devmap_replace_device: the maps it may leave, one for each struct *)
(* that malloc may return.                                                 *)
replace_device(m, i, dev) ==
  LET old == m.devices[i]
      AddTo(r) == {add_locked(r, i, dev, o) : o \in Free(r)}
  IN  IF old = NULL THEN AddTo(m)
      ELSE IF SameShape(m.heap[old], dev) THEN {update_in_place(m, old, dev)}
      ELSE AddTo(remove_locked(m, old))

(* One more reference for each struct of O.                                *)
Ref(m, O) == [m EXCEPT !.heap = [o \in Obj |->
                IF o \in O THEN [m.heap[o] EXCEPT !.refs = @ + 1] ELSE m.heap[o]]]

----------------------------------------------------------------------------
Init ==
  /\ map = EmptyMap
  /\ holds = [t \in Reader |-> {}] /\ copying = [t \in Reader |-> NULL]
  /\ cb = [c \in Callback |-> NULL]
  /\ missing = {} /\ refetched = {} /\ meta = [i \in Id |-> NULL] /\ pending = {} /\ changes = 0
  /\ phase = "new" /\ devs = {} /\ clearing = NULL
  /\ crash = "none" /\ raced = FALSE

----------------------------------------------------------------------------
(* Core-metadata: device names are unique, ids are never used again.       *)

IsDevice(r) == r \notin {NULL, Deleted}

NameFree(n, i) == \A j \in Id \ {i} : IsDevice(meta[j]) => meta[j].name # n

(* Metadata sets device i to r and posts a callback to the service if i is *)
(* or was one of its devices.  Before the REST server runs it is lost.     *)
Change(i, r, method) ==
  /\ changes < MaxChanges
  /\ changes' = changes + 1
  /\ meta' = [meta EXCEPT ![i] = r]
  /\ LET ours == \E s \in {meta[i], r} : IsDevice(s) /\ s.ours
     IN /\ pending' = IF ours /\ phase = "running"
                      THEN pending \cup {[method |-> method, id |-> i, n |-> changes]}
                      ELSE pending
        /\ raced' = (raced \/ phase = "starting"
                          \/ (~ours /\ \E n \in pending : n.id = i))
  /\ UNCHANGED <<map, holds, copying, cb, profs, life, crash>>

Record(n, p, e, s) ==
  [name |-> n, prof |-> p, enabled |-> e, labels |-> changes, ours |-> s]

MetaAdd(i, n, p) ==
  /\ meta[i] = NULL /\ NameFree(n, i)
  /\ Change(i, Record(n, p, TRUE, TRUE), "POST")

MetaUpdate(i, n, p, e, s) ==
  /\ IsDevice(meta[i]) /\ NameFree(n, i)
  /\ Change(i, Record(n, p, e, s), "PUT")

MetaDelete(i) ==
  /\ IsDevice(meta[i])
  /\ Change(i, Deleted, "DELETE")

----------------------------------------------------------------------------
(* The start of the service                                                *)

(* startConfigured obtains the devices of the service from metadata,       *)
ReadDevices ==
  /\ phase = "new"
  /\ devs' = {[id |-> i, dev |-> meta[i]] : i \in {j \in Id : IsDevice(meta[j]) /\ meta[j].ours}}
  /\ phase' = "starting"
  /\ UNCHANGED <<map, holds, copying, cb, profs, core, clearing, crash, raced>>

(* edgex_devmap_populate_devices puts them into the map one by one (nobody *)
(* else uses it yet)                                                       *)
Populate(d) ==
  /\ phase = "starting"
  /\ devs' = devs \ {d}
  /\ IF map.name_to_id[d.dev.name] = NULL
     THEN \E o \in Free(map) : map' = add_locked(map, d.id, d.dev, o)
     ELSE UNCHANGED map
  /\ UNCHANGED <<holds, copying, cb, profs, core, phase, clearing, crash, raced>>

(* and the REST server starts.                                             *)
StartServer ==
  /\ phase = "starting" /\ devs = {}
  /\ phase' = "running"
  /\ UNCHANGED <<map, holds, copying, cb, profs, core, devs, clearing, crash, raced>>

----------------------------------------------------------------------------
(* edgex_device_handler_callback                                           *)

Alive == crash = "none"

(* edgex_devmap_removedevice_byid does not expect an unknown id.           *)
removedevice_byid(i) ==
  IF map.devices[i] = NULL THEN crash' = "removedevice_byid" /\ UNCHANGED map
                           ELSE map' = remove_locked(map, map.devices[i]) /\ UNCHANGED crash

Busy(i) == \E c \in Callback : cb[c] # NULL /\ cb[c].id = i

(* POST and PUT first fetch the device from metadata.                      *)
CallbackFetch(c, n) ==
  /\ Alive /\ phase = "running" /\ cb[c] = NULL
  /\ n.method # "DELETE"
  /\ pending' = pending \ {n}
  /\ cb' = IF IsDevice(meta[n.id])
           THEN [cb EXCEPT ![c] = [id |-> n.id, dev |-> meta[n.id]]] ELSE cb
  /\ raced' = (raced \/ Busy(n.id))
  /\ UNCHANGED <<map, holds, copying, profs, meta, changes, life, crash>>

CallbackApply(c) ==
  /\ Alive /\ cb[c] # NULL
  /\ IF cb[c].dev.ours THEN map' \in replace_device(map, cb[c].id, cb[c].dev) /\ UNCHANGED crash
                       ELSE removedevice_byid(cb[c].id)
  /\ cb' = [cb EXCEPT ![c] = NULL]
  /\ UNCHANGED <<holds, copying, profs, core, life, raced>>

CallbackDelete(c, n) ==
  /\ Alive /\ phase = "running" /\ cb[c] = NULL
  /\ n.method = "DELETE"
  /\ pending' = pending \ {n}
  /\ removedevice_byid(n.id)
  /\ raced' = (raced \/ Busy(n.id))
  /\ UNCHANGED <<holds, copying, cb, profs, meta, changes, life>>

----------------------------------------------------------------------------
(* Readers.  Commands arrive while the REST server runs; the other threads *)
(* go on when the service stops.                                           *)

CanLookUp(t) ==
  /\ Alive /\ holds[t] = {}
  /\ phase = "running" \/ (t \in Thread /\ phase \in {"stopping", "stopped", "freed"})

(* A lookup that found the structs O takes a reference to each; if one of  *)
(* them is freed memory it has followed a bad pointer.                     *)
Found(t, O) ==
  IF \E o \in O : map.heap[o] = NULL
  THEN crash' = "lookup" /\ UNCHANGED <<map, holds>>
  ELSE /\ map' = Ref(map, O) /\ holds' = [holds EXCEPT ![t] = O]
       /\ UNCHANGED crash

lookupUnchanged == UNCHANGED <<copying, cb, profs, core, life, raced>>

device_byid(t, i) ==
  /\ CanLookUp(t) /\ phase # "freed"
  /\ map.devices[i] # NULL
  /\ Found(t, {map.devices[i]})
  /\ lookupUnchanged

(* Defective variant: no reference is taken.                               *)
device_bynameNoRef(t, n) ==
  /\ CanLookUp(t) /\ phase # "freed"
  /\ map.name_to_id[n] # NULL
  /\ holds' = [holds EXCEPT ![t] = {map.name_to_id[n]}]
  /\ UNCHANGED <<map, crash>>
  /\ lookupUnchanged

(* edgex_devmap_device_byname follows name_to_id to the id and the id to   *)
(* the device without looking.                                             *)
device_byname(t, n) ==
  /\ CanLookUp(t) /\ phase # "freed"
  /\ LET s == map.name_to_id[n]
         bad == map.heap[s] = NULL \/ map.devices[map.heap[s].id] = NULL
     IN /\ s # NULL
        /\ IF bad THEN crash' = "lookup" /\ UNCHANGED <<map, holds>>
                  ELSE Found(t, {map.devices[map.heap[s].id]})
  /\ lookupUnchanged

(* edgex_devmap_device_forcmd, for a command that the profile p has.       *)
device_forcmd(t, p) ==
  /\ CanLookUp(t) /\ t \in Http
  /\ Found(t, {o \in Obj : \E i \in Id : /\ map.devices[i] = o
                                         /\ map.heap[o].enabled /\ map.heap[o].prof = p})
  /\ lookupUnchanged

(* Any lookup after edgex_devmap_free.                                     *)
LookUpFreed(t) ==
  /\ CanLookUp(t) /\ phase = "freed"
  /\ crash' = "lookup"
  /\ UNCHANGED <<map, holds>> /\ lookupUnchanged

(* edgex_device_get_device_byname and edgex_device_get_device copy the     *)
(* device they hold, outside the lock, and then release it; other holders  *)
(* only release it.                                                        *)
StartCopy(t, o) ==
  /\ Alive /\ holds[t] = {o} /\ copying[t] = NULL
  /\ copying' = [copying EXCEPT ![t] = o]
  /\ UNCHANGED <<map, holds, cb, profs, core, life, crash, raced>>

Release(t, o) ==
  /\ Alive /\ o \in holds[t]
  /\ map' = release(map, o)
  /\ holds' = [holds EXCEPT ![t] = @ \ {o}]
  /\ copying' = [copying EXCEPT ![t] = NULL]
  /\ UNCHANGED <<cb, profs, core, life, crash, raced>>

(* edgex_deviceprofile_get_internal: a profile the map does not have is    *)
(* fetched from metadata and then added, in two holds of the lock.         *)
MissProfile(p) ==
  /\ Alive /\ phase = "running"
  /\ map.profiles[p] = 0
  /\ missing' = missing \cup {p}
  /\ UNCHANGED <<map, holds, copying, cb, refetched, core, life, crash, raced>>

AddProfile(p) ==
  /\ Alive /\ p \in missing
  /\ missing' = missing \ {p}
  /\ refetched' = IF map.profiles[p] = 0 THEN refetched ELSE refetched \cup {p}
  /\ map' = [map EXCEPT !.profiles[p] = map.structs + 1, !.structs = @ + 1]
  /\ UNCHANGED <<holds, copying, cb, core, life, crash, raced>>

----------------------------------------------------------------------------
(* edgex_device_service_stop and edgex_device_service_free                 *)

(* The REST server stops when its threads have ended; random_stop does     *)
(* nothing.                                                                *)
Stop ==
  /\ Alive /\ phase = "running"
  /\ \A c \in Callback : cb[c] = NULL
  /\ \A t \in Http : holds[t] = {}
  /\ missing = {}
  /\ phase' = "stopping"
  /\ pending' = {}
  /\ UNCHANGED <<map, holds, copying, cb, profs, meta, changes, devs, clearing, crash, raced>>

(* edgex_devmap_clear takes no lock.  It releases each device and then     *)
(* removes it from devices, but leaves name_to_id as it is.                *)
ClearRelease(i) ==
  /\ Alive /\ phase = "stopping" /\ clearing = NULL
  /\ map.devices[i] # NULL
  /\ map' = release(map, map.devices[i])
  /\ clearing' = map.devices[i]
  /\ UNCHANGED <<holds, copying, cb, profs, core, phase, devs, crash, raced>>

ClearRemove(i) ==
  /\ Alive /\ clearing # NULL /\ map.devices[i] = clearing
  /\ map' = [map EXCEPT !.devices[i] = NULL]
  /\ clearing' = NULL
  /\ UNCHANGED <<holds, copying, cb, profs, core, phase, devs, crash, raced>>

Stopped ==
  /\ Alive /\ phase = "stopping" /\ \A i \in Id : map.devices[i] = NULL
  /\ phase' = "stopped"
  /\ UNCHANGED <<map, holds, copying, cb, profs, core, devs, clearing, crash, raced>>

ServiceFree ==
  /\ Alive /\ phase = "stopped"
  /\ phase' = "freed"
  /\ UNCHANGED <<map, holds, copying, cb, profs, core, devs, clearing, crash, raced>>

----------------------------------------------------------------------------
Metadata ==
  \/ \E i \in Id, n \in Name, p \in Profile : MetaAdd(i, n, p)
  \/ \E i \in Id, n \in Name, p \in Profile, e, s \in BOOLEAN : MetaUpdate(i, n, p, e, s)
  \/ \E i \in Id : MetaDelete(i)

Starting == ReadDevices \/ (\E d \in devs : Populate(d)) \/ StartServer

Handler(c) == \/ \E n \in pending : CallbackFetch(c, n) \/ CallbackDelete(c, n)
              \/ CallbackApply(c)

LookUp(t) == \/ \E i \in Id : device_byid(t, i)
             \/ \E n \in Name : device_byname(t, n)
             \/ \E p \in Profile : device_forcmd(t, p)
             \/ LookUpFreed(t)

Copy(t) == \E o \in holds[t] : StartCopy(t, o)

ReleaseAny(t) == \E o \in holds[t] : Release(t, o)

Stopping == Stop \/ (\E i \in Id : ClearRelease(i) \/ ClearRemove(i)) \/ Stopped \/ ServiceFree

Next ==
  \/ Metadata \/ Starting \/ Stopping
  \/ \E c \in Callback : Handler(c)
  \/ \E t \in Reader : LookUp(t) \/ Copy(t) \/ ReleaseAny(t)
  \/ \E p \in Profile : MissProfile(p) \/ AddProfile(p)

(* Threads keep running: what was looked up is released.                   *)
Fairness == \A t \in Reader : WF_vars(ReleaseAny(t))

SafetySpec == Init /\ [][Next]_vars
Spec == SafetySpec /\ Fairness

----------------------------------------------------------------------------
(* Properties                                                              *)

TypeOK ==
  /\ map \in [heap : [Obj -> Device \cup {NULL}],
              devices : [Id -> Obj \cup {NULL}],
              name_to_id : [Name -> Obj \cup {NULL}],
              profiles : [Profile -> Nat], structs : Nat]
  /\ holds \in [Reader -> SUBSET Obj] /\ copying \in [Reader -> Obj \cup {NULL}]
  /\ cb \in [Callback -> [id : Id, dev : MetaDevice] \cup {NULL}]
  /\ missing \subseteq Profile /\ refetched \subseteq Profile
  /\ meta \in [Id -> MetaDevice \cup {NULL, Deleted}]
  /\ pending \subseteq [method : {"POST", "PUT", "DELETE"}, id : Id, n : Nat]
  /\ changes \in Nat
  /\ phase \in {"new", "starting", "running", "stopping", "stopped", "freed"}
  /\ devs \subseteq [id : Id, dev : MetaDevice]
  /\ clearing \in Obj \cup {NULL}
  /\ crash \in {"none", "removedevice_byid", "lookup"} /\ raced \in BOOLEAN

Holders(o) == {t \in Reader : o \in holds[t]}

(* The structs the map itself has a reference to.                          *)
InMap(o) == o # clearing /\ \E i \in Id : map.devices[i] = o

(* devmap.h 62-64: a device is freed when its count hits zero.  The count  *)
(* of each struct is that of its holders and the map, and a freed one has  *)
(* neither; so no device is freed in use and none is lost.                 *)
RefsCounted ==
  \A o \in Obj :
    IF map.heap[o] = NULL THEN Holders(o) = {} /\ ~InMap(o)
    ELSE map.heap[o].refs = Cardinality(Holders(o)) + (IF InMap(o) THEN 1 ELSE 0)

(* Until the service stops, name_to_id leads from a name to a device that  *)
(* is in the map under its own id and bears that name.                     *)
NamesLeadToDevices ==
  phase \in {"new", "starting", "running"} =>
    \A n \in Name : LET o == map.name_to_id[n] IN
      o # NULL => /\ map.heap[o] # NULL
                  /\ map.heap[o].name = n
                  /\ map.devices[map.heap[o].id] = o

(* Until the service stops, no lookup follows a bad pointer.               *)
LookupsSafe == crash = "lookup" => phase \in {"stopping", "stopped", "freed"}

Quiet == phase = "running" /\ crash = "none" /\ pending = {} /\ \A c \in Callback : cb[c] = NULL

Mirrors(i) ==
  LET o == map.devices[i]
      r == meta[i]
  IN  IF IsDevice(r) /\ r.ours
      THEN /\ o # NULL
           /\ map.heap[o].id = i /\ map.heap[o].name = r.name
           /\ map.heap[o].prof = r.prof /\ map.heap[o].enabled = r.enabled
           /\ map.heap[o].labels = r.labels
      ELSE o = NULL

(* When every callback has been handled the map shows what core-metadata   *)
(* has, in whatever order the callbacks came, if none of the races that    *)
(* the variable raced names has happened.                                  *)
MirrorsMetadataUnlessRaced == Quiet /\ ~raced => \A i \in Id : Mirrors(i)

(* devmap.c 10-11: the devices "reference profiles in the profile map by   *)
(* pointer", and so share them, except for a profile that was fetched by   *)
(* another thread while a device brought it into the map.                  *)
ProfilesSharedUnlessRefetched ==
  \A o \in Obj : map.heap[o] # NULL /\ map.heap[o].prof \notin refetched
                   => map.heap[o].ptr = map.profiles[map.heap[o].prof]

(* A device that was removed or replaced is freed.                         *)
RemovedIsFreed ==
  \A o \in Obj : (Alive /\ map.heap[o] # NULL /\ ~InMap(o))
                   ~> (~Alive \/ map.heap[o] = NULL)

(* device-sdk.raml 214-220: a callback is answered with 200, 400 or 501.   *)
CallbackAnswers == crash # "removedevice_byid"
=============================================================================
