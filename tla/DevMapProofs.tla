---------------------------- MODULE DevMapProofs ----------------------------
(***************************************************************************)
(* Proofs about the device map: its references are counted exactly and no  *)
(* lookup follows a bad pointer before the service stops; and what it      *)
(* shows of core-metadata, the devices and the profiles they share, once   *)
(* every callback has been handled.                                        *)
(*                                                                         *)
(* The invariant is stated over a map m, the holds h and the struct cl     *)
(* that edgex_devmap_clear has released, so that the lemmas about the      *)
(* functions of devmap.c speak of values and not of states.                *)
(***************************************************************************)
EXTENDS DevMap, FiniteSetTheorems, TLAPS

MapType == [heap : [Obj -> Device \cup {NULL}],
            devices : [Id -> Obj \cup {NULL}],
            name_to_id : [Name -> Obj \cup {NULL}],
            profiles : [Profile -> Nat], structs : Nat]

HoldersOf(h, o) == {t \in Reader : o \in h[t]}

(* holds when t gives o up, and when it takes the structs of O.            *)
Without(h, t, o) == [h EXCEPT ![t] = @ \ {o}]
With(h, t, O) == [h EXCEPT ![t] = O]

InMapOf(m, cl, o) == o # cl /\ \E i \in Id : m.devices[i] = o

(* RefsCounted of a map, for one struct and for all.                       *)
CountedAt(m, h, cl, o) ==
  IF m.heap[o] = NULL THEN HoldersOf(h, o) = {} /\ ~InMapOf(m, cl, o)
  ELSE m.heap[o].refs = Cardinality(HoldersOf(h, o)) + (IF InMapOf(m, cl, o) THEN 1 ELSE 0)

Counted(m, h, cl) == \A o \in Obj : CountedAt(m, h, cl, o)

(* A struct is in the map under one id only, its own.                      *)
Placed(m) ==
  \A i \in Id : m.devices[i] # NULL =>
    /\ \A j \in Id : m.devices[j] = m.devices[i] => j = i
    /\ m.heap[m.devices[i]] # NULL => m.heap[m.devices[i]].id = i

(* NamesLeadToDevices of a map.                                            *)
Named(m) ==
  \A n \in Name : LET o == m.name_to_id[n] IN
    o # NULL => m.heap[o] # NULL /\ m.heap[o].name = n /\ m.devices[m.heap[o].id] = o

----------------------------------------------------------------------------
(* What the functions of devmap.c do to the fields of the map              *)

(* edgex_device_release changes one struct: it frees it or takes one from  *)
(* its count.                                                              *)
LEMMA ReleaseFields ==
  ASSUME NEW m \in MapType, NEW o \in Obj, m.heap[o] # NULL
  PROVE  LET r == release(m, o) IN
         /\ r \in MapType
         /\ r.devices = m.devices /\ r.name_to_id = m.name_to_id /\ r.profiles = m.profiles
         /\ \A p \in Obj \ {o} : r.heap[p] = m.heap[p]
         /\ m.heap[o].refs = 1 => r.heap[o] = NULL
         /\ m.heap[o].refs # 1 => /\ r.heap[o] = [m.heap[o] EXCEPT !.refs = @ - 1]
                                  /\ r.heap[o] # NULL
<1> USE DevMapAssumptions
<1>1. m.heap[o] \in Device
  BY DEF MapType
<1>2. CASE m.heap[o].refs = 1
  <2>1. release(m, o) = [m EXCEPT !.heap = [m.heap EXCEPT ![o] = NULL]]
    BY <1>2 DEF release
  <2>2. QED
    BY <1>2, <2>1 DEF MapType
<1>3. CASE m.heap[o].refs # 1
  <2> DEFINE d == [m.heap[o] EXCEPT !.refs = @ - 1]
  <2>1. release(m, o) = [m EXCEPT !.heap = [m.heap EXCEPT ![o] = d]]
    BY <1>3 DEF release, MapType
  <2>2. d \in Device
    BY <1>1, <1>3 DEF Device
  <2>3. d # NULL
    BY <2>2
  <2> HIDE DEF d
  <2>4. QED
    BY <1>3, <2>1, <2>2, <2>3 DEF MapType, d
<1>4. QED
  BY <1>2, <1>3

(* The map m with a struct o for the device dev under id i.                *)
Added(m, r, i, dev, o) ==
  /\ r.devices = [m.devices EXCEPT ![i] = o]
  /\ r.name_to_id = [m.name_to_id EXCEPT ![dev.name] = o]
  /\ r.profiles = [m.profiles EXCEPT ![dev.prof] = r.heap[o].ptr]
  /\ m.profiles[dev.prof] # 0 => r.heap[o].ptr = m.profiles[dev.prof]
  /\ \A p \in Obj \ {o} : r.heap[p] = m.heap[p]
  /\ r.heap[o] # NULL
  /\ r.heap[o].id = i /\ r.heap[o].name = dev.name /\ r.heap[o].refs = 1
  /\ r.heap[o].prof = dev.prof
  /\ r.heap[o].enabled = dev.enabled /\ r.heap[o].labels = dev.labels

(* add_locked writes one struct and one entry of each map.                 *)
LEMMA AddFields ==
  ASSUME NEW m \in MapType, NEW i \in Id, NEW dev \in MetaDevice, NEW o \in Obj
  PROVE  LET r == add_locked(m, i, dev, o) IN r \in MapType /\ Added(m, r, i, dev, o)
<1> USE DevMapAssumptions
<1> DEFINE known == m.profiles[dev.prof] # 0
           q == IF known THEN m.profiles[dev.prof] ELSE m.structs + 1
           d == [id |-> i, name |-> dev.name, prof |-> dev.prof, ptr |-> q,
                 enabled |-> dev.enabled, labels |-> dev.labels, refs |-> 1]
           st == IF known THEN m.structs ELSE m.structs + 1
<1>1. dev.name \in Name /\ dev.prof \in Profile /\ dev.enabled \in BOOLEAN /\ dev.labels \in Nat
  BY DEF MetaDevice
<1>2. q \in Nat \ {0} /\ st \in Nat
  BY <1>1 DEF MapType
<1>3. d \in Device
  BY <1>1, <1>2 DEF Device
<1>4. d # NULL
  BY <1>3
<1>5. /\ d.id = i /\ d.name = dev.name /\ d.refs = 1
      /\ d.prof = dev.prof /\ d.enabled = dev.enabled /\ d.labels = dev.labels /\ d.ptr = q
      /\ m.profiles[dev.prof] # 0 => q = m.profiles[dev.prof]
  OBVIOUS
<1>6. add_locked(m, i, dev, o) =
        [m EXCEPT !.heap = [m.heap EXCEPT ![o] = d],
                  !.devices = [m.devices EXCEPT ![i] = o],
                  !.name_to_id = [m.name_to_id EXCEPT ![dev.name] = o],
                  !.profiles = [m.profiles EXCEPT ![dev.prof] = q],
                  !.structs = st]
  BY DEF add_locked, MapType
<1> HIDE DEF d, q, st, known
<1> DEFINE r == add_locked(m, i, dev, o)
           hp == [m.heap EXCEPT ![o] = d]
           dv == [m.devices EXCEPT ![i] = o]
           nm == [m.name_to_id EXCEPT ![dev.name] = o]
           pr == [m.profiles EXCEPT ![dev.prof] = q]
<1>7. /\ hp \in [Obj -> Device \cup {NULL}]
      /\ dv \in [Id -> Obj \cup {NULL}]
      /\ nm \in [Name -> Obj \cup {NULL}]
      /\ pr \in [Profile -> Nat]
  BY <1>1, <1>2, <1>3 DEF MapType
<1>8. hp[o] = d /\ \A p \in Obj \ {o} : hp[p] = m.heap[p]
  BY DEF MapType
<1>9. r = [m EXCEPT !.heap = hp, !.devices = dv, !.name_to_id = nm,
                    !.profiles = pr, !.structs = st]
  BY <1>6
<1> HIDE DEF hp, pr, r
<1>10. r \in MapType
  BY <1>2, <1>7, <1>9 DEF MapType
<1>11. r.heap = hp /\ r.devices = dv /\ r.name_to_id = nm /\ r.profiles = pr
  BY <1>9 DEF MapType
<1>12. QED
  BY <1>4, <1>5, <1>8, <1>10, <1>11 DEF r, pr, Added

(* update_in_place changes nothing but the state and labels of the struct. *)
LEMMA UpdateFields ==
  ASSUME NEW m \in MapType, NEW dev \in MetaDevice, NEW o \in Obj, m.heap[o] # NULL
  PROVE  LET r == update_in_place(m, o, dev) IN
         /\ r \in MapType
         /\ r.devices = m.devices /\ r.name_to_id = m.name_to_id
         /\ \A p \in Obj \ {o} : r.heap[p] = m.heap[p]
         /\ r.heap[o] # NULL
         /\ r.heap[o].id = m.heap[o].id /\ r.heap[o].name = m.heap[o].name
         /\ r.heap[o].refs = m.heap[o].refs
         /\ r.heap[o].prof = m.heap[o].prof /\ r.heap[o].ptr = m.heap[o].ptr
         /\ r.heap[o].enabled = dev.enabled /\ r.heap[o].labels = dev.labels
         /\ r.profiles = m.profiles
<1> USE DevMapAssumptions
<1> DEFINE d == [m.heap[o] EXCEPT !.enabled = dev.enabled, !.labels = dev.labels]
<1>1. m.heap[o] \in Device
  BY DEF MapType
<1>2. d \in Device
  BY <1>1 DEF Device, MetaDevice
<1>3. d # NULL
  BY <1>2
<1>4. /\ d.id = m.heap[o].id /\ d.name = m.heap[o].name /\ d.refs = m.heap[o].refs
      /\ d.prof = m.heap[o].prof /\ d.ptr = m.heap[o].ptr
      /\ d.enabled = dev.enabled /\ d.labels = dev.labels
  BY <1>1 DEF Device
<1>5. update_in_place(m, o, dev) = [m EXCEPT !.heap = [m.heap EXCEPT ![o] = d]]
  BY DEF update_in_place, MapType
<1> HIDE DEF d
<1>6. QED
  BY <1>2, <1>3, <1>4, <1>5 DEF MapType

(* A lookup adds one to the counts of the structs it returns.              *)
LEMMA RefFields ==
  ASSUME NEW m \in MapType, NEW O \in SUBSET Obj, \A o \in O : m.heap[o] # NULL
  PROVE  LET r == Ref(m, O) IN
         /\ r \in MapType
         /\ r.devices = m.devices /\ r.name_to_id = m.name_to_id
         /\ \A p \in Obj \ O : r.heap[p] = m.heap[p]
         /\ \A p \in O : /\ r.heap[p] # NULL
                          /\ r.heap[p].id = m.heap[p].id
                          /\ r.heap[p].name = m.heap[p].name
                          /\ r.heap[p].refs = m.heap[p].refs + 1
                          /\ r.heap[p].prof = m.heap[p].prof
                          /\ r.heap[p].ptr = m.heap[p].ptr
                          /\ r.heap[p].enabled = m.heap[p].enabled
                          /\ r.heap[p].labels = m.heap[p].labels
         /\ r.profiles = m.profiles
<1> USE DevMapAssumptions
<1> DEFINE d(p) == [m.heap[p] EXCEPT !.refs = @ + 1]
           hp == [p \in Obj |-> IF p \in O THEN d(p) ELSE m.heap[p]]
<1>1. \A p \in O : m.heap[p] \in Device
  BY DEF MapType
<1>2. \A p \in O : /\ d(p) \in Device
                   /\ d(p).id = m.heap[p].id /\ d(p).name = m.heap[p].name
                   /\ d(p).refs = m.heap[p].refs + 1
                   /\ d(p).prof = m.heap[p].prof /\ d(p).ptr = m.heap[p].ptr
                   /\ d(p).enabled = m.heap[p].enabled /\ d(p).labels = m.heap[p].labels
  BY <1>1 DEF Device
<1>3. Ref(m, O) = [m EXCEPT !.heap = hp]
  BY DEF Ref
<1> HIDE DEF d
<1>4. \A p \in O : d(p) # NULL
  BY <1>2
<1>5. hp \in [Obj -> Device \cup {NULL}]
  BY <1>2 DEF MapType
<1>6. /\ \A p \in Obj \ O : hp[p] = m.heap[p]
      /\ \A p \in O : hp[p] = d(p)
  OBVIOUS
<1> HIDE DEF hp
<1>7. QED
  BY <1>2, <1>3, <1>4, <1>5, <1>6 DEF MapType

----------------------------------------------------------------------------
(* The count of a struct                                                   *)

(* It depends on the struct, its holders and its place in the map only.    *)
LEMMA CountedFrame ==
  ASSUME NEW m, NEW h, NEW cl, NEW m1, NEW h1, NEW cl1, NEW o \in Obj,
         CountedAt(m, h, cl, o),
         HoldersOf(h1, o) = HoldersOf(h, o),
         InMapOf(m1, cl1, o) <=> InMapOf(m, cl, o),
         m.heap[o] = NULL <=> m1.heap[o] = NULL,
         m1.heap[o] # NULL => m1.heap[o].refs = m.heap[o].refs
  PROVE  CountedAt(m1, h1, cl1, o)
<1>1. CASE m1.heap[o] = NULL
  BY <1>1 DEF CountedAt
<1>2. CASE m1.heap[o] # NULL
  <2>1. m1.heap[o].refs = Cardinality(HoldersOf(h1, o)) + (IF InMapOf(m, cl, o) THEN 1 ELSE 0)
    BY <1>2 DEF CountedAt
  <2>2. QED
    BY <1>2, <2>1 DEF CountedAt
<1>3. QED
  BY <1>1, <1>2

(* The holders of a struct are finitely many.                              *)
LEMMA HoldersFinite ==
  ASSUME NEW h, NEW o
  PROVE  /\ IsFiniteSet(HoldersOf(h, o)) /\ Cardinality(HoldersOf(h, o)) \in Nat
         /\ Cardinality(HoldersOf(h, o)) = 0 <=> HoldersOf(h, o) = {}
<1>1. HoldersOf(h, o) \subseteq Reader /\ IsFiniteSet(Reader)
  BY DevMapAssumptions DEF HoldersOf
<1>2. IsFiniteSet(HoldersOf(h, o))
  BY <1>1, FS_Subset
<1>3. QED
  BY <1>2, FS_CardinalityType, FS_EmptySet

(* A thread gives a struct up.                                             *)
LEMMA HoldersFewer ==
  ASSUME NEW h \in [Reader -> SUBSET Obj], NEW t \in Reader, NEW o \in h[t]
  PROVE  LET g == Without(h, t, o) IN
         /\ g \in [Reader -> SUBSET Obj]
         /\ \A p \in Obj \ {o} : HoldersOf(g, p) = HoldersOf(h, p)
         /\ Cardinality(HoldersOf(g, o)) = Cardinality(HoldersOf(h, o)) - 1
<1> DEFINE g == Without(h, t, o)
<1>1. HoldersOf(g, o) = HoldersOf(h, o) \ {t} /\ t \in HoldersOf(h, o)
  BY DEF HoldersOf, Without
<1>2. \A p \in Obj \ {o} : HoldersOf(g, p) = HoldersOf(h, p)
  BY DEF HoldersOf, Without
<1>3. g \in [Reader -> SUBSET Obj]
  BY DEF Without
<1> HIDE DEF g
<1>4. Cardinality(HoldersOf(g, o)) = Cardinality(HoldersOf(h, o)) - 1
  <2>1. IsFiniteSet(HoldersOf(h, o))
    BY HoldersFinite
  <2>2. Cardinality(HoldersOf(h, o) \ {t}) = Cardinality(HoldersOf(h, o)) - 1
    BY <1>1, <2>1, FS_RemoveElement
  <2>3. QED
    BY <1>1, <2>2
<1>5. QED
  BY <1>2, <1>3, <1>4 DEF g

(* A thread that has none takes those of a set.                            *)
LEMMA HoldersMore ==
  ASSUME NEW h \in [Reader -> SUBSET Obj], NEW t \in Reader, h[t] = {},
         NEW O \in SUBSET Obj
  PROVE  LET g == With(h, t, O) IN
         /\ g \in [Reader -> SUBSET Obj]
         /\ \A p \in Obj \ O : HoldersOf(g, p) = HoldersOf(h, p)
         /\ \A p \in O : Cardinality(HoldersOf(g, p)) = Cardinality(HoldersOf(h, p)) + 1
<1> DEFINE g == With(h, t, O)
<1>1. \A p \in O : HoldersOf(g, p) = HoldersOf(h, p) \cup {t} /\ t \notin HoldersOf(h, p)
  BY DEF HoldersOf, With
<1>2. \A p \in Obj \ O : HoldersOf(g, p) = HoldersOf(h, p)
  BY DEF HoldersOf, With
<1>3. g \in [Reader -> SUBSET Obj]
  BY DEF With
<1> HIDE DEF g
<1>4. ASSUME NEW p \in O
      PROVE  Cardinality(HoldersOf(g, p)) = Cardinality(HoldersOf(h, p)) + 1
  BY <1>1, HoldersFinite, FS_AddElement
<1>5. QED
  BY <1>2, <1>3, <1>4 DEF g

(* One reference less to o: a thread's (or the map's) is gone.             *)
LEMMA ReleaseAt ==
  ASSUME NEW m \in MapType, NEW o \in Obj, m.heap[o] # NULL, NEW h, NEW cl,
         NEW m0, m0.heap = m.heap, NEW h1, NEW cl1,
         CountedAt(m0, h, cl, o),
         \/ /\ Cardinality(HoldersOf(h1, o)) = Cardinality(HoldersOf(h, o)) - 1
            /\ InMapOf(m, cl1, o) <=> InMapOf(m0, cl, o)
         \/ /\ HoldersOf(h1, o) = HoldersOf(h, o)
            /\ InMapOf(m0, cl, o) /\ ~InMapOf(m, cl1, o)
  PROVE  CountedAt(release(m, o), h1, cl1, o)
<1> DEFINE r == release(m, o)
           k == Cardinality(HoldersOf(h, o))
           k1 == Cardinality(HoldersOf(h1, o))
           b == IF InMapOf(m0, cl, o) THEN 1 ELSE 0
           b1 == IF InMapOf(m, cl1, o) THEN 1 ELSE 0
<1>1. k \in Nat /\ k1 \in Nat /\ (k1 = 0 <=> HoldersOf(h1, o) = {})
  BY HoldersFinite
<1>2. m.heap[o].refs = k + b /\ k1 + b1 = k + b - 1 /\ b1 \in {0, 1} /\ b \in {0, 1}
  <2>1. m.heap[o].refs = k + b
    BY DEF CountedAt
  <2> HIDE DEF k, k1
  <2>2. k1 + b1 = k + b - 1
    BY <1>1 DEF k, k1
  <2>3. QED
    BY <2>1, <2>2
<1>3. /\ r.devices = m.devices
      /\ m.heap[o].refs = 1 => r.heap[o] = NULL
      /\ m.heap[o].refs # 1 => r.heap[o] = [m.heap[o] EXCEPT !.refs = @ - 1] /\ r.heap[o] # NULL
  BY ReleaseFields
<1>4. m.heap[o] \in Device
  BY DEF MapType
<1>5. InMapOf(r, cl1, o) <=> InMapOf(m, cl1, o)
  BY <1>3 DEF InMapOf
<1>6. m.heap[o].refs # 1 => r.heap[o].refs = m.heap[o].refs - 1
  BY <1>3, <1>4 DEF Device
<1> HIDE DEF r, k, k1
<1>7. CASE m.heap[o].refs = 1
  <2>1. k1 = 0 /\ b1 = 0
    BY <1>1, <1>2, <1>7
  <2>2. HoldersOf(h1, o) = {} /\ ~InMapOf(r, cl1, o)
    BY <1>1, <1>5, <2>1
  <2>3. QED
    BY <1>3, <1>7, <2>2 DEF CountedAt, r
<1>8. CASE m.heap[o].refs # 1
  <2>1. r.heap[o].refs = k1 + b1
    BY <1>1, <1>2, <1>6, <1>8
  <2>2. r.heap[o].refs = k1 + (IF InMapOf(r, cl1, o) THEN 1 ELSE 0)
    BY <1>5, <2>1
  <2>3. QED
    BY <1>3, <1>8, <2>2 DEF CountedAt, r, k1
<1>9. QED
  BY <1>7, <1>8

----------------------------------------------------------------------------
(* What the functions of devmap.c preserve                                 *)

(* A struct keeps its id and its name as long as it is not freed.          *)
LEMMA ReleaseKeeps ==
  ASSUME NEW m \in MapType, NEW o \in Obj, m.heap[o] # NULL,
         NEW p \in Obj, release(m, o).heap[p] # NULL
  PROVE  /\ m.heap[p] # NULL
         /\ release(m, o).heap[p].id = m.heap[p].id
         /\ release(m, o).heap[p].name = m.heap[p].name
<1> DEFINE r == release(m, o)
<1>1. /\ \A q \in Obj \ {o} : r.heap[q] = m.heap[q]
      /\ m.heap[o].refs = 1 => r.heap[o] = NULL
      /\ m.heap[o].refs # 1 => r.heap[o] = [m.heap[o] EXCEPT !.refs = @ - 1]
  BY ReleaseFields
<1>2. m.heap[o] \in Device
  BY DEF MapType
<1> HIDE DEF r
<1>3. CASE p # o
  BY <1>1, <1>3 DEF r
<1>4. CASE p = o
  <2>1. r.heap[o] = [m.heap[o] EXCEPT !.refs = @ - 1]
    BY <1>1, <1>4 DEF r
  <2>2. r.heap[o].id = m.heap[o].id /\ r.heap[o].name = m.heap[o].name
    BY <2>1, <1>2 DEF Device
  <2>3. QED
    BY <1>4, <2>2 DEF r
<1>5. QED
  BY <1>3, <1>4

(* edgex_device_release by a thread that holds the struct: the struct is   *)
(* not freed yet, and not now if the map leads to it.                      *)
LEMMA ReleaseHeld ==
  ASSUME NEW m \in MapType, NEW h \in [Reader -> SUBSET Obj], NEW cl,
         Counted(m, h, cl), Placed(m), NEW t \in Reader, NEW o \in h[t]
  PROVE  LET r == release(m, o)
             g == Without(h, t, o)
         IN  /\ r \in MapType /\ r.devices = m.devices
             /\ g \in [Reader -> SUBSET Obj]
             /\ Counted(r, g, cl) /\ Placed(r)
             /\ cl = NULL /\ Named(m) => Named(r)
<1> DEFINE r == release(m, o)
           g == Without(h, t, o)
<1>1. o \in Obj /\ t \in HoldersOf(h, o)
  BY DEF HoldersOf
<1>2. m.heap[o] # NULL
  BY <1>1 DEF Counted, CountedAt
<1>3. /\ r \in MapType /\ r.devices = m.devices /\ r.name_to_id = m.name_to_id
      /\ \A p \in Obj \ {o} : r.heap[p] = m.heap[p]
  BY <1>1, <1>2, ReleaseFields
<1>4. /\ g \in [Reader -> SUBSET Obj]
      /\ \A p \in Obj \ {o} : HoldersOf(g, p) = HoldersOf(h, p)
      /\ Cardinality(HoldersOf(g, o)) = Cardinality(HoldersOf(h, o)) - 1
  BY HoldersFewer
<1>5. \A p \in Obj : InMapOf(r, cl, p) <=> InMapOf(m, cl, p)
  BY <1>3 DEF InMapOf
<1>6. CountedAt(r, g, cl, o)
  <2>1. CountedAt(m, h, cl, o)
    BY <1>1 DEF Counted
  <2> HIDE DEF g
  <2>2. QED
    BY <1>1, <1>2, <1>4, <2>1, ReleaseAt
<1>7. \A p \in Obj : r.heap[p] # NULL => /\ m.heap[p] # NULL
                                         /\ r.heap[p].id = m.heap[p].id
                                         /\ r.heap[p].name = m.heap[p].name
  BY <1>1, <1>2, ReleaseKeeps
<1> HIDE DEF r, g
<1>8. ASSUME NEW p \in Obj \ {o}
      PROVE  CountedAt(r, g, cl, p)
  <2>1. CountedAt(m, h, cl, p)
    BY DEF Counted
  <2>2. r.heap[p] = m.heap[p] /\ HoldersOf(g, p) = HoldersOf(h, p)
    BY <1>3, <1>4
  <2>3. QED
    BY <1>5, <2>1, <2>2, CountedFrame
<1>9. Counted(r, g, cl)
  BY <1>6, <1>8 DEF Counted
<1>10. Placed(r)
  <2>1. \A i \in Id : m.devices[i] # NULL => m.devices[i] \in Obj
    BY DEF MapType
  <2>2. QED
    BY <1>3, <1>7, <2>1 DEF Placed
<1>11. ASSUME cl = NULL, Named(m)
       PROVE  Named(r)
  <2>1. ASSUME NEW n \in Name, m.name_to_id[n] # NULL
        PROVE  LET q == m.name_to_id[n] IN
               r.heap[q] # NULL /\ r.heap[q].name = n /\ r.devices[r.heap[q].id] = q
    <3> DEFINE q == m.name_to_id[n]
    <3>1. q \in Obj
      BY <2>1 DEF MapType
    <3>2. m.heap[q] # NULL /\ m.heap[q].name = n /\ m.devices[m.heap[q].id] = q
      BY <1>11, <2>1 DEF Named
    <3>3. m.heap[q].id \in Id
      BY <3>1, <3>2 DEF MapType, Device
    <3>4. InMapOf(r, cl, q)
      BY <1>3, <1>11, <3>1, <3>2, <3>3, DevMapAssumptions DEF InMapOf
    <3>5. r.heap[q] # NULL
      BY <1>9, <3>1, <3>4 DEF Counted, CountedAt
    <3>6. QED
      BY <1>3, <1>7, <3>1, <3>2, <3>5
  <2>2. QED
    BY <1>3, <2>1 DEF Named
<1>12. QED
  BY <1>3, <1>4, <1>9, <1>10, <1>11 DEF r, g

(* remove_locked takes the struct out of the map under its id and its      *)
(* name, and the map's reference with it.                                  *)
LEMMA RemoveLocked ==
  ASSUME NEW m \in MapType, NEW h, Counted(m, h, NULL), Placed(m), Named(m),
         NEW i \in Id, m.devices[i] # NULL
  PROVE  LET r == remove_locked(m, m.devices[i])
         IN  /\ r \in MapType /\ r.devices = [m.devices EXCEPT ![i] = NULL]
             /\ Counted(r, h, NULL) /\ Placed(r) /\ Named(r)
<1> USE DevMapAssumptions
<1> DEFINE o == m.devices[i]
           nm == [m.name_to_id EXCEPT ![m.heap[o].name] = NULL]
           dv == [m.devices EXCEPT ![i] = NULL]
           m0 == [m EXCEPT !.name_to_id = nm, !.devices = dv]
           r == remove_locked(m, o)
<1>1. o \in Obj /\ o # NULL
  BY DEF MapType
<1>2. InMapOf(m, NULL, o)
  BY <1>1 DEF InMapOf
<1>3. m.heap[o] # NULL
  BY <1>1, <1>2 DEF Counted, CountedAt
<1>4. m.heap[o].id = i /\ \A j \in Id : m.devices[j] = o => j = i
  BY <1>1, <1>3 DEF Placed
<1>5. m.heap[o] \in Device /\ m.heap[o].name \in Name
  BY <1>1, <1>3 DEF MapType, Device
<1>6. nm \in [Name -> Obj \cup {NULL}] /\ dv \in [Id -> Obj \cup {NULL}]
  BY <1>1 DEF MapType
<1>7. r = release(m0, o)
  BY <1>4, <1>5 DEF remove_locked, MapType
<1>8. /\ dv[i] = NULL /\ \A j \in Id \ {i} : dv[j] = m.devices[j]
      /\ nm[m.heap[o].name] = NULL
      /\ \A n \in Name \ {m.heap[o].name} : nm[n] = m.name_to_id[n]
  BY <1>5 DEF MapType
<1> HIDE DEF o, nm, r
<1>9. m0 \in MapType /\ m0.heap = m.heap /\ m0.devices = dv /\ m0.name_to_id = nm
  BY <1>6 DEF MapType
<1> HIDE DEF m0
<1>10. /\ r \in MapType /\ r.devices = dv /\ r.name_to_id = nm
       /\ \A p \in Obj \ {o} : r.heap[p] = m.heap[p]
  <2>1. m0 \in MapType /\ m0.heap[o] # NULL
    BY <1>3, <1>9
  <2>2. /\ release(m0, o) \in MapType
        /\ release(m0, o).devices = m0.devices
        /\ release(m0, o).name_to_id = m0.name_to_id
        /\ \A p \in Obj \ {o} : release(m0, o).heap[p] = m0.heap[p]
    BY <1>1, <2>1, ReleaseFields
  <2>3. QED
    BY <1>7, <1>9, <2>2
<1>11. /\ ~InMapOf(m0, NULL, o)
       /\ \A p \in Obj \ {o} : InMapOf(r, NULL, p) <=> InMapOf(m, NULL, p)
  <2>1. ~InMapOf(m0, NULL, o)
    BY <1>1, <1>4, <1>8, <1>9 DEF InMapOf
  <2>2. ASSUME NEW p \in Obj \ {o}
        PROVE  InMapOf(r, NULL, p) <=> InMapOf(m, NULL, p)
    BY <1>8, <1>10, <2>2 DEF InMapOf, o
  <2>3. QED
    BY <2>1, <2>2
<1>12. CountedAt(r, h, NULL, o)
  <2>1. CountedAt(m, h, NULL, o)
    BY <1>1 DEF Counted
  <2>2. QED
    BY <1>1, <1>2, <1>3, <1>7, <1>9, <1>11, <2>1, ReleaseAt
<1>13. ASSUME NEW p \in Obj \ {o}
       PROVE  CountedAt(r, h, NULL, p)
  <2>1. CountedAt(m, h, NULL, p)
    BY DEF Counted
  <2>2. r.heap[p] = m.heap[p]
    BY <1>10
  <2>3. QED
    BY <1>11, <2>1, <2>2, CountedFrame
<1>14. Counted(r, h, NULL)
  BY <1>12, <1>13 DEF Counted
<1>15. Placed(r)
  <2>1. ASSUME NEW j \in Id, r.devices[j] # NULL
        PROVE  /\ j # i /\ r.devices[j] = m.devices[j] /\ m.devices[j] \in Obj \ {o}
               /\ r.heap[m.devices[j]] = m.heap[m.devices[j]]
    <3>1. j # i /\ r.devices[j] = m.devices[j]
      BY <1>8, <1>10, <2>1
    <3>2. m.devices[j] \in Obj \ {o}
      BY <1>4, <2>1, <3>1 DEF MapType
    <3>3. QED
      BY <1>10, <3>1, <3>2
  <2>2. QED
    BY <2>1 DEF Placed
<1>16. Named(r)
  <2>1. ASSUME NEW n \in Name, r.name_to_id[n] # NULL
        PROVE  LET q == r.name_to_id[n] IN
               r.heap[q] # NULL /\ r.heap[q].name = n /\ r.devices[r.heap[q].id] = q
    <3> DEFINE q == m.name_to_id[n]
    <3>1. n # m.heap[o].name /\ r.name_to_id[n] = q
      BY <1>8, <1>10, <2>1
    <3>2. m.heap[q] # NULL /\ m.heap[q].name = n /\ m.devices[m.heap[q].id] = q
      BY <2>1, <3>1 DEF Named
    <3>3. q \in Obj \ {o}
      BY <2>1, <3>1, <3>2 DEF MapType
    <3>4. m.heap[q].id \in Id
      BY <3>2, <3>3 DEF MapType, Device
    <3>5. m.heap[q].id # i
      BY <3>2, <3>3 DEF o
    <3>6. r.heap[q] = m.heap[q] /\ r.devices[m.heap[q].id] = q
      BY <1>8, <1>10, <3>2, <3>3, <3>4, <3>5
    <3>7. QED
      BY <3>1, <3>2, <3>6
  <2>2. QED
    BY <2>1 DEF Named
<1>17. QED
  BY <1>10, <1>14, <1>15, <1>16 DEF r, o

(* add_locked puts a fresh struct under an id that the map does not have.  *)
LEMMA AddLocked ==
  ASSUME NEW m \in MapType, NEW h, Counted(m, h, NULL), Placed(m), Named(m),
         NEW i \in Id, m.devices[i] = NULL, NEW dev \in MetaDevice, NEW o \in Free(m)
  PROVE  LET r == add_locked(m, i, dev, o)
         IN  /\ r \in MapType /\ r.devices = [m.devices EXCEPT ![i] = o]
             /\ Counted(r, h, NULL) /\ Placed(r) /\ Named(r)
<1> USE DevMapAssumptions
<1> DEFINE r == add_locked(m, i, dev, o)
           dv == [m.devices EXCEPT ![i] = o]
           nm == [m.name_to_id EXCEPT ![dev.name] = o]
<1>1. o \in Obj /\ o # NULL /\ m.heap[o] = NULL
  BY DEF Free
<1> HIDE DEF r
<1>2. /\ r \in MapType /\ r.devices = dv /\ r.name_to_id = nm
      /\ \A p \in Obj \ {o} : r.heap[p] = m.heap[p]
      /\ r.heap[o] # NULL
      /\ r.heap[o].id = i /\ r.heap[o].name = dev.name /\ r.heap[o].refs = 1
  <2>1. r \in MapType /\ Added(m, r, i, dev, o)
    BY <1>1, AddFields DEF r
  <2>2. QED
    BY <2>1 DEF Added
<1>3. /\ dv[i] = o /\ \A j \in Id \ {i} : dv[j] = m.devices[j]
      /\ nm[dev.name] = o
      /\ \A n \in Name \ {dev.name} : nm[n] = m.name_to_id[n]
  BY DEF MapType, MetaDevice
<1> HIDE DEF dv, nm
<1>4. HoldersOf(h, o) = {} /\ ~InMapOf(m, NULL, o)
  BY <1>1 DEF Counted, CountedAt
<1>5. \A j \in Id : m.devices[j] # o
  BY <1>1, <1>4 DEF InMapOf
<1>6. CountedAt(r, h, NULL, o)
  <2>1. InMapOf(r, NULL, o)
    BY <1>1, <1>2, <1>3 DEF InMapOf
  <2>2. Cardinality(HoldersOf(h, o)) = 0
    BY <1>4, HoldersFinite
  <2>3. QED
    BY <1>2, <2>1, <2>2 DEF CountedAt
<1>7. ASSUME NEW p \in Obj \ {o}
      PROVE  CountedAt(r, h, NULL, p)
  <2>1. CountedAt(m, h, NULL, p)
    BY DEF Counted
  <2>2. r.heap[p] = m.heap[p]
    BY <1>2
  <2>3. InMapOf(r, NULL, p) <=> InMapOf(m, NULL, p)
    BY <1>2, <1>3 DEF InMapOf
  <2>4. QED
    BY <2>1, <2>2, <2>3, CountedFrame
<1>8. Counted(r, h, NULL)
  BY <1>6, <1>7 DEF Counted
<1>9. Placed(r)
  <2>1. ASSUME NEW j \in Id, r.devices[j] # NULL
        PROVE  /\ \A k \in Id : r.devices[k] = r.devices[j] => k = j
               /\ r.heap[r.devices[j]] # NULL => r.heap[r.devices[j]].id = j
    <3>1. CASE j = i
      BY <1>2, <1>3, <1>5, <3>1
    <3>2. CASE j # i
      <4>1. r.devices[j] = m.devices[j] /\ m.devices[j] \in Obj \ {o}
        BY <1>2, <1>3, <1>5, <2>1, <3>2 DEF MapType
      <4>2. r.heap[m.devices[j]] = m.heap[m.devices[j]]
        BY <1>2, <4>1
      <4>3. \A k \in Id : r.devices[k] = r.devices[j] => r.devices[k] = m.devices[k]
        BY <1>2, <1>3, <4>1
      <4>4. QED
        BY <2>1, <4>1, <4>2, <4>3 DEF Placed
    <3>3. QED
      BY <3>1, <3>2
  <2>2. QED
    BY <2>1 DEF Placed
<1>10. Named(r)
  <2>1. ASSUME NEW n \in Name, r.name_to_id[n] # NULL
        PROVE  LET q == r.name_to_id[n] IN
               r.heap[q] # NULL /\ r.heap[q].name = n /\ r.devices[r.heap[q].id] = q
    <3>1. CASE n = dev.name
      BY <1>2, <1>3, <3>1
    <3>2. CASE n # dev.name
      <4> DEFINE q == m.name_to_id[n]
      <4>1. r.name_to_id[n] = q
        BY <1>2, <1>3, <3>2
      <4>2. m.heap[q] # NULL /\ m.heap[q].name = n /\ m.devices[m.heap[q].id] = q
        BY <2>1, <4>1 DEF Named
      <4>3. q \in Obj \ {o}
        BY <1>1, <2>1, <4>1, <4>2 DEF MapType
      <4>4. m.heap[q].id \in Id \ {i}
        BY <2>1, <4>1, <4>2, <4>3 DEF MapType, Device
      <4>5. r.heap[q] = m.heap[q] /\ r.devices[m.heap[q].id] = q
        BY <1>2, <1>3, <4>2, <4>3, <4>4
      <4>6. QED
        BY <4>1, <4>2, <4>5
    <3>3. QED
      BY <3>1, <3>2
  <2>2. QED
    BY <2>1 DEF Named
<1>11. QED
  BY <1>2, <1>8, <1>9, <1>10 DEF r, dv

(* A change that keeps the structs that live, with their ids, names and    *)
(* counts, and leaves the maps as they are.                                *)
LEMMA SameStructs ==
  ASSUME NEW m \in MapType, NEW r \in MapType, NEW h, NEW cl,
         Counted(m, h, cl), Placed(m),
         r.devices = m.devices, r.name_to_id = m.name_to_id,
         \A p \in Obj : /\ r.heap[p] = NULL <=> m.heap[p] = NULL
                        /\ m.heap[p] # NULL => /\ r.heap[p].id = m.heap[p].id
                                               /\ r.heap[p].name = m.heap[p].name
                                               /\ r.heap[p].refs = m.heap[p].refs
  PROVE  Counted(r, h, cl) /\ Placed(r) /\ (Named(m) => Named(r))
<1>1. ASSUME NEW p \in Obj
      PROVE  CountedAt(r, h, cl, p)
  <2>1. CountedAt(m, h, cl, p)
    BY DEF Counted
  <2>2. InMapOf(r, cl, p) <=> InMapOf(m, cl, p)
    BY DEF InMapOf
  <2>3. QED
    BY <2>1, <2>2, CountedFrame
<1>2. Placed(r)
  <2>1. \A i \in Id : m.devices[i] # NULL => m.devices[i] \in Obj
    BY DEF MapType
  <2>2. QED
    BY <2>1 DEF Placed
<1>3. ASSUME Named(m)
      PROVE  Named(r)
  <2>1. \A n \in Name : m.name_to_id[n] # NULL => m.name_to_id[n] \in Obj
    BY DEF MapType
  <2>2. QED
    BY <1>3, <2>1 DEF Named
<1>4. QED
  BY <1>1, <1>2, <1>3 DEF Counted

(* edgex_devmap_replace_device, on each of its three branches              *)
LEMMA ReplaceDevice ==
  ASSUME NEW m \in MapType, NEW h, Counted(m, h, NULL), Placed(m), Named(m),
         NEW i \in Id, NEW dev \in MetaDevice, NEW r \in replace_device(m, i, dev)
  PROVE  r \in MapType /\ Counted(r, h, NULL) /\ Placed(r) /\ Named(r)
<1> USE DevMapAssumptions
<1> DEFINE old == m.devices[i]
           s == remove_locked(m, old)
<1>1. CASE old = NULL
  <2>1. PICK o \in Free(m) : r = add_locked(m, i, dev, o)
    BY <1>1 DEF replace_device
  <2>2. QED
    BY <1>1, <2>1, AddLocked
<1>2. CASE old # NULL /\ SameShape(m.heap[old], dev)
  <2>1. r = update_in_place(m, old, dev)
    BY <1>2 DEF replace_device
  <2>2. old \in Obj /\ InMapOf(m, NULL, old)
    BY <1>2 DEF MapType, InMapOf
  <2>3. m.heap[old] # NULL
    BY <2>2 DEF Counted, CountedAt
  <2> HIDE DEF old
  <2>4. /\ r \in MapType
        /\ r.devices = m.devices /\ r.name_to_id = m.name_to_id
        /\ \A p \in Obj \ {old} : r.heap[p] = m.heap[p]
        /\ r.heap[old] # NULL
        /\ r.heap[old].id = m.heap[old].id /\ r.heap[old].name = m.heap[old].name
        /\ r.heap[old].refs = m.heap[old].refs
    BY <2>1, <2>2, <2>3, UpdateFields
  <2>5. ASSUME NEW p \in Obj
        PROVE  /\ r.heap[p] = NULL <=> m.heap[p] = NULL
               /\ m.heap[p] # NULL => /\ r.heap[p].id = m.heap[p].id
                                      /\ r.heap[p].name = m.heap[p].name
                                      /\ r.heap[p].refs = m.heap[p].refs
    BY <2>3, <2>4
  <2>6. QED
    BY <2>4, <2>5, SameStructs
<1>3. CASE old # NULL /\ ~SameShape(m.heap[old], dev)
  <2>1. PICK o \in Free(s) : r = add_locked(s, i, dev, o)
    BY <1>3 DEF replace_device
  <2>2. /\ s \in MapType /\ s.devices = [m.devices EXCEPT ![i] = NULL]
        /\ Counted(s, h, NULL) /\ Placed(s) /\ Named(s)
    BY <1>3, RemoveLocked
  <2>3. s.devices[i] = NULL
    BY <2>2 DEF MapType
  <2> HIDE DEF s
  <2>4. QED
    BY <2>1, <2>2, <2>3, AddLocked
<1>4. QED
  BY <1>1, <1>2, <1>3

(* A lookup: the thread's references and the counts grow together.         *)
LEMMA RefTaken ==
  ASSUME NEW m \in MapType, NEW h \in [Reader -> SUBSET Obj], NEW cl,
         Counted(m, h, cl), Placed(m), NEW t \in Reader, h[t] = {},
         NEW O \in SUBSET Obj, \A o \in O : m.heap[o] # NULL
  PROVE  LET r == Ref(m, O)
             g == With(h, t, O)
         IN  /\ r \in MapType /\ r.devices = m.devices
             /\ g \in [Reader -> SUBSET Obj]
             /\ Counted(r, g, cl) /\ Placed(r)
             /\ Named(m) => Named(r)
<1> DEFINE r == Ref(m, O)
           g == With(h, t, O)
<1>1. /\ r \in MapType
      /\ r.devices = m.devices /\ r.name_to_id = m.name_to_id
      /\ \A p \in Obj \ O : r.heap[p] = m.heap[p]
      /\ \A p \in O : /\ r.heap[p] # NULL
                      /\ r.heap[p].id = m.heap[p].id
                      /\ r.heap[p].name = m.heap[p].name
                      /\ r.heap[p].refs = m.heap[p].refs + 1
  BY RefFields
<1>2. /\ g \in [Reader -> SUBSET Obj]
      /\ \A p \in Obj \ O : HoldersOf(g, p) = HoldersOf(h, p)
      /\ \A p \in O : Cardinality(HoldersOf(g, p)) = Cardinality(HoldersOf(h, p)) + 1
  BY HoldersMore
<1> HIDE DEF r, g
<1>3. \A p \in Obj : InMapOf(r, cl, p) <=> InMapOf(m, cl, p)
  BY <1>1 DEF InMapOf
<1>4. ASSUME NEW p \in Obj \ O
      PROVE  CountedAt(r, g, cl, p)
  <2>1. CountedAt(m, h, cl, p)
    BY DEF Counted
  <2>2. r.heap[p] = m.heap[p] /\ HoldersOf(g, p) = HoldersOf(h, p)
    BY <1>1, <1>2
  <2>3. QED
    BY <1>3, <2>1, <2>2, CountedFrame
<1>5. ASSUME NEW p \in O
      PROVE  CountedAt(r, g, cl, p)
  <2> DEFINE b == IF InMapOf(m, cl, p) THEN 1 ELSE 0
             k == Cardinality(HoldersOf(h, p))
  <2>1. m.heap[p].refs = k + b
    BY DEF Counted, CountedAt
  <2>2. k \in Nat /\ b \in Nat
    BY HoldersFinite
  <2>3. b = IF InMapOf(r, cl, p) THEN 1 ELSE 0
    BY <1>3
  <2>4. Cardinality(HoldersOf(g, p)) = k + 1 /\ r.heap[p].refs = m.heap[p].refs + 1
    BY <1>1, <1>2
  <2> HIDE DEF b, k
  <2>5. r.heap[p].refs = Cardinality(HoldersOf(g, p)) + b
    BY <2>1, <2>2, <2>4
  <2>6. QED
    BY <1>1, <2>3, <2>5 DEF CountedAt
<1>6. Counted(r, g, cl)
  BY <1>4, <1>5 DEF Counted
<1>7. \A p \in Obj : r.heap[p] # NULL => /\ m.heap[p] # NULL
                                         /\ r.heap[p].id = m.heap[p].id
                                         /\ r.heap[p].name = m.heap[p].name
  BY <1>1
<1>8. Placed(r)
  <2>1. \A i \in Id : m.devices[i] # NULL => m.devices[i] \in Obj
    BY DEF MapType
  <2>2. QED
    BY <1>1, <1>7, <2>1 DEF Placed
<1>9. ASSUME Named(m)
      PROVE  Named(r)
  <2>1. \A n \in Name : m.name_to_id[n] # NULL => m.name_to_id[n] \in Obj
    BY DEF MapType
  <2>2. \A p \in Obj : m.heap[p] # NULL => r.heap[p] # NULL
    BY <1>1
  <2>3. QED
    BY <1>1, <1>7, <1>9, <2>1, <2>2 DEF Named
<1>10. QED
  BY <1>1, <1>2, <1>6, <1>8, <1>9 DEF r, g

(* edgex_devmap_clear gives the map's reference back,                      *)
LEMMA ClearReleases ==
  ASSUME NEW m \in MapType, NEW h, Counted(m, h, NULL), Placed(m),
         NEW i \in Id, m.devices[i] # NULL
  PROVE  LET r == release(m, m.devices[i])
         IN  /\ r \in MapType /\ r.devices = m.devices
             /\ Counted(r, h, m.devices[i]) /\ Placed(r)
<1> USE DevMapAssumptions
<1> DEFINE o == m.devices[i]
           r == release(m, o)
<1>1. o \in Obj /\ InMapOf(m, NULL, o)
  BY DEF MapType, InMapOf
<1>2. m.heap[o] # NULL
  BY <1>1 DEF Counted, CountedAt
<1> HIDE DEF o
<1>3. /\ r \in MapType /\ r.devices = m.devices
      /\ \A p \in Obj \ {o} : r.heap[p] = m.heap[p]
  BY <1>1, <1>2, ReleaseFields
<1>4. \A p \in Obj : r.heap[p] # NULL => /\ m.heap[p] # NULL
                                         /\ r.heap[p].id = m.heap[p].id
  BY <1>1, <1>2, ReleaseKeeps
<1>5. CountedAt(r, h, o, o)
  <2>1. CountedAt(m, h, NULL, o) /\ ~InMapOf(m, o, o)
    BY <1>1 DEF Counted, InMapOf
  <2>2. QED
    BY <1>1, <1>2, <2>1, ReleaseAt
<1> HIDE DEF r
<1>6. ASSUME NEW p \in Obj \ {o}
      PROVE  CountedAt(r, h, o, p)
  <2>1. CountedAt(m, h, NULL, p)
    BY DEF Counted
  <2>2. r.heap[p] = m.heap[p]
    BY <1>3
  <2>3. InMapOf(r, o, p) <=> InMapOf(m, NULL, p)
    BY <1>3 DEF InMapOf
  <2>4. QED
    BY <2>1, <2>2, <2>3, CountedFrame
<1>7. Placed(r)
  <2>1. \A j \in Id : m.devices[j] # NULL => m.devices[j] \in Obj
    BY DEF MapType
  <2>2. QED
    BY <1>3, <1>4, <2>1 DEF Placed
<1>8. QED
  BY <1>3, <1>5, <1>6, <1>7 DEF Counted, r, o

(* and then takes the device out of devices.                               *)
LEMMA ClearRemoves ==
  ASSUME NEW m \in MapType, NEW h, NEW i \in Id, m.devices[i] # NULL,
         Counted(m, h, m.devices[i]), Placed(m)
  PROVE  LET r == [m EXCEPT !.devices[i] = NULL]
         IN  r \in MapType /\ Counted(r, h, NULL) /\ Placed(r)
<1> USE DevMapAssumptions
<1> DEFINE dv == [m.devices EXCEPT ![i] = NULL]
           r == [m EXCEPT !.devices[i] = NULL]
<1>1. r = [m EXCEPT !.devices = dv]
  BY DEF MapType
<1>2. dv \in [Id -> Obj \cup {NULL}]
  BY DEF MapType
<1>3. dv[i] = NULL /\ \A j \in Id \ {i} : dv[j] = m.devices[j]
  BY DEF MapType
<1> HIDE DEF r, dv
<1>4. r \in MapType /\ r.heap = m.heap /\ r.devices = dv
  BY <1>1, <1>2 DEF MapType
<1>5. ASSUME NEW p \in Obj
      PROVE  CountedAt(r, h, NULL, p)
  <2>1. CountedAt(m, h, m.devices[i], p)
    BY DEF Counted
  <2>2. InMapOf(r, NULL, p) <=> InMapOf(m, m.devices[i], p)
    BY <1>3, <1>4 DEF InMapOf, Placed
  <2>3. QED
    BY <1>4, <2>1, <2>2, CountedFrame
<1>6. Placed(r)
  BY <1>3, <1>4 DEF Placed
<1>7. QED
  BY <1>4, <1>5, <1>6 DEF Counted, r

----------------------------------------------------------------------------
(* The inductive invariant.  RefsCounted alone is not inductive: that the  *)
(* right struct is freed when a device is replaced needs Placed, and that  *)
(* a lookup by name finds one that lives needs Named.  Both hold only      *)
(* because the start fills the map before anyone uses it (Life).           *)

Up == {"new", "starting", "running"}

HeapOK ==
  /\ Counted(map, holds, clearing)
  /\ Placed(map)
  /\ phase \in Up => Named(map)

Life ==
  /\ phase = "new" => \A i \in Id : map.devices[i] = NULL
  /\ phase = "starting" =>
       \A d \in devs : /\ map.devices[d.id] = NULL
                       /\ \A e \in devs : e.id = d.id => e = d
  /\ \A c \in Callback : cb[c] # NULL => phase = "running"
  /\ clearing # NULL => phase \notin Up
  /\ crash = "lookup" => phase \notin Up

IInv == TypeOK /\ HeapOK /\ Life

(* The service starts with an empty map.                                   *)
LEMMA Initially == Init => IInv
<1> USE DevMapAssumptions
<1> SUFFICES ASSUME Init PROVE IInv
  OBVIOUS
<1>1. map \in MapType
  BY DEF Init, EmptyMap, MapType
<1>2. /\ \A o \in Obj : map.heap[o] = NULL
      /\ \A i \in Id : map.devices[i] = NULL
      /\ \A n \in Name : map.name_to_id[n] = NULL
      /\ \A t \in Reader : holds[t] = {}
  BY DEF Init, EmptyMap
<1>3. TypeOK
  BY <1>1 DEF Init, TypeOK, MapType
<1>4. Counted(map, holds, clearing)
  BY <1>2 DEF Counted, CountedAt, HoldersOf, InMapOf
<1>5. Placed(map) /\ Named(map)
  BY <1>2 DEF Placed, Named
<1>6. Life
  BY <1>2 DEF Init, Life
<1>7. QED
  BY <1>3, <1>4, <1>5, <1>6 DEF IInv, HeapOK

(* A step that leaves the structs and who holds them alone.                *)
LEMMA HeapFrame ==
  ASSUME HeapOK, UNCHANGED <<map, holds, clearing>>, phase' \in Up => phase \in Up
  PROVE  HeapOK'
BY DEF HeapOK

(* Core-metadata changes nothing in the service but the pending callbacks. *)
LEMMA MetadataStep ==
  ASSUME IInv, Metadata
  PROVE  IInv'
<1> USE DEF IInv
<1>1. PICK i \in Id, r \in MetaDevice \cup {Deleted}, m \in {"POST", "PUT", "DELETE"} :
        Change(i, r, m)
  <2>1. changes \in Nat
    BY DEF TypeOK
  <2>2. \A n \in Name, p \in Profile, e, s \in BOOLEAN : Record(n, p, e, s) \in MetaDevice
    BY <2>1 DEF Record, MetaDevice
  <2>3. ASSUME NEW i \in Id, NEW n \in Name, NEW p \in Profile, MetaAdd(i, n, p)
        PROVE  \E r \in MetaDevice : Change(i, r, "POST")
    BY <2>2, <2>3 DEF MetaAdd
  <2>4. ASSUME NEW i \in Id, NEW n \in Name, NEW p \in Profile, NEW e \in BOOLEAN,
               NEW s \in BOOLEAN, MetaUpdate(i, n, p, e, s)
        PROVE  \E r \in MetaDevice : Change(i, r, "PUT")
    BY <2>2, <2>4 DEF MetaUpdate
  <2>5. ASSUME NEW i \in Id, MetaDelete(i)
        PROVE  Change(i, Deleted, "DELETE")
    BY <2>5 DEF MetaDelete
  <2>6. QED
    BY <2>3, <2>4, <2>5 DEF Metadata
<1>2. UNCHANGED <<map, holds, copying, cb, profs, life, crash>>
  BY <1>1 DEF Change
<1>3. HeapOK'
  BY <1>2, HeapFrame DEF life
<1>4. changes' \in Nat /\ meta' \in [Id -> MetaDevice \cup {NULL, Deleted}]
  BY <1>1 DEF Change, TypeOK
<1>5. pending' \subseteq [method : {"POST", "PUT", "DELETE"}, id : Id, n : Nat]
  BY <1>1 DEF Change, TypeOK
<1>6. raced' \in BOOLEAN
  BY <1>1 DEF Change, TypeOK
<1>7. TypeOK'
  BY <1>2, <1>4, <1>5, <1>6 DEF TypeOK, profs, life
<1>8. Life'
  BY <1>2 DEF Life, life
<1>9. QED
  BY <1>3, <1>7, <1>8

(* The start fills the map: each id is put in once, while nobody uses it.  *)
LEMMA StartingStep ==
  ASSUME IInv, Starting
  PROVE  IInv'
<1> USE DEF IInv
<1> USE DevMapAssumptions
<1>1. CASE ReadDevices
  <2>1. /\ phase = "new" /\ phase' = "starting"
        /\ UNCHANGED <<map, holds, copying, cb, profs, core, clearing, crash, raced>>
    BY <1>1 DEF ReadDevices
  <2>2. devs' = {[id |-> i, dev |-> meta[i]] :
                   i \in {j \in Id : IsDevice(meta[j]) /\ meta[j].ours}}
    BY <1>1 DEF ReadDevices
  <2>3. HeapOK'
    BY <2>1, HeapFrame DEF Up
  <2>4. \A i \in Id : IsDevice(meta[i]) => meta[i] \in MetaDevice
    BY DEF TypeOK, IsDevice
  <2>5. devs' \subseteq [id : Id, dev : MetaDevice]
    BY <2>2, <2>4
  <2>6. TypeOK'
    BY <2>1, <2>5 DEF TypeOK, profs, core
  <2>7. \A d, e \in devs' : d.id \in Id /\ (e.id = d.id => e = d)
    BY <2>2
  <2>8. \A i \in Id : map'.devices[i] = NULL
    BY <2>1 DEF Life
  <2>9. Life'
    BY <2>1, <2>7, <2>8 DEF Life, Up
  <2>10. QED
    BY <2>3, <2>6, <2>9
<1>2. ASSUME NEW d \in devs, Populate(d)
      PROVE  IInv'
  <2>1. /\ phase = "starting" /\ devs' = devs \ {d}
        /\ UNCHANGED <<holds, copying, cb, profs, core, phase, clearing, crash, raced>>
    BY <1>2 DEF Populate
  <2>2. d.id \in Id /\ d.dev \in MetaDevice /\ map \in MapType
    BY DEF TypeOK, MapType
  <2>3. clearing = NULL /\ map.devices[d.id] = NULL
    BY <2>1 DEF Life, Up
  <2>4. Counted(map, holds, NULL) /\ Placed(map) /\ Named(map)
    BY <2>1, <2>3 DEF HeapOK, Up
  <2>5. CASE \E o \in Free(map) : map' = add_locked(map, d.id, d.dev, o)
    <3>1. PICK o \in Free(map) : map' = add_locked(map, d.id, d.dev, o)
      BY <2>5
    <3>2. /\ map' \in MapType /\ map'.devices = [map.devices EXCEPT ![d.id] = o]
          /\ Counted(map', holds, NULL) /\ Placed(map') /\ Named(map')
      BY <2>2, <2>3, <2>4, <3>1, AddLocked
    <3>3. HeapOK'
      BY <2>1, <2>3, <3>2 DEF HeapOK
    <3>4. TypeOK'
      BY <2>1, <3>2 DEF TypeOK, MapType, profs, core
    <3>5. \A e \in devs' : map'.devices[e.id] = NULL
      <4>1. \A e \in devs' : e \in devs /\ e.id # d.id /\ e.id \in Id /\ map.devices[e.id] = NULL
        BY <2>1 DEF Life, TypeOK
      <4>2. QED
        BY <3>2, <4>1
    <3>6. Life'
      BY <2>1, <3>5 DEF Life
    <3>7. QED
      BY <3>3, <3>4, <3>6
  <2>6. CASE UNCHANGED map
    <3>1. HeapOK'
      BY <2>1, <2>6, HeapFrame
    <3>2. TypeOK'
      BY <2>1, <2>6 DEF TypeOK, profs, core
    <3>3. Life'
      BY <2>1, <2>6 DEF Life
    <3>4. QED
      BY <3>1, <3>2, <3>3
  <2>7. QED
    BY <1>2, <2>5, <2>6 DEF Populate
<1>3. CASE StartServer
  <2>1. /\ phase = "starting" /\ phase' = "running"
        /\ UNCHANGED <<map, holds, copying, cb, profs, core, devs, clearing, crash, raced>>
    BY <1>3 DEF StartServer
  <2>2. HeapOK'
    BY <2>1, HeapFrame DEF Up
  <2>3. TypeOK'
    BY <2>1 DEF TypeOK, profs, core
  <2>4. Life'
    BY <2>1 DEF Life, Up
  <2>5. QED
    BY <2>2, <2>3, <2>4
<1>4. QED
  BY <1>1, <1>2, <1>3 DEF Starting

(* removedevice_byid of an id that the map may have                        *)
LEMMA RemoveById ==
  ASSUME IInv, phase = "running", NEW i \in Id, removedevice_byid(i),
         UNCHANGED <<holds, clearing, phase, devs>>,
         \A c \in Callback : cb'[c] # NULL => phase = "running"
  PROVE  map' \in MapType /\ crash' \in {crash, "removedevice_byid"} /\ HeapOK' /\ Life'
<1> USE DEF IInv
<1>1. clearing = NULL /\ map \in MapType
  BY DEF Life, Up, TypeOK, MapType
<1>2. Counted(map, holds, NULL) /\ Placed(map) /\ Named(map)
  BY <1>1 DEF HeapOK, Up
<1>3. CASE map.devices[i] = NULL
  <2>1. crash' = "removedevice_byid" /\ map' = map
    BY <1>3 DEF removedevice_byid
  <2>2. HeapOK'
    BY <2>1, HeapFrame
  <2>3. QED
    BY <1>1, <2>1, <2>2 DEF Life
<1>4. CASE map.devices[i] # NULL
  <2>1. map' = remove_locked(map, map.devices[i]) /\ crash' = crash
    BY <1>4 DEF removedevice_byid
  <2>2. map' \in MapType /\ Counted(map', holds, NULL) /\ Placed(map') /\ Named(map')
    BY <1>1, <1>2, <1>4, <2>1, RemoveLocked
  <2>3. HeapOK'
    BY <1>1, <2>2 DEF HeapOK
  <2>4. QED
    BY <1>1, <2>1, <2>2, <2>3 DEF Life
<1>5. QED
  BY <1>3, <1>4

(* The callback handler of one thread.                                     *)
LEMMA HandlerStep ==
  ASSUME IInv, NEW c \in Callback, Handler(c)
  PROVE  IInv'
<1> USE DEF IInv
<1> USE DevMapAssumptions
<1>1. ASSUME NEW n \in pending, CallbackFetch(c, n)
      PROVE  IInv'
  <2>1. /\ phase = "running" /\ pending' = pending \ {n}
        /\ cb' = IF IsDevice(meta[n.id])
                 THEN [cb EXCEPT ![c] = [id |-> n.id, dev |-> meta[n.id]]] ELSE cb
        /\ raced' = (raced \/ Busy(n.id))
        /\ UNCHANGED <<map, holds, copying, profs, meta, changes, life, crash>>
    BY <1>1 DEF CallbackFetch
  <2>2. HeapOK'
    BY <2>1, HeapFrame DEF life
  <2>3. n.id \in Id
    BY DEF TypeOK
  <2>4. IsDevice(meta[n.id]) => meta[n.id] \in MetaDevice
    BY <2>3 DEF IsDevice, TypeOK
  <2>5. cb' \in [Callback -> [id : Id, dev : MetaDevice] \cup {NULL}]
    BY <2>1, <2>3, <2>4 DEF TypeOK
  <2>6. raced' \in BOOLEAN
    BY <2>1 DEF TypeOK
  <2>7. TypeOK'
    BY <2>1, <2>5, <2>6 DEF TypeOK, profs, life
  <2>8. Life'
    BY <2>1 DEF Life, life
  <2>9. QED
    BY <2>2, <2>7, <2>8
<1>2. ASSUME NEW n \in pending, CallbackDelete(c, n)
      PROVE  IInv'
  <2>1. /\ phase = "running" /\ pending' = pending \ {n}
        /\ removedevice_byid(n.id)
        /\ raced' = (raced \/ Busy(n.id))
        /\ UNCHANGED <<holds, copying, cb, profs, meta, changes, life>>
    BY <1>2 DEF CallbackDelete
  <2>2. n.id \in Id
    BY DEF TypeOK
  <2>3. map' \in MapType /\ crash' \in {crash, "removedevice_byid"} /\ HeapOK' /\ Life'
    BY <2>1, <2>2, RemoveById DEF life
  <2>4. raced' \in BOOLEAN
    BY <2>1 DEF TypeOK
  <2>5. TypeOK'
    BY <2>1, <2>3, <2>4 DEF TypeOK, MapType, profs, life
  <2>6. QED
    BY <2>3, <2>5
<1>3. CASE CallbackApply(c)
  <2> DEFINE i == cb[c].id
             dev == cb[c].dev
  <2>1. /\ cb[c] # NULL /\ cb' = [cb EXCEPT ![c] = NULL]
        /\ IF dev.ours THEN map' \in replace_device(map, i, dev) /\ UNCHANGED crash
                       ELSE removedevice_byid(i)
        /\ UNCHANGED <<holds, copying, profs, core, life, raced>>
    BY <1>3 DEF CallbackApply
  <2>2. phase = "running" /\ clearing = NULL
    BY <2>1 DEF Life, Up
  <2>3. i \in Id /\ dev \in MetaDevice /\ map \in MapType
    BY <2>1 DEF TypeOK, MapType
  <2>4. cb' \in [Callback -> [id : Id, dev : MetaDevice] \cup {NULL}]
    BY <2>1 DEF TypeOK
  <2> HIDE DEF i, dev
  <2>5. map' \in MapType /\ crash' \in {crash, "removedevice_byid"} /\ HeapOK' /\ Life'
    <3>1. CASE dev.ours
      <4>1. Counted(map, holds, NULL) /\ Placed(map) /\ Named(map)
        BY <2>2 DEF HeapOK, Up
      <4>2. map' \in MapType /\ Counted(map', holds, NULL) /\ Placed(map') /\ Named(map')
        BY <2>1, <2>3, <3>1, <4>1, ReplaceDevice
      <4>3. HeapOK'
        BY <2>1, <2>2, <4>2 DEF HeapOK, life
      <4>4. Life'
        BY <2>1, <2>2, <3>1 DEF Life, life
      <4>5. QED
        BY <2>1, <3>1, <4>2, <4>3, <4>4
    <3>2. CASE ~dev.ours
      BY <2>1, <2>2, <2>3, <3>2, RemoveById DEF life
    <3>3. QED
      BY <3>1, <3>2
  <2>6. TypeOK'
    BY <2>1, <2>4, <2>5 DEF TypeOK, MapType, profs, core, life
  <2>7. QED
    BY <2>5, <2>6
<1>4. QED
  BY <1>1, <1>2, <1>3 DEF Handler

(* Before the service stops the structs of the map live.                   *)
LEMMA MapLives ==
  ASSUME IInv, phase \in Up, NEW i \in Id, map.devices[i] # NULL
  PROVE  map.devices[i] \in Obj /\ map.heap[map.devices[i]] # NULL
<1>1. clearing = NULL /\ map \in MapType
  BY DEF IInv, Life, TypeOK, MapType
<1>2. map.devices[i] \in Obj /\ InMapOf(map, clearing, map.devices[i])
  BY <1>1 DEF MapType, InMapOf
<1>3. QED
  BY <1>2 DEF IInv, HeapOK, Counted, CountedAt

(* A lookup that found the structs O.                                      *)
LEMMA FoundStep ==
  ASSUME IInv, NEW t \in Reader, CanLookUp(t), NEW O \in SUBSET Obj, Found(t, O),
         lookupUnchanged,
         phase \in Up => \A o \in O : map.heap[o] # NULL
  PROVE  IInv'
<1> USE DEF IInv
<1>1. map \in MapType /\ holds \in [Reader -> SUBSET Obj] /\ holds[t] = {} /\ crash = "none"
  BY DEF TypeOK, MapType, CanLookUp, Alive
<1>2. UNCHANGED <<copying, cb, profs, core, life, raced>>
  BY DEF lookupUnchanged
<1>3. CASE \E o \in O : map.heap[o] = NULL
  <2>1. crash' = "lookup" /\ UNCHANGED <<map, holds>>
    BY <1>3 DEF Found
  <2>2. phase \notin Up
    BY <1>3
  <2>3. HeapOK'
    BY <1>2, <2>1, HeapFrame DEF life
  <2>4. TypeOK'
    BY <1>2, <2>1 DEF TypeOK, profs, core, life
  <2>5. Life'
    BY <1>2, <2>1, <2>2 DEF Life, life
  <2>6. QED
    BY <2>3, <2>4, <2>5
<1>4. CASE \A o \in O : map.heap[o] # NULL
  <2>1. map' = Ref(map, O) /\ holds' = With(holds, t, O) /\ crash' = crash
    BY <1>4 DEF Found, With
  <2>2. Counted(map, holds, clearing) /\ Placed(map)
    BY DEF HeapOK
  <2>3. /\ map' \in MapType /\ map'.devices = map.devices
        /\ holds' \in [Reader -> SUBSET Obj]
        /\ Counted(map', holds', clearing) /\ Placed(map')
        /\ Named(map) => Named(map')
    BY <1>1, <1>4, <2>1, <2>2, RefTaken
  <2>4. HeapOK'
    BY <1>2, <2>3 DEF HeapOK, life
  <2>5. TypeOK'
    BY <1>2, <2>1, <2>3 DEF TypeOK, MapType, profs, core, life
  <2>6. Life'
    BY <1>2, <2>1, <2>3 DEF Life, life
  <2>7. QED
    BY <2>4, <2>5, <2>6
<1>5. QED
  BY <1>3, <1>4

(* A lookup that fails once the service stops.                             *)
LEMMA CrashStep ==
  ASSUME IInv, phase \notin Up, crash' = "lookup", UNCHANGED <<map, holds>>, lookupUnchanged
  PROVE  IInv'
<1> USE DEF IInv
<1>1. UNCHANGED <<copying, cb, profs, core, life, raced>>
  BY DEF lookupUnchanged
<1>2. HeapOK'
  BY <1>1, HeapFrame DEF life
<1>3. TypeOK'
  BY <1>1 DEF TypeOK, profs, core, life
<1>4. Life'
  BY <1>1 DEF Life, life
<1>5. QED
  BY <1>2, <1>3, <1>4

(* The four lookups of a thread.                                           *)
LEMMA LookUpStep ==
  ASSUME IInv, NEW t \in Reader, LookUp(t)
  PROVE  IInv'
<1> USE DevMapAssumptions
<1>1. map \in MapType
  BY DEF IInv, TypeOK, MapType
<1>2. ASSUME NEW i \in Id, device_byid(t, i)
      PROVE  IInv'
  <2>1. /\ CanLookUp(t) /\ map.devices[i] # NULL
        /\ Found(t, {map.devices[i]}) /\ lookupUnchanged
    BY <1>2 DEF device_byid
  <2>2. map.devices[i] \in Obj
    BY <1>1, <2>1 DEF MapType
  <2>3. phase \in Up => map.heap[map.devices[i]] # NULL
    BY <2>1, MapLives
  <2>4. QED
    BY <2>1, <2>2, <2>3, FoundStep
<1>3. ASSUME NEW n \in Name, device_byname(t, n)
      PROVE  IInv'
  <2> DEFINE s == map.name_to_id[n]
             bad == map.heap[s] = NULL \/ map.devices[map.heap[s].id] = NULL
             o == map.devices[map.heap[s].id]
  <2>1. /\ CanLookUp(t) /\ s # NULL
        /\ IF bad THEN crash' = "lookup" /\ UNCHANGED <<map, holds>> ELSE Found(t, {o})
        /\ lookupUnchanged
    BY <1>3 DEF device_byname
  <2>2. s \in Obj
    BY <1>1, <2>1 DEF MapType
  <2>3. phase \in Up => map.heap[s] # NULL /\ o = s
    BY <2>1 DEF IInv, HeapOK, Named
  <2>4. CASE bad
    <3>1. phase \notin Up
      BY <2>2, <2>3, <2>4
    <3>2. QED
      BY <2>1, <2>4, <3>1, CrashStep
  <2>5. CASE ~bad
    <3>1. map.heap[s].id \in Id /\ o \in Obj
      BY <1>1, <2>2, <2>5 DEF MapType, Device
    <3>2. QED
      BY <2>1, <2>3, <2>5, <3>1, FoundStep
  <2>6. QED
    BY <2>4, <2>5
<1>4. ASSUME NEW p \in Profile, device_forcmd(t, p)
      PROVE  IInv'
  <2> DEFINE O == {o \in Obj : \E i \in Id : /\ map.devices[i] = o
                                             /\ map.heap[o].enabled /\ map.heap[o].prof = p}
  <2>1. CanLookUp(t) /\ Found(t, O) /\ lookupUnchanged
    BY <1>4 DEF device_forcmd
  <2>2. phase \in Up => \A o \in O : map.heap[o] # NULL
    BY MapLives
  <2> HIDE DEF O
  <2>3. O \in SUBSET Obj
    BY DEF O
  <2>4. QED
    BY <2>1, <2>2, <2>3, FoundStep
<1>5. CASE LookUpFreed(t)
  <2>1. phase = "freed" /\ crash' = "lookup" /\ UNCHANGED <<map, holds>> /\ lookupUnchanged
    BY <1>5 DEF LookUpFreed
  <2>2. QED
    BY <2>1, CrashStep DEF Up
<1>6. QED
  BY <1>2, <1>3, <1>4, <1>5 DEF LookUp

(* Copying and releasing a struct that the thread holds.                   *)
LEMMA HolderStep ==
  ASSUME IInv, NEW t \in Reader, Copy(t) \/ ReleaseAny(t)
  PROVE  IInv'
<1> USE DEF IInv
<1>1. map \in MapType /\ holds \in [Reader -> SUBSET Obj]
  BY DEF TypeOK, MapType
<1>2. ASSUME NEW o \in holds[t], StartCopy(t, o)
      PROVE  IInv'
  <2>1. /\ copying' = [copying EXCEPT ![t] = o]
        /\ UNCHANGED <<map, holds, cb, profs, core, life, crash, raced>>
    BY <1>2 DEF StartCopy
  <2>2. HeapOK'
    BY <2>1, HeapFrame DEF life
  <2>3. o \in Obj
    BY <1>1
  <2>4. TypeOK'
    BY <2>1, <2>3 DEF TypeOK, profs, core, life
  <2>5. Life'
    BY <2>1 DEF Life, life
  <2>6. QED
    BY <2>2, <2>4, <2>5
<1>3. ASSUME NEW o \in holds[t], Release(t, o)
      PROVE  IInv'
  <2>1. /\ map' = release(map, o) /\ holds' = Without(holds, t, o)
        /\ copying' = [copying EXCEPT ![t] = NULL]
        /\ UNCHANGED <<cb, profs, core, life, crash, raced>>
    BY <1>3 DEF Release, Without
  <2>2. Counted(map, holds, clearing) /\ Placed(map)
    BY DEF HeapOK
  <2>3. /\ map' \in MapType /\ map'.devices = map.devices
        /\ holds' \in [Reader -> SUBSET Obj]
        /\ Counted(map', holds', clearing) /\ Placed(map')
        /\ clearing = NULL /\ Named(map) => Named(map')
    BY <1>1, <2>1, <2>2, ReleaseHeld
  <2>4. phase \in Up => clearing = NULL
    BY DEF Life
  <2>5. HeapOK'
    BY <2>1, <2>3, <2>4 DEF HeapOK, life
  <2>6. TypeOK'
    BY <2>1, <2>3 DEF TypeOK, MapType, profs, core, life
  <2>7. Life'
    BY <2>1, <2>3 DEF Life, life
  <2>8. QED
    BY <2>5, <2>6, <2>7
<1>4. QED
  BY <1>2, <1>3 DEF Copy, ReleaseAny

(* The profile that another thread adds is no business of the structs.     *)
LEMMA ProfileStep ==
  ASSUME IInv, NEW p \in Profile, MissProfile(p) \/ AddProfile(p)
  PROVE  IInv'
<1> USE DEF IInv
<1>1. CASE MissProfile(p)
  <2>1. /\ missing' = missing \cup {p}
        /\ UNCHANGED <<map, holds, copying, cb, refetched, core, life, crash, raced>>
    BY <1>1 DEF MissProfile
  <2>2. HeapOK'
    BY <2>1, HeapFrame DEF life
  <2>3. TypeOK'
    BY <2>1 DEF TypeOK, core, life
  <2>4. Life'
    BY <2>1 DEF Life, life
  <2>5. QED
    BY <2>2, <2>3, <2>4
<1>2. CASE AddProfile(p)
  <2>1. /\ missing' = missing \ {p}
        /\ refetched' = IF map.profiles[p] = 0 THEN refetched ELSE refetched \cup {p}
        /\ map' = [map EXCEPT !.profiles[p] = map.structs + 1, !.structs = @ + 1]
        /\ UNCHANGED <<holds, copying, cb, core, life, crash, raced>>
    BY <1>2 DEF AddProfile
  <2>2. map \in MapType
    BY DEF TypeOK, MapType
  <2> DEFINE pr == [map.profiles EXCEPT ![p] = map.structs + 1]
  <2>3. map' = [map EXCEPT !.profiles = pr, !.structs = map.structs + 1]
    BY <2>1, <2>2 DEF MapType
  <2>4. pr \in [Profile -> Nat] /\ map.structs + 1 \in Nat
    BY <2>2 DEF MapType
  <2> HIDE DEF pr
  <2>5. /\ map' \in MapType
        /\ map'.heap = map.heap /\ map'.devices = map.devices
        /\ map'.name_to_id = map.name_to_id
    BY <2>2, <2>3, <2>4 DEF MapType
  <2>6. Counted(map', holds, clearing) /\ Placed(map') /\ (Named(map) => Named(map'))
    BY <2>2, <2>5, SameStructs DEF HeapOK
  <2>7. HeapOK'
    BY <2>1, <2>6 DEF HeapOK, life
  <2>8. TypeOK'
    BY <2>1, <2>5 DEF TypeOK, MapType, core, life
  <2>9. Life'
    BY <2>1, <2>5 DEF Life, life
  <2>10. QED
    BY <2>7, <2>8, <2>9
<1>3. QED
  BY <1>1, <1>2

(* The stop takes the map down, while threads that it does not know of use *)
(* it.                                                                     *)
LEMMA StoppingStep ==
  ASSUME IInv, Stopping
  PROVE  IInv'
<1> USE DEF IInv
<1> USE DevMapAssumptions
<1>1. map \in MapType
  BY DEF TypeOK, MapType
<1>2. CASE Stop
  <2>1. /\ phase = "running" /\ phase' = "stopping" /\ pending' = {}
        /\ \A c \in Callback : cb[c] = NULL
        /\ UNCHANGED <<map, holds, copying, cb, profs, meta, changes, devs, clearing, crash, raced>>
    BY <1>2 DEF Stop
  <2>2. HeapOK'
    BY <2>1, HeapFrame DEF Up
  <2>3. TypeOK'
    BY <2>1 DEF TypeOK, profs
  <2>4. Life'
    BY <2>1 DEF Life, Up
  <2>5. QED
    BY <2>2, <2>3, <2>4
<1>3. ASSUME NEW i \in Id, ClearRelease(i)
      PROVE  IInv'
  <2>1. /\ phase = "stopping" /\ clearing = NULL /\ map.devices[i] # NULL
        /\ map' = release(map, map.devices[i]) /\ clearing' = map.devices[i]
        /\ UNCHANGED <<holds, copying, cb, profs, core, phase, devs, crash, raced>>
    BY <1>3 DEF ClearRelease
  <2>2. Counted(map, holds, NULL) /\ Placed(map)
    BY <2>1 DEF HeapOK
  <2>3. /\ map' \in MapType /\ map'.devices = map.devices
        /\ Counted(map', holds, clearing') /\ Placed(map')
    BY <1>1, <2>1, <2>2, ClearReleases
  <2>4. HeapOK'
    BY <2>1, <2>3 DEF HeapOK, Up
  <2>5. clearing' \in Obj
    BY <1>1, <2>1 DEF MapType
  <2>6. TypeOK'
    BY <2>1, <2>3, <2>5 DEF TypeOK, MapType, profs, core
  <2>7. Life'
    BY <2>1, <2>3 DEF Life, Up
  <2>8. QED
    BY <2>4, <2>6, <2>7
<1>4. ASSUME NEW i \in Id, ClearRemove(i)
      PROVE  IInv'
  <2>1. /\ clearing # NULL /\ map.devices[i] = clearing /\ clearing' = NULL
        /\ map' = [map EXCEPT !.devices[i] = NULL]
        /\ UNCHANGED <<holds, copying, cb, profs, core, phase, devs, crash, raced>>
    BY <1>4 DEF ClearRemove
  <2>2. phase \notin Up
    BY <2>1 DEF Life
  <2>3. Counted(map, holds, map.devices[i]) /\ Placed(map)
    BY <2>1 DEF HeapOK
  <2>4. map' \in MapType /\ Counted(map', holds, NULL) /\ Placed(map')
    BY <1>1, <2>1, <2>3, ClearRemoves
  <2>5. HeapOK'
    BY <2>1, <2>2, <2>4 DEF HeapOK
  <2>6. TypeOK'
    BY <2>1, <2>4 DEF TypeOK, MapType, profs, core
  <2>7. Life'
    BY <2>1, <2>2 DEF Life, Up
  <2>8. QED
    BY <2>5, <2>6, <2>7
<1>5. CASE Stopped \/ ServiceFree
  <2>1. /\ phase \notin Up /\ phase' \in {"stopped", "freed"}
        /\ UNCHANGED <<map, holds, copying, cb, profs, core, devs, clearing, crash, raced>>
    BY <1>5 DEF Stopped, ServiceFree, Up
  <2>2. HeapOK'
    BY <2>1, HeapFrame DEF Up
  <2>3. TypeOK'
    BY <2>1 DEF TypeOK, profs, core
  <2>4. Life'
    BY <2>1 DEF Life, Up
  <2>5. QED
    BY <2>2, <2>3, <2>4
<1>6. QED
  BY <1>2, <1>3, <1>4, <1>5 DEF Stopping

(* Every step preserves the invariant.                                     *)
LEMMA Inductive == IInv /\ [Next]_vars => IInv'
<1> SUFFICES ASSUME IInv, [Next]_vars
             PROVE  IInv'
  OBVIOUS
<1>1. CASE UNCHANGED vars
  BY <1>1 DEF vars, profs, core, life, IInv, TypeOK, HeapOK, Life
<1>2. CASE Next
  BY <1>2, MetadataStep, StartingStep, StoppingStep, HandlerStep, LookUpStep,
     HolderStep, ProfileStep DEF Next
<1>3. QED
  BY <1>1, <1>2

(* So it holds in every state of every behaviour.                          *)
LEMMA Invariance == SafetySpec => []IInv
<1>1. Init => IInv
  BY Initially
<1>2. IInv /\ [Next]_vars => IInv'
  BY Inductive
<1>3. QED
  BY <1>1, <1>2, PTL DEF SafetySpec

----------------------------------------------------------------------------
(* The theorems                                                            *)

(* Type correctness, for any number of devices, names, threads, structs.   *)
THEOREM TypeCorrect == SafetySpec => []TypeOK
<1>1. IInv => TypeOK
  BY DEF IInv
<1>2. QED
  BY <1>1, Invariance, PTL

(* edgex_device_release frees a device when the last of its holders lets   *)
(* go of it, the map included: never while it is in use (no dangling       *)
(* reference), and never is one without holders kept.                      *)
THEOREM CountsExact == SafetySpec => []RefsCounted
<1>1. IInv => RefsCounted
  BY DEF IInv, HeapOK, Counted, CountedAt, HoldersOf, InMapOf, RefsCounted, Holders, InMap
<1>2. QED
  BY <1>1, Invariance, PTL

(* However callbacks replace, rename and remove devices, a name in         *)
(* name_to_id is that of a device in the map.                              *)
THEOREM NamesSound == SafetySpec => []NamesLeadToDevices
<1>1. IInv => NamesLeadToDevices
  BY DEF IInv, HeapOK, Named, NamesLeadToDevices, Up
<1>2. QED
  BY <1>1, Invariance, PTL

(* So edgex_devmap_device_byname, which does not look whether the id that  *)
(* it found is in the map, is safe until the service stops; afterwards     *)
(* it is not (edgex_devmap_clear leaves name_to_id as it is).              *)
THEOREM LookupsSound == SafetySpec => []LookupsSafe
<1>1. IInv => LookupsSafe
  BY DEF IInv, TypeOK, Life, LookupsSafe, Up
<1>2. QED
  BY <1>1, Invariance, PTL

----------------------------------------------------------------------------
(* Invariants of what the map shows                                        *)

(* The map m shows device dev under id i.                                  *)
Shows(m, i, dev) ==
  LET o == m.devices[i] IN
  /\ o # NULL
  /\ m.heap[o].id = i /\ m.heap[o].name = dev.name /\ m.heap[o].prof = dev.prof
  /\ m.heap[o].enabled = dev.enabled /\ m.heap[o].labels = dev.labels

Ours(i) == IsDevice(meta[i]) /\ meta[i].ours

(* ProfilesSharedUnlessRefetched of a map.                                 *)
Shared(m, R) ==
  \A o \in Obj : m.heap[o] # NULL /\ m.heap[o].prof \notin R
                   => m.heap[o].ptr = m.profiles[m.heap[o].prof]

(* In metadata names are unique; a callback is for a device that metadata  *)
(* has or had, and one for a deletion comes after it.                      *)
MetaInv ==
  /\ \A i, j \in Id : IsDevice(meta[i]) /\ IsDevice(meta[j]) /\ meta[i].name = meta[j].name
                        => i = j
  /\ \A n \in pending : /\ meta[n.id] # NULL
                        /\ n.method = "DELETE" => meta[n.id] = Deleted
  /\ phase # "running" => pending = {}

(* While the start fills the map nothing changes in metadata: what is not  *)
(* in the map yet is still to be put there.                                *)
FillInv ==
  phase = "starting" =>
    /\ \A d \in devs : Ours(d.id) /\ d.dev = meta[d.id]
    /\ \A i \in Id : IF Ours(i) THEN Shows(map, i, meta[i]) \/ \E d \in devs : d.id = i
                                ELSE map.devices[i] = NULL

(* A callback that is to be applied gives the map what metadata has.       *)
Agrees(dev, i) == IF Ours(i) THEN dev = meta[i] ELSE dev.ours = FALSE

(* The callbacks for i to come, and the threads that have fetched it.      *)
Awaited(i) == {n \in pending : n.id = i}
On(c, i) == cb[c] # NULL /\ cb[c].id = i

(* While the service runs, the last callback for a device that has not     *)
(* been handled makes up for all that came before, in whatever order: the  *)
(* map shows the device, or a thread is about to see to it that it does,   *)
(* or a callback is to come; and after a deletion nothing brings the       *)
(* device back.                                                            *)
CallbackAt(i) ==
  /\ Awaited(i) = {} /\ ~Busy(i) => Mirrors(i)
  /\ Awaited(i) = {} => \A c \in Callback : On(c, i) => Agrees(cb[c].dev, i)
  /\ Awaited(i) # {} /\ meta[i] = Deleted
       => (\E n \in Awaited(i) : n.method = "DELETE") \/ (map.devices[i] = NULL /\ ~Busy(i))

CallbackInv == phase = "running" /\ crash = "none" => \A i \in Id : CallbackAt(i)

(* No two threads have fetched the same device.                            *)
OneEach ==
  \A c, d \in Callback : cb[c] # NULL /\ cb[d] # NULL /\ cb[c].id = cb[d].id => c = d

(* These break when a race has happened, and with them the mirror.         *)
Orderly == OneEach /\ FillInv /\ CallbackInv

MirrorInv == MetaInv /\ (raced = FALSE => Orderly)

----------------------------------------------------------------------------
(* What the functions of devmap.c do to the content of the structs         *)

(* Two structs that differ in their counts at most.                        *)
Like(d, e) ==
  /\ d.id = e.id /\ d.name = e.name /\ d.prof = e.prof /\ d.ptr = e.ptr
  /\ d.enabled = e.enabled /\ d.labels = e.labels

(* The map r has under id i what m has there.                              *)
Kept(m, r, i) ==
  /\ r.devices[i] = m.devices[i]
  /\ m.devices[i] # NULL => Like(r.heap[m.devices[i]], m.heap[m.devices[i]])

LEMMA KeptShows ==
  ASSUME NEW m, NEW r, NEW i, NEW dev, Kept(m, r, i)
  PROVE  Shows(r, i, dev) <=> Shows(m, i, dev)
BY DEF Kept, Shows, Like

(* Only structs survive that were there, and as they were.                 *)
Fewer(m, r) ==
  /\ r.profiles = m.profiles
  /\ \A p \in Obj : r.heap[p] # NULL => m.heap[p] # NULL /\ Like(r.heap[p], m.heap[p])

LEMMA FewerShared ==
  ASSUME NEW m, NEW r, NEW R, Fewer(m, r), Shared(m, R)
  PROVE  Shared(r, R)
BY DEF Fewer, Shared, Like

LEMMA ReleaseFewer ==
  ASSUME NEW m \in MapType, NEW o \in Obj, m.heap[o] # NULL
  PROVE  Fewer(m, release(m, o))
<1> DEFINE r == release(m, o)
<1>1. /\ r.profiles = m.profiles
      /\ \A q \in Obj \ {o} : r.heap[q] = m.heap[q]
      /\ m.heap[o].refs = 1 => r.heap[o] = NULL
      /\ m.heap[o].refs # 1 => r.heap[o] = [m.heap[o] EXCEPT !.refs = @ - 1]
  BY ReleaseFields
<1>2. m.heap[o] \in Device
  BY DEF MapType
<1> HIDE DEF r
<1>3. \A p \in Obj \ {o} : Like(r.heap[p], m.heap[p])
  BY <1>1 DEF Like
<1>4. r.heap[o] # NULL => Like(r.heap[o], m.heap[o])
  BY <1>1, <1>2 DEF Like, Device
<1>5. QED
  BY <1>1, <1>3, <1>4 DEF Fewer, r

(* What lives in a map that is left alone is as before.                    *)
LEMMA FewerKept ==
  ASSUME NEW m \in MapType, NEW r \in MapType, NEW h, Counted(r, h, NULL), Fewer(m, r),
         NEW i \in Id, r.devices[i] = m.devices[i]
  PROVE  Kept(m, r, i)
<1> USE DevMapAssumptions
<1>1. ASSUME m.devices[i] # NULL
      PROVE  Like(r.heap[m.devices[i]], m.heap[m.devices[i]])
  <2> DEFINE o == m.devices[i]
  <2>1. o \in Obj /\ InMapOf(r, NULL, o)
    BY <1>1 DEF MapType, InMapOf
  <2>2. r.heap[o] # NULL
    BY <2>1 DEF Counted, CountedAt
  <2>3. QED
    BY <2>1, <2>2 DEF Fewer
<1>2. QED
  BY <1>1 DEF Kept

LEMMA RefFewer ==
  ASSUME NEW m \in MapType, NEW O \in SUBSET Obj, \A o \in O : m.heap[o] # NULL
  PROVE  Fewer(m, Ref(m, O))
<1> DEFINE r == Ref(m, O)
<1>1. /\ r.profiles = m.profiles
      /\ \A p \in Obj \ O : r.heap[p] = m.heap[p]
      /\ \A p \in O : /\ r.heap[p].id = m.heap[p].id /\ r.heap[p].name = m.heap[p].name
                       /\ r.heap[p].prof = m.heap[p].prof /\ r.heap[p].ptr = m.heap[p].ptr
                       /\ r.heap[p].enabled = m.heap[p].enabled
                       /\ r.heap[p].labels = m.heap[p].labels
  BY RefFields
<1> HIDE DEF r
<1>2. \A p \in Obj : Like(r.heap[p], m.heap[p])
  BY <1>1 DEF Like
<1>3. QED
  BY <1>1, <1>2 DEF Fewer, r

(* remove_locked takes the device away and leaves the others.              *)
LEMMA RemoveContent ==
  ASSUME NEW m \in MapType, NEW h, Counted(m, h, NULL), Placed(m), Named(m),
         NEW i \in Id, m.devices[i] # NULL
  PROVE  LET r == remove_locked(m, m.devices[i])
         IN  /\ r.devices[i] = NULL /\ Fewer(m, r)
             /\ \A j \in Id \ {i} : Kept(m, r, j)
<1> USE DevMapAssumptions
<1> DEFINE o == m.devices[i]
           nm == [m.name_to_id EXCEPT ![m.heap[o].name] = NULL]
           dv == [m.devices EXCEPT ![i] = NULL]
           m0 == [m EXCEPT !.name_to_id = nm, !.devices = dv]
           r == remove_locked(m, o)
<1>1. o \in Obj /\ InMapOf(m, NULL, o)
  BY DEF InMapOf, MapType
<1>2. m.heap[o] # NULL
  BY <1>1 DEF Counted, CountedAt
<1>3. m.heap[o].id = i
  BY <1>2 DEF Placed
<1>4. m.heap[o].name \in Name
  BY <1>1, <1>2 DEF MapType, Device
<1>5. r = release(m0, o)
  BY <1>3 DEF remove_locked
<1>6. nm \in [Name -> Obj \cup {NULL}] /\ dv \in [Id -> Obj \cup {NULL}]
  BY <1>1 DEF MapType
<1> HIDE DEF nm, dv
<1>7. m0 \in MapType /\ m0.heap = m.heap /\ m0.profiles = m.profiles
  BY <1>6 DEF MapType
<1>8. Fewer(m0, release(m0, o))
  BY <1>1, <1>2, <1>7, ReleaseFewer
<1> HIDE DEF m0
<1>9. Fewer(m, r)
  BY <1>5, <1>7, <1>8 DEF Fewer
<1>10. /\ r \in MapType /\ r.devices = [m.devices EXCEPT ![i] = NULL]
       /\ Counted(r, h, NULL)
  BY RemoveLocked
<1> HIDE DEF r, o
<1>11. r.devices[i] = NULL /\ \A j \in Id \ {i} : r.devices[j] = m.devices[j]
  BY <1>10 DEF MapType
<1>12. \A j \in Id \ {i} : Kept(m, r, j)
  BY <1>9, <1>10, <1>11, FewerKept
<1>13. QED
  BY <1>9, <1>11, <1>12 DEF r, o

(* add_locked shows the device and leaves the others.                      *)
LEMMA AddContent ==
  ASSUME NEW m \in MapType, NEW h, Counted(m, h, NULL),
         NEW i \in Id, NEW dev \in MetaDevice, NEW o \in Free(m)
  PROVE  LET r == add_locked(m, i, dev, o)
         IN  /\ Shows(r, i, dev)
             /\ \A j \in Id \ {i} : Kept(m, r, j)
             /\ \A R : Shared(m, R) => Shared(r, R)
<1> USE DevMapAssumptions
<1> DEFINE r == add_locked(m, i, dev, o)
<1>1. o \in Obj /\ o # NULL /\ m.heap[o] = NULL
  BY DEF Free
<1>2. r \in MapType /\ Added(m, r, i, dev, o)
  BY <1>1, AddFields
<1> HIDE DEF r
<1>3. r.devices[i] = o /\ \A j \in Id \ {i} : r.devices[j] = m.devices[j]
  BY <1>2 DEF Added, MapType
<1>4. Shows(r, i, dev)
  BY <1>1, <1>2, <1>3 DEF Added, Shows
<1>5. ASSUME NEW j \in Id \ {i}
      PROVE  Kept(m, r, j)
  <2>1. ASSUME m.devices[j] # NULL
        PROVE  m.devices[j] \in Obj /\ m.devices[j] # o
    <3>1. m.devices[j] \in Obj /\ InMapOf(m, NULL, m.devices[j])
      BY <2>1 DEF MapType, InMapOf
    <3>2. QED
      BY <1>1, <3>1 DEF Counted, CountedAt
  <2>2. m.devices[j] # NULL => r.heap[m.devices[j]] = m.heap[m.devices[j]]
    BY <1>2, <2>1 DEF Added
  <2>3. QED
    BY <1>3, <2>2 DEF Kept, Like
<1>6. ASSUME NEW R, Shared(m, R)
      PROVE  Shared(r, R)
  <2>1. dev.prof \in Profile
    BY DEF MetaDevice
  <2>2. /\ r.profiles[dev.prof] = r.heap[o].ptr
        /\ \A q \in Profile \ {dev.prof} : r.profiles[q] = m.profiles[q]
    BY <1>2, <2>1 DEF Added, MapType
  <2>3. ASSUME NEW p \in Obj \ {o}, r.heap[p] # NULL, r.heap[p].prof \notin R
        PROVE  r.heap[p].ptr = r.profiles[r.heap[p].prof]
    <3>1. r.heap[p] = m.heap[p] /\ m.heap[p] \in Device
      BY <1>2, <2>3 DEF Added, MapType
    <3>2. m.heap[p].ptr = m.profiles[m.heap[p].prof] /\ m.heap[p].ptr # 0
      BY <1>6, <2>3, <3>1 DEF Shared, Device
    <3>3. m.heap[p].prof \in Profile
      BY <3>1 DEF Device
    <3>4. CASE m.heap[p].prof = dev.prof
      BY <1>2, <2>2, <3>1, <3>2, <3>4 DEF Added
    <3>5. CASE m.heap[p].prof # dev.prof
      BY <2>2, <3>1, <3>2, <3>3, <3>5
    <3>6. QED
      BY <3>4, <3>5
  <2>4. r.heap[o].ptr = r.profiles[r.heap[o].prof]
    BY <1>2, <2>2 DEF Added
  <2>5. QED
    BY <2>3, <2>4 DEF Shared
<1>7. QED
  BY <1>4, <1>5, <1>6 DEF r

(* edgex_devmap_replace_device shows the device and leaves the others.     *)
LEMMA ReplaceContent ==
  ASSUME NEW m \in MapType, NEW h, Counted(m, h, NULL), Placed(m), Named(m),
         NEW i \in Id, NEW dev \in MetaDevice, NEW r \in replace_device(m, i, dev)
  PROVE  /\ Shows(r, i, dev)
         /\ \A j \in Id \ {i} : Kept(m, r, j)
         /\ \A R : Shared(m, R) => Shared(r, R)
<1> USE DevMapAssumptions
<1> DEFINE old == m.devices[i]
           s == remove_locked(m, old)
<1>1. CASE old = NULL
  <2>1. PICK o \in Free(m) : r = add_locked(m, i, dev, o)
    BY <1>1 DEF replace_device
  <2>2. QED
    BY <2>1, AddContent
<1>2. CASE old # NULL /\ SameShape(m.heap[old], dev)
  <2>1. r = update_in_place(m, old, dev)
    BY <1>2 DEF replace_device
  <2>2. old \in Obj /\ InMapOf(m, NULL, old)
    BY <1>2 DEF MapType, InMapOf
  <2>3. m.heap[old] # NULL /\ m.heap[old].id = i
    BY <1>2, <2>2 DEF Counted, CountedAt, Placed
  <2>4. m.heap[old].name = dev.name /\ m.heap[old].prof = dev.prof
    BY <1>2 DEF SameShape
  <2>5. \A j \in Id \ {i} : m.devices[j] # NULL => m.devices[j] \in Obj \ {old}
    BY <1>2 DEF Placed, MapType
  <2> HIDE DEF old
  <2>6. /\ r.devices = m.devices /\ r.profiles = m.profiles
        /\ \A p \in Obj \ {old} : r.heap[p] = m.heap[p]
        /\ r.heap[old] # NULL
        /\ r.heap[old].id = m.heap[old].id /\ r.heap[old].name = m.heap[old].name
        /\ r.heap[old].prof = m.heap[old].prof /\ r.heap[old].ptr = m.heap[old].ptr
        /\ r.heap[old].enabled = dev.enabled /\ r.heap[old].labels = dev.labels
    BY <2>1, <2>2, <2>3, UpdateFields
  <2>7. Shows(r, i, dev)
    BY <1>2, <2>3, <2>4, <2>6 DEF Shows, old
  <2>8. \A j \in Id \ {i} : Kept(m, r, j)
    BY <2>5, <2>6 DEF Kept, Like
  <2>9. \A R : Shared(m, R) => Shared(r, R)
    BY <2>3, <2>6 DEF Shared
  <2>10. QED
    BY <2>7, <2>8, <2>9
<1>3. CASE old # NULL /\ ~SameShape(m.heap[old], dev)
  <2>1. PICK o \in Free(s) : r = add_locked(s, i, dev, o)
    BY <1>3 DEF replace_device
  <2>2. s \in MapType /\ Counted(s, h, NULL)
    BY <1>3, RemoveLocked
  <2>3. Fewer(m, s) /\ \A j \in Id \ {i} : Kept(m, s, j)
    BY <1>3, RemoveContent
  <2> HIDE DEF s, old
  <2>4. /\ Shows(r, i, dev)
        /\ \A j \in Id \ {i} : Kept(s, r, j)
        /\ \A R : Shared(s, R) => Shared(r, R)
    BY <2>1, <2>2, AddContent
  <2>5. \A R : Shared(m, R) => Shared(s, R)
    BY <2>3, FewerShared
  <2>6. ASSUME NEW j \in Id \ {i}
        PROVE  Kept(m, r, j)
    <3>1. Kept(m, s, j) /\ Kept(s, r, j)
      BY <2>3, <2>4
    <3>2. QED
      BY <3>1 DEF Kept, Like
  <2>7. QED
    BY <2>4, <2>5, <2>6
<1>4. QED
  BY <1>1, <1>2, <1>3

----------------------------------------------------------------------------
(* The steps, of which most leave nearly everything alone                  *)

(* For a device that a step does not touch nothing changes.                *)
LEMMA Untouched ==
  ASSUME NEW i \in Id, CallbackAt(i), Kept(map, map', i), meta'[i] = meta[i],
         Awaited(i)' = Awaited(i),
         \A c \in Callback : cb'[c] = cb[c] \/ ~(On(c, i) \/ On(c, i)')
  PROVE  CallbackAt(i)'
<1>1. Busy(i)' <=> Busy(i)
  BY DEF Busy, On
<1>2. Mirrors(i)' <=> Mirrors(i)
  BY DEF Kept, Like, Mirrors
<1>3. \A c \in Callback : On(c, i)' => On(c, i) /\ cb'[c] = cb[c]
  BY DEF On
<1>4. Ours(i)' <=> Ours(i)
  BY DEF Ours
<1>5. \A c \in Callback : On(c, i)' => (Agrees(cb[c].dev, i)' <=> Agrees(cb[c].dev, i))
  BY <1>3, <1>4 DEF Agrees
<1>6. map'.devices[i] = map.devices[i]
  BY DEF Kept
<1>7. QED
  BY <1>1, <1>2, <1>3, <1>5, <1>6 DEF CallbackAt

(* What a map shows, and a device of metadata that is not there.           *)
LEMMA Mirrored ==
  ASSUME NEW i \in Id,
         IF Ours(i) THEN Shows(map, i, meta[i]) ELSE map.devices[i] = NULL
  PROVE  Mirrors(i)
BY DEF Ours, Shows, Mirrors

LEMMA ShownNext ==
  ASSUME NEW i \in Id,
         IF Ours(i)' THEN Shows(map', i, meta'[i]) ELSE map'.devices[i] = NULL
  PROVE  Mirrors(i)'
BY DEF Ours, Shows, Mirrors

(* A step of a thread that is no callback.                                 *)
LEMMA Aside ==
  ASSUME MirrorInv, UNCHANGED <<meta, pending, cb, phase, devs, raced>>,
         crash' = "none" => crash = "none",
         phase \in Up => \A i \in Id : Kept(map, map', i)
  PROVE  MirrorInv'
<1>1. MetaInv'
  BY DEF MirrorInv, MetaInv, IsDevice
<1>2. ASSUME raced' = FALSE
      PROVE  Orderly'
  <2>1. Orderly
    BY <1>2 DEF MirrorInv
  <2>2. OneEach'
    BY <2>1 DEF Orderly, OneEach
  <2>3. ASSUME phase = "starting", NEW i \in Id
        PROVE  /\ \A dev : Shows(map, i, dev) => Shows(map', i, dev)
               /\ map.devices[i] = NULL => map'.devices[i] = NULL
    BY <2>3, KeptShows DEF Up, Kept
  <2>4. FillInv'
    BY <2>1, <2>3 DEF Orderly, FillInv, Ours, IsDevice
  <2>5. ASSUME NEW i \in Id, phase = "running", crash = "none"
        PROVE  CallbackAt(i)'
    <3>1. CallbackAt(i) /\ Kept(map, map', i)
      BY <2>1, <2>5 DEF Orderly, CallbackInv, Up
    <3>2. Awaited(i)' = Awaited(i)
      BY DEF Awaited
    <3>3. QED
      BY <3>1, <3>2, Untouched
  <2>6. CallbackInv'
    BY <2>5 DEF CallbackInv
  <2>7. QED
    BY <2>2, <2>4, <2>6 DEF Orderly
<1>3. QED
  BY <1>1, <1>2 DEF MirrorInv

(* A change in metadata.                                                   *)
LEMMA MetadataMirror ==
  ASSUME IInv, MirrorInv, Metadata
  PROVE  MirrorInv'
<1> USE DevMapAssumptions
<1> DEFINE Changed(i, r, m) == /\ Change(i, r, m) /\ meta[i] # Deleted
                               /\ r = Deleted <=> m = "DELETE"
                               /\ IsDevice(r) => NameFree(r.name, i)
<1>1. PICK i \in Id, r \in MetaDevice \cup {Deleted}, m \in {"POST", "PUT", "DELETE"} :
        Changed(i, r, m)
  <2>1. changes \in Nat
    BY DEF IInv, TypeOK
  <2>2. ASSUME NEW n \in Name, NEW p \in Profile, NEW e \in BOOLEAN, NEW s \in BOOLEAN
        PROVE  /\ Record(n, p, e, s) \in MetaDevice /\ Record(n, p, e, s).name = n
               /\ Record(n, p, e, s) # Deleted
    BY <2>1 DEF Record, MetaDevice
  <2>3. ASSUME NEW j \in Id, NEW n \in Name, NEW p \in Profile, MetaAdd(j, n, p)
        PROVE  \E r \in MetaDevice : Changed(j, r, "POST")
    <3> DEFINE r == Record(n, p, TRUE, TRUE)
    <3>1. r \in MetaDevice /\ r.name = n /\ r # Deleted
      BY <2>2
    <3>2. Change(j, r, "POST") /\ meta[j] # Deleted /\ NameFree(n, j)
      BY <2>3 DEF MetaAdd
    <3> HIDE DEF r
    <3>3. QED
      BY <3>1, <3>2
  <2>4. ASSUME NEW j \in Id, NEW n \in Name, NEW p \in Profile, NEW e \in BOOLEAN,
               NEW s \in BOOLEAN, MetaUpdate(j, n, p, e, s)
        PROVE  \E r \in MetaDevice : Changed(j, r, "PUT")
    <3> DEFINE r == Record(n, p, e, s)
    <3>1. r \in MetaDevice /\ r.name = n /\ r # Deleted
      BY <2>2
    <3>2. Change(j, r, "PUT") /\ meta[j] # Deleted /\ NameFree(n, j)
      BY <2>4 DEF MetaUpdate, IsDevice
    <3> HIDE DEF r
    <3>3. QED
      BY <3>1, <3>2
  <2>5. ASSUME NEW j \in Id, MetaDelete(j)
        PROVE  Changed(j, Deleted, "DELETE")
    BY <2>5 DEF MetaDelete, IsDevice
  <2> HIDE DEF Changed
  <2>6. QED
    BY <2>3, <2>4, <2>5 DEF Metadata
<1> DEFINE ours == \E s \in {meta[i], r} : IsDevice(s) /\ s.ours
           new == [method |-> m, id |-> i, n |-> changes]
<1>2. /\ meta' = [meta EXCEPT ![i] = r]
      /\ pending' = IF ours /\ phase = "running" THEN pending \cup {new} ELSE pending
      /\ raced' = (raced \/ phase = "starting" \/ (~ours /\ \E n \in pending : n.id = i))
      /\ UNCHANGED <<map, holds, copying, cb, profs, life, crash>>
  BY <1>1 DEF Change
<1>3. /\ meta'[i] = r /\ \A j \in Id \ {i} : meta'[j] = meta[j]
      /\ r # NULL /\ raced \in BOOLEAN
      /\ \A n \in pending : n.id \in Id
  BY <1>2 DEF IInv, TypeOK
<1>4. new.id = i /\ new.method = m
  OBVIOUS
<1> HIDE DEF new, ours
<1>5. MetaInv'
  <2>1. ASSUME NEW j \in Id, NEW k \in Id, IsDevice(meta'[j]), IsDevice(meta'[k]),
               meta'[j].name = meta'[k].name
        PROVE  j = k
    <3>1. CASE j # i /\ k # i
      BY <1>3, <2>1, <3>1 DEF MirrorInv, MetaInv
    <3>2. CASE j = i
      BY <1>1, <1>3, <2>1, <3>2 DEF NameFree
    <3>3. CASE k = i
      BY <1>1, <1>3, <2>1, <3>3 DEF NameFree
    <3>4. QED
      BY <3>1, <3>2, <3>3
  <2>2. \A n \in pending : meta'[n.id] # NULL /\ (n.method = "DELETE" => meta'[n.id] = Deleted)
    BY <1>1, <1>3 DEF MirrorInv, MetaInv
  <2>3. meta'[new.id] # NULL /\ (new.method = "DELETE" => meta'[new.id] = Deleted)
    BY <1>1, <1>3, <1>4
  <2>4. phase' # "running" => pending' = {}
    BY <1>2 DEF MirrorInv, MetaInv, life
  <2>5. QED
    BY <1>2, <2>1, <2>2, <2>3, <2>4 DEF MetaInv
<1>6. ASSUME raced' = FALSE
      PROVE  Orderly'
  <2>1. Orderly /\ phase # "starting" /\ (ours \/ Awaited(i) = {})
    BY <1>2, <1>3, <1>6 DEF MirrorInv, Awaited
  <2>2. OneEach' /\ FillInv'
    BY <1>2, <2>1 DEF Orderly, OneEach, FillInv, life
  <2>3. ASSUME NEW j \in Id, CallbackAt(j), phase = "running"
        PROVE  CallbackAt(j)'
    <3>1. CASE j # i
      <4>1. Awaited(j)' = Awaited(j)
        BY <1>2, <1>4, <3>1 DEF Awaited
      <4>2. Kept(map, map', j)
        BY <1>2 DEF Kept, Like
      <4>3. QED
        BY <1>2, <1>3, <2>3, <3>1, <4>1, <4>2, Untouched
    <3>2. CASE j = i /\ ours
      <4>1. new \in Awaited(i)'
        BY <1>2, <1>4, <2>3, <3>2 DEF Awaited
      <4>2. QED
        BY <1>1, <1>3, <1>4, <3>2, <4>1 DEF CallbackAt
    <3>3. CASE j = i /\ ~ours
      <4>1. Awaited(i) = {} /\ Awaited(i)' = {}
        BY <1>2, <2>1, <3>3 DEF Awaited
      <4>2. ~Ours(i) /\ ~Ours(i)'
        BY <1>3, <3>3 DEF Ours, ours
      <4>3. Busy(i)' <=> Busy(i)
        BY <1>2 DEF Busy
      <4>4. Mirrors(i) => Mirrors(i)'
        BY <1>2, <4>2 DEF Mirrors, Ours
      <4>5. \A c \in Callback : On(c, i)' => On(c, i) /\ cb'[c] = cb[c]
        BY <1>2 DEF On
      <4>6. \A c \in Callback : Agrees(cb[c].dev, i) /\ cb'[c] = cb[c] => Agrees(cb[c].dev, i)'
        BY <4>2 DEF Agrees
      <4>7. QED
        BY <2>3, <3>3, <4>1, <4>3, <4>4, <4>5, <4>6 DEF CallbackAt
    <3>4. QED
      BY <3>1, <3>2, <3>3
  <2>4. CallbackInv'
    BY <1>2, <2>1, <2>3 DEF Orderly, CallbackInv, life
  <2>5. QED
    BY <2>2, <2>4 DEF Orderly
<1>7. QED
  BY <1>5, <1>6 DEF MirrorInv

(* While the map is being filled the name of a device that is not in it    *)
(* leads nowhere.                                                          *)
LEMMA NameFresh ==
  ASSUME map \in MapType, Named(map), FillInv, phase = "starting", MetaInv, Life,
         NEW i \in Id, map.devices[i] = NULL, Ours(i), meta[i].name \in Name
  PROVE  map.name_to_id[meta[i].name] = NULL
<1> USE DevMapAssumptions
<1> DEFINE n == meta[i].name
           o == map.name_to_id[n]
<1> SUFFICES ASSUME o # NULL PROVE FALSE
  OBVIOUS
<1> DEFINE j == map.heap[o].id
<1>1. o \in Obj /\ map.heap[o] # NULL /\ map.heap[o].name = n /\ map.devices[j] = o
  <2>1. map.heap[o] # NULL /\ map.heap[o].name = n /\ map.devices[j] = o
    BY DEF Named
  <2>2. map.name_to_id \in [Name -> Obj \cup {NULL}]
    BY DEF MapType
  <2>3. QED
    BY <2>1, <2>2
<1>2. j \in Id
  BY <1>1 DEF MapType, Device
<1>3. Ours(j) /\ (Shows(map, j, meta[j]) \/ \E d \in devs : d.id = j)
  BY <1>1, <1>2 DEF FillInv
<1>4. ASSUME NEW d \in devs, d.id = j
      PROVE  FALSE
  BY <1>1, <1>4 DEF Life
<1>5. meta[j].name = n
  BY <1>1, <1>3, <1>4 DEF Shows
<1>6. i = j
  BY <1>2, <1>3, <1>5 DEF MetaInv, Ours
<1>7. QED
  BY <1>1, <1>6

(* The start: every device of the service comes into the map.              *)
LEMMA StartingMirror ==
  ASSUME IInv, MirrorInv, Starting
  PROVE  MirrorInv'
<1> USE DevMapAssumptions
<1>1. CASE ReadDevices
  <2>1. /\ phase = "new" /\ phase' = "starting"
        /\ UNCHANGED <<map, cb, meta, pending, crash, raced>>
        /\ devs' = {[id |-> i, dev |-> meta[i]] : i \in {j \in Id : Ours(j)}}
    BY <1>1 DEF ReadDevices, core, Ours
  <2>2. MetaInv'
    BY <2>1 DEF MirrorInv, MetaInv, IsDevice
  <2>3. \A d \in devs' : Ours(d.id) /\ d.dev = meta[d.id]
    BY <2>1
  <2>4. ASSUME NEW i \in Id, Ours(i)
        PROVE  \E d \in devs' : d.id = i
    <3>1. [id |-> i, dev |-> meta[i]] \in devs'
      BY <2>1, <2>4
    <3>2. QED
      BY <3>1
  <2>5. \A i \in Id : map.devices[i] = NULL
    BY <2>1 DEF IInv, Life
  <2>6. FillInv'
    BY <2>1, <2>3, <2>4, <2>5 DEF FillInv, Ours, IsDevice
  <2>7. ASSUME raced' = FALSE
        PROVE  Orderly'
    BY <2>1, <2>6, <2>7 DEF MirrorInv, Orderly, OneEach, CallbackInv
  <2>8. QED
    BY <2>2, <2>7 DEF MirrorInv
<1>2. ASSUME NEW d \in devs, Populate(d)
      PROVE  MirrorInv'
  <2>1. /\ phase = "starting" /\ devs' = devs \ {d}
        /\ UNCHANGED <<cb, meta, pending, phase, crash, raced>>
    BY <1>2 DEF Populate, core
  <2>2. MetaInv'
    BY <2>1 DEF MirrorInv, MetaInv, IsDevice
  <2>3. ASSUME raced' = FALSE
        PROVE  Orderly'
    <3>1. Orderly
      BY <2>1, <2>3 DEF MirrorInv
    <3>2. d.id \in Id /\ d.dev \in MetaDevice /\ map \in MapType
      BY DEF IInv, TypeOK, MapType
    <3>3. map.devices[d.id] = NULL /\ clearing = NULL
      BY <2>1 DEF IInv, Life, Up
    <3>4. Counted(map, holds, NULL) /\ Named(map)
      BY <2>1, <3>3 DEF IInv, HeapOK, Up
    <3>5. Ours(d.id) /\ d.dev = meta[d.id]
      BY <2>1, <3>1 DEF Orderly, FillInv
    <3>6. map.name_to_id[d.dev.name] = NULL
      <4>1. d.dev.name \in Name
        BY <3>2 DEF MetaDevice
      <4>2. FillInv /\ MetaInv /\ Life
        BY <3>1 DEF MirrorInv, Orderly, IInv
      <4>3. QED
        BY <2>1, <3>2, <3>3, <3>4, <3>5, <4>1, <4>2, NameFresh
    <3>7. PICK o \in Free(map) : map' = add_locked(map, d.id, d.dev, o)
      BY <1>2, <3>6 DEF Populate
    <3>8. Shows(map', d.id, meta[d.id]) /\ \A j \in Id \ {d.id} : Kept(map, map', j)
      BY <3>2, <3>4, <3>5, <3>7, AddContent
    <3>9. ASSUME NEW i \in Id
          PROVE  IF Ours(i) THEN Shows(map', i, meta[i]) \/ \E e \in devs' : e.id = i
                            ELSE map'.devices[i] = NULL
      <4>1. CASE i = d.id
        BY <3>5, <3>8, <4>1
      <4>2. CASE i # d.id /\ Ours(i)
        <5>1. Shows(map, i, meta[i]) \/ \E e \in devs' : e.id = i
          BY <2>1, <3>1, <4>2 DEF Orderly, FillInv
        <5>2. QED
          BY <3>8, <4>2, <5>1, KeptShows
      <4>3. CASE i # d.id /\ ~Ours(i)
        BY <2>1, <3>1, <3>8, <4>3 DEF Orderly, FillInv, Kept
      <4>4. QED
        BY <4>1, <4>2, <4>3
    <3>10. \A e \in devs' : Ours(e.id) /\ e.dev = meta[e.id]
      BY <2>1, <3>1 DEF Orderly, FillInv
    <3>11. FillInv'
      BY <2>1, <3>9, <3>10 DEF FillInv, Ours, IsDevice
    <3>12. OneEach' /\ CallbackInv'
      BY <2>1, <3>1 DEF Orderly, OneEach, CallbackInv
    <3>13. QED
      BY <3>11, <3>12 DEF Orderly
  <2>4. QED
    BY <2>2, <2>3 DEF MirrorInv
<1>3. CASE StartServer
  <2>1. /\ phase = "starting" /\ devs = {} /\ phase' = "running"
        /\ UNCHANGED <<map, cb, meta, pending, crash, raced>>
    BY <1>3 DEF StartServer, core
  <2>2. pending = {} /\ \A c \in Callback : cb[c] = NULL
    BY <2>1 DEF MirrorInv, MetaInv, IInv, Life
  <2>3. MetaInv'
    BY <2>1, <2>2 DEF MirrorInv, MetaInv, IsDevice
  <2>4. ASSUME raced' = FALSE
        PROVE  Orderly'
    <3>1. OneEach' /\ FillInv'
      BY <2>1, <2>2 DEF OneEach, FillInv
    <3>2. ASSUME NEW i \in Id
          PROVE  CallbackAt(i)'
      <4>1. IF Ours(i) THEN Shows(map, i, meta[i]) ELSE map.devices[i] = NULL
        BY <2>1, <2>4 DEF MirrorInv, Orderly, FillInv
      <4>2. IF Ours(i)' THEN Shows(map', i, meta'[i]) ELSE map'.devices[i] = NULL
        BY <2>1, <4>1 DEF Ours
      <4>3. Mirrors(i)'
        BY <4>2, ShownNext
      <4>4. Awaited(i)' = {} /\ \A c \in Callback : ~On(c, i)'
        BY <2>1, <2>2 DEF Awaited, On
      <4>5. QED
        BY <4>3, <4>4 DEF CallbackAt
    <3>3. QED
      BY <3>1, <3>2 DEF Orderly, CallbackInv
  <2>5. QED
    BY <2>3, <2>4 DEF MirrorInv
<1>4. QED
  BY <1>1, <1>2, <1>3 DEF Starting

(* removedevice_byid takes the device away or fails, and leaves the others.*)
LEMMA RemovedContent ==
  ASSUME IInv, phase = "running", NEW i \in Id, removedevice_byid(i)
  PROVE  /\ crash' = "none" => map'.devices[i] = NULL
         /\ crash' = "none" => crash = "none"
         /\ \A j \in Id \ {i} : Kept(map, map', j)
         /\ Fewer(map, map')
<1>1. map \in MapType /\ Counted(map, holds, NULL) /\ Placed(map) /\ Named(map)
  BY DEF IInv, HeapOK, Life, Up, TypeOK, MapType
<1>2. CASE map.devices[i] = NULL
  <2>1. crash' = "removedevice_byid" /\ map' = map
    BY <1>2 DEF removedevice_byid
  <2>2. QED
    BY <2>1 DEF Kept, Like, Fewer
<1>3. CASE map.devices[i] # NULL
  <2>1. map' = remove_locked(map, map.devices[i]) /\ crash' = crash
    BY <1>3 DEF removedevice_byid
  <2>2. QED
    BY <1>1, <1>3, <2>1, RemoveContent
<1>4. QED
  BY <1>2, <1>3

(* The callback handler of one thread.                                     *)
LEMMA HandlerMirror ==
  ASSUME IInv, MirrorInv, NEW c \in Callback, Handler(c)
  PROVE  MirrorInv'
<1> USE DevMapAssumptions
<1>1. ASSUME NEW n \in pending, CallbackFetch(c, n)
      PROVE  MirrorInv'
  <2> DEFINE i == n.id
  <2>1. /\ phase = "running" /\ crash = "none" /\ cb[c] = NULL /\ n.method # "DELETE"
        /\ pending' = pending \ {n}
        /\ cb' = IF IsDevice(meta[i])
                 THEN [cb EXCEPT ![c] = [id |-> i, dev |-> meta[i]]] ELSE cb
        /\ raced' = (raced \/ Busy(i))
        /\ UNCHANGED <<map, meta, phase, devs, crash>>
    BY <1>1 DEF CallbackFetch, Alive, life
  <2>2. /\ i \in Id /\ raced \in BOOLEAN
        /\ IsDevice(meta[i]) => meta[i] \in MetaDevice
        /\ cb \in [Callback -> [id : Id, dev : MetaDevice] \cup {NULL}]
    BY DEF IInv, TypeOK, IsDevice
  <2>3. /\ IsDevice(meta[i]) => cb'[c].id = i /\ cb'[c].dev = meta[i] /\ cb'[c] # NULL
        /\ ~IsDevice(meta[i]) => cb'[c] = NULL
        /\ \A d \in Callback \ {c} : cb'[d] = cb[d]
    <3>1. IsDevice(meta[i]) => [id |-> i, dev |-> meta[i]] \in [id : Id, dev : MetaDevice]
      BY <2>2
    <3>2. QED
      BY <2>1, <2>2, <3>1
  <2>4. MetaInv'
    BY <2>1 DEF MirrorInv, MetaInv, IsDevice
  <2> HIDE DEF i
  <2>5. ASSUME raced' = FALSE
        PROVE  Orderly'
    <3>1. Orderly /\ ~Busy(i)
      BY <2>1, <2>2, <2>5 DEF MirrorInv
    <3>2. \A d \in Callback : cb[d] # NULL => cb[d].id # i
      BY <3>1 DEF Busy
    <3>3. OneEach'
      BY <2>1, <2>3, <3>1, <3>2 DEF Orderly, OneEach
    <3>4. ASSUME NEW j \in Id, CallbackAt(j)
          PROVE  CallbackAt(j)'
      <4>1. CASE j # i
        <5>1. Awaited(j)' = Awaited(j)
          BY <2>1, <4>1 DEF Awaited, i
        <5>2. Kept(map, map', j)
          BY <2>1 DEF Kept, Like
        <5>3. \A d \in Callback : cb'[d] = cb[d] \/ ~(On(d, j) \/ On(d, j)')
          BY <2>1, <2>3, <4>1 DEF On
        <5>4. QED
          BY <2>1, <3>4, <5>1, <5>2, <5>3, Untouched
      <4>2. CASE j = i
        <5>1. n \in Awaited(i) /\ Awaited(i)' = Awaited(i) \ {n}
          BY <2>1 DEF Awaited, i
        <5>2. \A d \in Callback : On(d, i)' => d = c /\ cb'[c].dev = meta[i] /\ IsDevice(meta[i])
          BY <2>1, <2>3, <3>2 DEF On
        <5>3. Busy(i)' <=> IsDevice(meta[i])
          BY <2>3, <3>2 DEF Busy
        <5>4. ~IsDevice(meta[i]) => meta[i] = Deleted
          BY <2>4, <2>1 DEF MirrorInv, MetaInv, IsDevice, i
        <5>5. meta[i] = Deleted => \/ \E e \in Awaited(i)' : e.method = "DELETE"
                                   \/ map'.devices[i] = NULL
          BY <2>1, <3>4, <4>2, <5>1 DEF CallbackAt
        <5>6. ASSUME Awaited(i)' = {}, ~Busy(i)'
              PROVE  Mirrors(i)'
          <6>1. meta[i] = Deleted /\ map'.devices[i] = NULL
            BY <5>3, <5>4, <5>5, <5>6
          <6>2. QED
            BY <2>1, <6>1 DEF Mirrors, IsDevice
        <5>7. \A d \in Callback : On(d, i)' => Agrees(cb[d].dev, i)'
          BY <2>1, <2>2, <5>2 DEF Agrees, Ours, MetaDevice, IsDevice
        <5>8. meta[i] = Deleted => ~Busy(i)'
          BY <5>3 DEF IsDevice
        <5>9. QED
          BY <2>1, <4>2, <5>5, <5>6, <5>7, <5>8 DEF CallbackAt
      <4>3. QED
        BY <4>1, <4>2
    <3>5. QED
      BY <2>1, <3>1, <3>3, <3>4 DEF Orderly, FillInv, CallbackInv
  <2>6. QED
    BY <2>4, <2>5 DEF MirrorInv
<1>2. ASSUME NEW n \in pending, CallbackDelete(c, n)
      PROVE  MirrorInv'
  <2> DEFINE i == n.id
  <2>1. /\ phase = "running" /\ crash = "none" /\ n.method = "DELETE"
        /\ pending' = pending \ {n} /\ removedevice_byid(i)
        /\ raced' = (raced \/ Busy(i))
        /\ UNCHANGED <<cb, meta, phase, devs>>
    BY <1>2 DEF CallbackDelete, Alive, life
  <2>2. i \in Id /\ raced \in BOOLEAN
    BY DEF IInv, TypeOK
  <2>3. MetaInv' /\ meta[i] = Deleted
    BY <2>1 DEF MirrorInv, MetaInv, IsDevice
  <2>4. /\ crash' = "none" => map'.devices[i] = NULL
        /\ \A j \in Id \ {i} : Kept(map, map', j)
    BY <2>1, <2>2, RemovedContent
  <2> HIDE DEF i
  <2>5. ASSUME raced' = FALSE
        PROVE  Orderly'
    <3>1. Orderly /\ ~Busy(i) /\ ~Busy(i)'
      BY <2>1, <2>2, <2>5 DEF MirrorInv, Busy
    <3>2. ASSUME NEW j \in Id, CallbackAt(j), crash' = "none"
          PROVE  CallbackAt(j)'
      <4>1. CASE j # i
        <5>1. Awaited(j)' = Awaited(j)
          BY <2>1, <4>1 DEF Awaited, i
        <5>2. QED
          BY <2>1, <2>4, <3>2, <4>1, <5>1, Untouched
      <4>2. CASE j = i
        <5>1. map'.devices[i] = NULL
          BY <2>4, <3>2
        <5>2. Mirrors(i)'
          BY <2>1, <2>3, <5>1 DEF Mirrors, IsDevice
        <5>3. \A d \in Callback : ~On(d, i)'
          BY <3>1 DEF Busy, On
        <5>4. QED
          BY <3>1, <4>2, <5>1, <5>2, <5>3 DEF CallbackAt
      <4>3. QED
        BY <4>1, <4>2
    <3>3. OneEach' /\ FillInv'
      BY <2>1, <3>1 DEF Orderly, OneEach, FillInv
    <3>4. CallbackInv'
      BY <2>1, <3>1, <3>2 DEF Orderly, CallbackInv
    <3>5. QED
      BY <3>3, <3>4 DEF Orderly
  <2>6. QED
    BY <2>3, <2>5 DEF MirrorInv
<1>3. CASE CallbackApply(c)
  <2> PICK i \in Id, dev \in MetaDevice : cb[c] # NULL /\ i = cb[c].id /\ dev = cb[c].dev
    BY <1>3 DEF CallbackApply, IInv, TypeOK
  <2>1. /\ crash = "none" /\ cb' = [cb EXCEPT ![c] = NULL]
        /\ IF dev.ours THEN map' \in replace_device(map, i, dev) /\ UNCHANGED crash
                       ELSE removedevice_byid(i)
        /\ UNCHANGED <<meta, pending, phase, devs, raced>>
    BY <1>3 DEF CallbackApply, Alive, core, life
  <2>2. map \in MapType /\ cb \in [Callback -> [id : Id, dev : MetaDevice] \cup {NULL}]
    BY DEF IInv, TypeOK, MapType
  <2>3. phase = "running" /\ Counted(map, holds, NULL) /\ Placed(map) /\ Named(map)
    BY DEF IInv, HeapOK, Life, Up
  <2>4. cb'[c] = NULL /\ \A d \in Callback \ {c} : cb'[d] = cb[d]
    BY <2>1, <2>2
  <2>5. dev.ours => Shows(map', i, dev) /\ \A j \in Id \ {i} : Kept(map, map', j)
    BY <2>1, <2>2, <2>3, ReplaceContent
  <2>6. ~dev.ours => /\ crash' = "none" => map'.devices[i] = NULL
                     /\ \A j \in Id \ {i} : Kept(map, map', j)
    BY <2>1, <2>2, <2>3, RemovedContent
  <2>7. MetaInv'
    BY <2>1 DEF MirrorInv, MetaInv, IsDevice
  <2>8. ASSUME raced' = FALSE
        PROVE  Orderly'
    <3>1. Orderly
      BY <2>1, <2>8 DEF MirrorInv
    <3>2. ASSUME NEW j \in Id, CallbackAt(j), crash' = "none"
          PROVE  CallbackAt(j)'
      <4>1. CASE j # i
        <5>1. Awaited(j)' = Awaited(j)
          BY <2>1 DEF Awaited
        <5>2. \A d \in Callback : cb'[d] = cb[d] \/ ~(On(d, j) \/ On(d, j)')
          BY <2>4, <4>1 DEF On
        <5>3. QED
          BY <2>1, <2>5, <2>6, <3>2, <4>1, <5>1, <5>2, Untouched
      <4>2. CASE j = i
        <5>1. \A d \in Callback : ~On(d, i)'
          BY <2>1, <2>4, <3>1 DEF On, Orderly, OneEach
        <5>2. ~Busy(i)'
          BY <5>1 DEF Busy, On
        <5>3. Busy(i) /\ On(c, i)
          BY DEF Busy, On
        <5>4. Awaited(i)' = Awaited(i)
          BY <2>1 DEF Awaited
        <5>5. ASSUME Awaited(i) = {}
              PROVE  Mirrors(i)'
          <6>1. Agrees(dev, i)
            BY <3>2, <4>2, <5>3, <5>5 DEF CallbackAt
          <6>2. IF Ours(i)' THEN Shows(map', i, meta'[i]) ELSE map'.devices[i] = NULL
            BY <2>1, <2>5, <2>6, <3>2, <6>1 DEF Agrees, Ours
          <6>3. QED
            BY <6>2, ShownNext
        <5>6. meta'[i] = Deleted /\ Awaited(i)' # {} => \E e \in Awaited(i)' : e.method = "DELETE"
          BY <2>1, <3>2, <4>2, <5>3, <5>4 DEF CallbackAt
        <5>7. QED
          BY <4>2, <5>1, <5>2, <5>4, <5>5, <5>6 DEF CallbackAt
      <4>3. QED
        BY <4>1, <4>2
    <3>3. OneEach' /\ FillInv'
      BY <2>1, <2>3, <2>4, <3>1 DEF Orderly, OneEach, FillInv
    <3>4. CallbackInv'
      BY <2>1, <3>1, <3>2 DEF Orderly, CallbackInv
    <3>5. QED
      BY <3>3, <3>4 DEF Orderly
  <2>9. QED
    BY <2>7, <2>8 DEF MirrorInv
<1>4. QED
  BY <1>1, <1>2, <1>3 DEF Handler

(* Threads that look devices up, copy and release them: they change the    *)
(* counts of structs and free some.                                        *)
LEMMA ReaderContent ==
  ASSUME IInv, NEW t \in Reader, LookUp(t) \/ Copy(t) \/ ReleaseAny(t)
  PROVE  /\ UNCHANGED <<meta, pending, cb, phase, devs, clearing, raced, refetched>>
         /\ crash' = "none" => crash = "none"
         /\ Fewer(map, map') /\ map'.devices = map.devices
<1> USE DevMapAssumptions
<1>1. map \in MapType /\ holds \in [Reader -> SUBSET Obj]
  BY DEF IInv, TypeOK, MapType
<1>2. ASSUME NEW O \in SUBSET Obj, Found(t, O), CanLookUp(t), lookupUnchanged
      PROVE  /\ UNCHANGED <<meta, pending, cb, phase, devs, clearing, raced, refetched>>
             /\ crash' = "none" => crash = "none"
             /\ Fewer(map, map') /\ map'.devices = map.devices
  <2>1. UNCHANGED <<meta, pending, cb, phase, devs, clearing, raced, refetched>>
    BY <1>2 DEF lookupUnchanged, core, profs, life
  <2>2. crash = "none"
    BY <1>2 DEF CanLookUp, Alive
  <2>3. CASE \E o \in O : map.heap[o] = NULL
    BY <1>2, <2>1, <2>2, <2>3 DEF Found, Fewer, Like
  <2>4. CASE \A o \in O : map.heap[o] # NULL
    <3>1. map' = Ref(map, O)
      BY <1>2, <2>4 DEF Found
    <3>2. Fewer(map, map') /\ map'.devices = map.devices
      BY <1>1, <2>4, <3>1, RefFewer, RefFields
    <3>3. QED
      BY <2>1, <2>2, <3>2
  <2>5. QED
    BY <2>3, <2>4
<1>3. ASSUME CanLookUp(t), map' = map, lookupUnchanged
      PROVE  /\ UNCHANGED <<meta, pending, cb, phase, devs, clearing, raced, refetched>>
             /\ crash' = "none" => crash = "none"
             /\ Fewer(map, map') /\ map'.devices = map.devices
  BY <1>3 DEF lookupUnchanged, core, profs, life, Fewer, Like, CanLookUp, Alive
<1>4. ASSUME NEW i \in Id, device_byid(t, i)
      PROVE  \E O \in SUBSET Obj : Found(t, O) /\ CanLookUp(t) /\ lookupUnchanged
  <2>1. {map.devices[i]} \in SUBSET Obj
    BY <1>1, <1>4 DEF device_byid, MapType
  <2>2. QED
    BY <1>4, <2>1 DEF device_byid
<1>5. ASSUME NEW n \in Name, device_byname(t, n)
      PROVE  /\ CanLookUp(t) /\ lookupUnchanged
             /\ map' = map \/ \E O \in SUBSET Obj : Found(t, O)
  <2> DEFINE s == map.name_to_id[n]
             o == map.devices[map.heap[s].id]
             bad == map.heap[s] = NULL \/ o = NULL
  <2>1. /\ CanLookUp(t) /\ s # NULL /\ lookupUnchanged
        /\ IF bad THEN crash' = "lookup" /\ UNCHANGED <<map, holds>> ELSE Found(t, {o})
    BY <1>5 DEF device_byname
  <2>2. ~bad => o \in Obj
    BY <1>1, <2>1 DEF MapType, Device
  <2> HIDE DEF o, bad
  <2>3. QED
    BY <2>1, <2>2
<1>6. ASSUME NEW p \in Profile, device_forcmd(t, p)
      PROVE  \E O \in SUBSET Obj : Found(t, O) /\ CanLookUp(t) /\ lookupUnchanged
  <2> DEFINE O == {o \in Obj : \E i \in Id : /\ map.devices[i] = o
                                             /\ map.heap[o].enabled /\ map.heap[o].prof = p}
  <2>1. CanLookUp(t) /\ Found(t, O) /\ lookupUnchanged
    BY <1>6 DEF device_forcmd
  <2>2. O \in SUBSET Obj
    OBVIOUS
  <2> HIDE DEF O
  <2>3. QED
    BY <2>1, <2>2
<1>7. ASSUME LookUpFreed(t)
      PROVE  CanLookUp(t) /\ map' = map /\ lookupUnchanged
  BY <1>7 DEF LookUpFreed
<1>8. CASE LookUp(t)
  BY <1>2, <1>3, <1>4, <1>5, <1>6, <1>7, <1>8 DEF LookUp
<1>9. CASE Copy(t)
  BY <1>9 DEF Copy, StartCopy, core, profs, life, Fewer, Like
<1>10. ASSUME NEW o \in holds[t], Release(t, o)
       PROVE  /\ UNCHANGED <<meta, pending, cb, phase, devs, clearing, raced, refetched>>
              /\ crash' = "none" => crash = "none"
              /\ Fewer(map, map') /\ map'.devices = map.devices
  <2>1. /\ map' = release(map, o)
        /\ UNCHANGED <<meta, pending, cb, phase, devs, clearing, raced, refetched, crash>>
    BY <1>10 DEF Release, core, profs, life
  <2>2. o \in Obj /\ t \in HoldersOf(holds, o)
    BY <1>1 DEF HoldersOf
  <2>3. map.heap[o] # NULL
    BY <2>2 DEF IInv, HeapOK, Counted, CountedAt
  <2>4. Fewer(map, map') /\ map'.devices = map.devices
    BY <1>1, <2>1, <2>2, <2>3, ReleaseFewer, ReleaseFields
  <2>5. QED
    BY <2>1, <2>4
<1>11. QED
  BY <1>8, <1>9, <1>10 DEF ReleaseAny

LEMMA ReaderMirror ==
  ASSUME IInv, IInv', MirrorInv, NEW t \in Reader, LookUp(t) \/ Copy(t) \/ ReleaseAny(t)
  PROVE  MirrorInv'
<1>1. /\ UNCHANGED <<meta, pending, cb, phase, devs, clearing, raced>>
      /\ crash' = "none" => crash = "none"
      /\ Fewer(map, map') /\ map'.devices = map.devices
  BY ReaderContent
<1>2. map \in MapType /\ map' \in MapType
  BY DEF IInv, TypeOK, MapType
<1>3. ASSUME phase \in Up
      PROVE  \A i \in Id : Kept(map, map', i)
  <2>1. Counted(map', holds', NULL)
    BY <1>1, <1>3 DEF IInv, HeapOK, Life
  <2>2. QED
    BY <1>1, <1>2, <2>1, FewerKept
<1>4. QED
  BY <1>1, <1>3, Aside

(* A profile that a thread adds is no business of the devices.             *)
LEMMA ProfileContent ==
  ASSUME IInv, NEW p \in Profile, MissProfile(p) \/ AddProfile(p)
  PROVE  /\ UNCHANGED <<meta, pending, cb, phase, devs, clearing, raced, crash>>
         /\ map'.heap = map.heap /\ map'.devices = map.devices
         /\ Shared(map, refetched) => Shared(map', refetched')
<1>1. map \in MapType
  BY DEF IInv, TypeOK, MapType
<1>2. CASE MissProfile(p)
  BY <1>2 DEF MissProfile, core, life
<1>3. CASE AddProfile(p)
  <2>1. /\ UNCHANGED <<meta, pending, cb, phase, devs, clearing, raced, crash>>
        /\ refetched' = IF map.profiles[p] = 0 THEN refetched ELSE refetched \cup {p}
        /\ map' = [map EXCEPT !.profiles[p] = map.structs + 1, !.structs = @ + 1]
    BY <1>3 DEF AddProfile, core, life
  <2>2. /\ map'.heap = map.heap /\ map'.devices = map.devices
        /\ \A q \in Profile \ {p} : map'.profiles[q] = map.profiles[q]
    BY <1>1, <2>1 DEF MapType
  <2>3. ASSUME Shared(map, refetched), NEW o \in Obj, map.heap[o] # NULL,
               map.heap[o].prof \notin refetched'
        PROVE  map.heap[o].ptr = map'.profiles[map.heap[o].prof]
    <3>1. map.heap[o].prof \in Profile /\ map.heap[o].ptr # 0
      BY <1>1, <2>3 DEF MapType, Device
    <3>2. map.heap[o].ptr = map.profiles[map.heap[o].prof]
      BY <2>1, <2>3 DEF Shared
    <3>3. map.heap[o].prof # p
      BY <2>1, <2>3, <3>1, <3>2
    <3>4. QED
      BY <2>2, <3>1, <3>2, <3>3
  <2>4. QED
    BY <2>1, <2>2, <2>3 DEF Shared
<1>4. QED
  BY <1>2, <1>3

(* When the service stops, callbacks and what they awaited are over.       *)
LEMMA StoppingMirror ==
  ASSUME IInv, MirrorInv, Stopping
  PROVE  MirrorInv'
<1>1. /\ phase' \notin {"starting", "running"} /\ pending' = {}
      /\ UNCHANGED <<meta, cb, raced>>
  <2>1. CASE Stop
    BY <2>1 DEF Stop
  <2>2. ASSUME NEW i \in Id, ClearRelease(i) \/ ClearRemove(i)
        PROVE  phase \notin Up /\ UNCHANGED <<meta, cb, raced, phase, pending>>
    BY <2>2 DEF ClearRelease, ClearRemove, core, Up, IInv, Life
  <2>3. CASE Stopped \/ ServiceFree
    BY <2>3 DEF Stopped, ServiceFree, core, MirrorInv, MetaInv
  <2>4. QED
    BY <2>1, <2>2, <2>3 DEF Stopping, Up, MirrorInv, MetaInv
<1>2. MetaInv'
  BY <1>1 DEF MirrorInv, MetaInv, IsDevice
<1>3. raced' = FALSE => Orderly'
  BY <1>1 DEF MirrorInv, Orderly, OneEach, FillInv, CallbackInv
<1>4. QED
  BY <1>2, <1>3 DEF MirrorInv

(* Every step preserves the invariant.                                     *)
LEMMA MirrorInductive == IInv /\ MirrorInv /\ [Next]_vars => MirrorInv'
<1> SUFFICES ASSUME IInv, MirrorInv, [Next]_vars
             PROVE  MirrorInv'
  OBVIOUS
<1>1. IInv'
  BY Inductive
<1>2. CASE UNCHANGED vars
  <2>1. UNCHANGED <<map, meta, pending, cb, phase, devs, raced, crash>>
    BY <1>2 DEF vars, core, life
  <2>2. \A i \in Id : Kept(map, map', i)
    BY <2>1 DEF Kept, Like
  <2>3. QED
    BY <2>1, <2>2, Aside
<1>3. ASSUME NEW p \in Profile, MissProfile(p) \/ AddProfile(p)
      PROVE  MirrorInv'
  <2>1. /\ UNCHANGED <<meta, pending, cb, phase, devs, raced, crash>>
        /\ map'.heap = map.heap /\ map'.devices = map.devices
    BY <1>3, ProfileContent
  <2>2. \A i \in Id : Kept(map, map', i)
    BY <2>1 DEF Kept, Like
  <2>3. QED
    BY <2>1, <2>2, Aside
<1>4. CASE Next
  BY <1>1, <1>3, <1>4, MetadataMirror, StartingMirror, StoppingMirror, HandlerMirror,
     ReaderMirror DEF Next
<1>5. QED
  BY <1>2, <1>4

(* The profiles, too.                                                      *)
LEMMA SharedInductive ==
  IInv /\ Shared(map, refetched) /\ [Next]_vars => Shared(map, refetched)'
<1> SUFFICES ASSUME IInv, Shared(map, refetched), [Next]_vars
             PROVE  Shared(map', refetched')
  BY DEF Shared
<1>1. map \in MapType
  BY DEF IInv, TypeOK, MapType
<1>2. ASSUME UNCHANGED <<map, refetched>>
      PROVE  Shared(map', refetched')
  BY <1>2 DEF Shared
<1>3. CASE Metadata \/ UNCHANGED vars
  <2>1. ASSUME NEW i \in Id, NEW r, NEW method, Change(i, r, method)
        PROVE  UNCHANGED <<map, refetched>>
    BY <2>1 DEF Change, profs
  <2>2. Metadata => UNCHANGED <<map, refetched>>
    BY <2>1 DEF Metadata, MetaAdd, MetaUpdate, MetaDelete
  <2>3. UNCHANGED vars => UNCHANGED <<map, refetched>>
    BY DEF vars, profs
  <2>4. QED
    BY <1>2, <1>3, <2>2, <2>3
<1>4. CASE Starting
  <2>1. CASE ReadDevices \/ StartServer
    BY <1>2, <2>1 DEF ReadDevices, StartServer, profs
  <2>2. ASSUME NEW d \in devs, Populate(d)
        PROVE  Shared(map', refetched')
    <3>1. refetched' = refetched /\ phase = "starting"
      BY <2>2 DEF Populate, profs
    <3>2. d.id \in Id /\ d.dev \in MetaDevice
      BY DEF IInv, TypeOK
    <3>3. Counted(map, holds, NULL)
      BY <3>1 DEF IInv, HeapOK, Life, Up
    <3>4. ASSUME NEW o \in Free(map), map' = add_locked(map, d.id, d.dev, o)
          PROVE  Shared(map', refetched')
      BY <1>1, <3>1, <3>2, <3>3, <3>4, AddContent
    <3>5. QED
      BY <1>2, <2>2, <3>1, <3>4 DEF Populate
  <2>3. QED
    BY <1>4, <2>1, <2>2 DEF Starting
<1>5. ASSUME NEW c \in Callback, Handler(c)
      PROVE  Shared(map', refetched')
  <2>1. refetched' = refetched
    BY <1>5 DEF Handler, CallbackFetch, CallbackDelete, CallbackApply, profs
  <2>2. ASSUME NEW n \in pending, CallbackFetch(c, n)
        PROVE  Shared(map', refetched')
    BY <1>2, <2>1, <2>2 DEF CallbackFetch
  <2>3. ASSUME NEW i \in Id, phase = "running", removedevice_byid(i)
        PROVE  Shared(map', refetched')
    BY <2>1, <2>3, RemovedContent, FewerShared
  <2>4. ASSUME NEW n \in pending, CallbackDelete(c, n)
        PROVE  Shared(map', refetched')
    BY <2>3, <2>4 DEF CallbackDelete, IInv, TypeOK
  <2>5. CASE CallbackApply(c)
    <3>1. /\ cb[c] # NULL
          /\ IF cb[c].dev.ours THEN map' \in replace_device(map, cb[c].id, cb[c].dev)
                               ELSE removedevice_byid(cb[c].id)
      BY <2>5 DEF CallbackApply
    <3>2. cb[c].id \in Id /\ cb[c].dev \in MetaDevice
      BY <3>1 DEF IInv, TypeOK
    <3>3. phase = "running" /\ Counted(map, holds, NULL) /\ Placed(map) /\ Named(map)
      BY <3>1 DEF IInv, HeapOK, Life, Up
    <3>4. CASE cb[c].dev.ours
      BY <1>1, <2>1, <3>1, <3>2, <3>3, <3>4, ReplaceContent
    <3>5. CASE ~cb[c].dev.ours
      BY <2>3, <3>1, <3>2, <3>3, <3>5
    <3>6. QED
      BY <3>4, <3>5
  <2>6. QED
    BY <1>5, <2>2, <2>4, <2>5 DEF Handler
<1>6. ASSUME NEW t \in Reader, LookUp(t) \/ Copy(t) \/ ReleaseAny(t)
      PROVE  Shared(map', refetched')
  BY <1>6, ReaderContent, FewerShared
<1>7. ASSUME NEW p \in Profile, MissProfile(p) \/ AddProfile(p)
      PROVE  Shared(map', refetched')
  BY <1>7, ProfileContent
<1>8. CASE Stopping
  <2>1. refetched' = refetched
    BY <1>8 DEF Stopping, Stop, ClearRelease, ClearRemove, Stopped, ServiceFree, profs
  <2>2. CASE Stop \/ Stopped \/ ServiceFree
    BY <1>2, <2>1, <2>2 DEF Stop, Stopped, ServiceFree
  <2>3. ASSUME NEW i \in Id, ClearRelease(i)
        PROVE  Shared(map', refetched')
    <3>1. map.devices[i] # NULL /\ clearing = NULL /\ map' = release(map, map.devices[i])
      BY <2>3 DEF ClearRelease
    <3>2. map.devices[i] \in Obj /\ InMapOf(map, clearing, map.devices[i])
      BY <1>1, <3>1 DEF MapType, InMapOf
    <3>3. map.heap[map.devices[i]] # NULL
      BY <3>2 DEF IInv, HeapOK, Counted, CountedAt
    <3>4. QED
      BY <1>1, <2>1, <3>1, <3>2, <3>3, ReleaseFewer, FewerShared
  <2>4. ASSUME NEW i \in Id, ClearRemove(i)
        PROVE  Shared(map', refetched')
    <3>1. map'.heap = map.heap /\ map'.profiles = map.profiles
      BY <1>1, <2>4 DEF ClearRemove, MapType
    <3>2. QED
      BY <2>1, <3>1 DEF Shared
  <2>5. QED
    BY <1>8, <2>2, <2>3, <2>4 DEF Stopping
<1>9. QED
  BY <1>3, <1>4, <1>5, <1>6, <1>7, <1>8 DEF Next

(* Both hold in every state of every behaviour.                            *)
LEMMA ContentInitially == Init => MirrorInv /\ Shared(map, refetched)
<1> SUFFICES ASSUME Init PROVE MirrorInv /\ Shared(map, refetched)
  OBVIOUS
<1>1. /\ \A o \in Obj : map.heap[o] = NULL
      /\ \A i \in Id : meta[i] = NULL
      /\ \A c \in Callback : cb[c] = NULL
      /\ pending = {} /\ phase = "new"
  BY DEF Init, EmptyMap
<1>2. MetaInv /\ Orderly
  BY <1>1 DEF MetaInv, IsDevice, Orderly, OneEach, FillInv, CallbackInv
<1>3. QED
  BY <1>1, <1>2 DEF MirrorInv, Shared

LEMMA ContentInvariance ==
  SafetySpec => [](IInv /\ MirrorInv /\ Shared(map, refetched))
<1>1. Init => IInv /\ MirrorInv /\ Shared(map, refetched)
  BY Initially, ContentInitially
<1>2. /\ IInv /\ MirrorInv /\ Shared(map, refetched) /\ [Next]_vars
      => (IInv /\ MirrorInv /\ Shared(map, refetched))'
  BY Inductive, MirrorInductive, SharedInductive
<1>3. QED
  BY <1>1, <1>2, PTL DEF SafetySpec

----------------------------------------------------------------------------
(* The theorems                                                            *)

(* However many threads handle callbacks, in whatever order: once all are  *)
(* handled the map shows what core-metadata has, unless a change fell into *)
(* the start, two callbacks for one device overlapped, or a device given   *)
(* to another service changed again before its callback was handled.       *)
THEOREM MapMirrors == SafetySpec => []MirrorsMetadataUnlessRaced
<1>1. IInv /\ MirrorInv => MirrorsMetadataUnlessRaced
  <2> SUFFICES ASSUME IInv, MirrorInv, Quiet, ~raced, NEW i \in Id
               PROVE  Mirrors(i)
    BY DEF MirrorsMetadataUnlessRaced
  <2>1. phase = "running" /\ crash = "none" /\ pending = {} /\ \A c \in Callback : cb[c] = NULL
    BY DEF Quiet
  <2>2. raced = FALSE
    BY DEF IInv, TypeOK
  <2>3. CallbackAt(i)
    BY <2>1, <2>2 DEF MirrorInv, Orderly, CallbackInv
  <2>4. Awaited(i) = {} /\ ~Busy(i)
    BY <2>1 DEF Awaited, Busy
  <2>5. QED
    BY <2>3, <2>4 DEF CallbackAt
<1>2. QED
  BY <1>1, ContentInvariance, PTL

(* The devices of the map, and those that were removed and are still in    *)
(* use, share the profile structs of the profile map, except for a profile *)
(* that edgex_deviceprofile_get fetched while a device brought it along.   *)
THEOREM ProfilesShared == SafetySpec => []ProfilesSharedUnlessRefetched
<1>1. Shared(map, refetched) => ProfilesSharedUnlessRefetched
  BY DEF Shared, ProfilesSharedUnlessRefetched
<1>2. QED
  BY <1>1, ContentInvariance, PTL
=============================================================================
