------------------------------- MODULE Memory -------------------------------
(***************************************************************************)
(* Who frees what: the structures of devices and profiles that the device  *)
(* map, the callbacks, lookups in progress and the application own, and    *)
(* the blocks of memory that they consist of.                              *)
(*                                                                         *)
(* A block is named by the path of fields that leads to it from its        *)
(* structure, a list by one of its elements.  For each structure of        *)
(* edgex.h there are the blocks that it should have, those that its dup    *)
(* function allocates, and those that its free function frees.             *)
(***************************************************************************)
EXTENDS Null, Integers, Sequences, SequencesExt, FiniteSets, FiniteSetsExt, TLC

CONSTANTS
  DeviceId,     \* the devices, each with the one name it has here
  ProfilesOf,   \* ProfilesOf[d]: the profiles that d may have
  MaxStructs,   \* bound: structures that are there at a time, without
  MaxCopied,    \* bound: those that copies for the application add to them
  Fetcher       \* threads that ask for a profile

ASSUME MemoryAssumption == MaxStructs \in Nat /\ MaxCopied \in Nat

VARIABLES
  mem,          \* [inst, misuse, devices, profiles]: the structures there are,
                \* whether one was freed twice, and edgex_devmap_t
  holders,      \* the devices that a lookup has returned and not released
  newdev,       \* the device that a callback has fetched, or NULL
  copies,       \* the lists that the application has been given
  fetched,      \* fetched[t]: the profile that t has fetched, or NULL
  lost,         \* history: profiles that another of their name has replaced
  stage         \* "up", "cleared" or "freed"

memVars == <<mem, holders, newdev, copies, fetched, lost, stage>>

Self == {<<>>}
Each(fields) == {<<f>> : f \in fields}
In(field, blocks) == {<<field>> \o b : b \in blocks}

----------------------------------------------------------------------------
(* The structures: blocks that each has                                    *)

edgex_strings == Self \cup Each({"str"})
edgex_nvpairs == Self \cup Each({"name", "value"})
edgex_protocols == Self \cup Each({"name"}) \cup In("properties", edgex_nvpairs)

edgex_addressable ==
  Self \cup Each({"address", "id", "method", "name", "password", "path", "protocol",
                  "publisher", "topic", "user"})

edgex_deviceservice ==
  Self \cup Each({"description", "id", "name"})
    \cup In("labels", edgex_strings) \cup In("addressable", edgex_addressable)

edgex_resourceoperation ==
  Self \cup Each({"index", "operation", "object", "property", "parameter", "resource"})
    \cup In("secondary", edgex_strings) \cup In("mappings", edgex_nvpairs)

edgex_propertyvalue ==
  Self \cup Each({"minimum", "maximum", "defaultvalue", "lsb", "assertion", "precision", "mediaType"})

edgex_units == Self \cup Each({"type", "readwrite", "defaultvalue"})

edgex_profileproperty ==
  Self \cup In("value", edgex_propertyvalue) \cup In("units", edgex_units)

edgex_deviceresource ==
  Self \cup Each({"description", "name", "tag"})
    \cup In("properties", edgex_profileproperty) \cup In("attributes", edgex_nvpairs)

edgex_devicecommand ==
  Self \cup Each({"name"})
    \cup In("set", edgex_resourceoperation) \cup In("get", edgex_resourceoperation)

edgex_cmdinfo == Self \cup Each({"reqs", "pvals", "maps"})

(* The command list, which points into the profile, is built later. *)
edgex_deviceprofile ==
  Self \cup Each({"id", "name", "description", "manufacturer", "model"})
    \cup In("labels", edgex_strings) \cup In("device_resources", edgex_deviceresource)
    \cup In("device_commands", edgex_devicecommand)

edgex_device_autoevents == Self \cup Each({"resource", "frequency"})

(* Without the profile, which other devices may share. *)
edgex_device ==
  Self \cup Each({"description", "id", "name"})
    \cup In("protocols", edgex_protocols) \cup In("labels", edgex_strings)
    \cup In("autos", edgex_device_autoevents) \cup In("service", edgex_deviceservice)

----------------------------------------------------------------------------
(* The blocks that the copying functions allocate                          *)

edgex_strings_dup_ == Self \cup Each({"str"})
edgex_nvpairs_dup_ == Self \cup Each({"name", "value"})
edgex_protocols_dup_ == Self \cup Each({"name"}) \cup In("properties", edgex_nvpairs_dup_)

edgex_addressable_dup_ ==
  Self \cup Each({"name", "id", "address", "method", "path", "protocol", "user", "password",
                  "topic", "publisher"})

edgex_deviceservice_dup_ ==
  Self \cup Each({"name", "id", "description"})
    \cup In("labels", edgex_strings_dup_) \cup In("addressable", edgex_addressable_dup_)

resourceoperation_dup_ ==
  Self \cup Each({"index", "operation", "object", "property", "parameter", "resource"})
    \cup In("secondary", edgex_strings_dup_) \cup In("mappings", edgex_nvpairs_dup_)

propertyvalue_dup ==
  Self \cup Each({"minimum", "maximum", "defaultvalue", "lsb", "assertion", "precision", "mediaType"})

units_dup == Self \cup Each({"type", "readwrite", "defaultvalue"})
profileproperty_dup == Self \cup In("value", propertyvalue_dup) \cup In("units", units_dup)

edgex_deviceresource_dup_ ==
  Self \cup Each({"name", "description", "tag"})
    \cup In("properties", profileproperty_dup) \cup In("attributes", edgex_nvpairs_dup_)

devicecommand_dup_ ==
  Self \cup Each({"name"})
    \cup In("set", resourceoperation_dup_) \cup In("get", resourceoperation_dup_)

edgex_deviceprofile_dup_ ==
  Self \cup Each({"id", "name", "description", "manufacturer", "model"})
    \cup In("labels", edgex_strings_dup_) \cup In("device_resources", edgex_deviceresource_dup_)
    \cup In("device_commands", devicecommand_dup_)

infoForRes_ == In("cmdinfo", Self \cup Each({"reqs", "pvals", "maps"}))

autoevents_dup_ == Self \cup Each({"resource", "frequency"})

edgex_device_dup_ ==
  Self \cup Each({"name", "id", "description"})
    \cup In("labels", edgex_strings_dup_) \cup In("protocols", edgex_protocols_dup_)
    \cup In("autos", autoevents_dup_) \cup In("service", edgex_deviceservice_dup_)

----------------------------------------------------------------------------
(* The blocks that the freeing functions free                              *)

edgex_strings_free == Self \cup Each({"str"})
edgex_nvpairs_free == Self \cup Each({"name", "value"})
edgex_protocols_free == Self \cup Each({"name"}) \cup In("properties", edgex_nvpairs_free)

edgex_addressable_free ==
  Self \cup Each({"address", "id", "name", "method", "password", "path", "protocol",
                  "publisher", "topic", "user"})

edgex_deviceservice_free ==
  Self \cup Each({"description", "id", "name"})
    \cup In("addressable", edgex_addressable_free) \cup In("labels", edgex_strings_free)

resourceoperation_free ==
  Self \cup Each({"index", "operation", "object", "property", "parameter", "resource"})
    \cup In("secondary", edgex_strings_free) \cup In("mappings", edgex_nvpairs_free)

propertyvalue_free ==
  Self \cup Each({"minimum", "maximum", "defaultvalue", "lsb", "assertion", "precision", "mediaType"})

units_free == Self \cup Each({"type", "readwrite", "defaultvalue"})
profileproperty_free == Self \cup In("value", propertyvalue_free) \cup In("units", units_free)

deviceresource_free ==
  Self \cup Each({"name", "description", "tag"})
    \cup In("properties", profileproperty_free) \cup In("attributes", edgex_nvpairs_free)

devicecommand_free ==
  Self \cup Each({"name"})
    \cup In("set", resourceoperation_free) \cup In("get", resourceoperation_free)

cmdinfo_free == Self \cup Each({"reqs", "pvals", "maps"})

deviceprofile_blocks_free ==
  Self \cup Each({"id", "name", "description", "manufacturer", "model"})
    \cup In("labels", edgex_strings_free) \cup In("device_resources", deviceresource_free)
    \cup In("device_commands", devicecommand_free)

edgex_device_autoevents_free == Self \cup Each({"resource", "frequency"})

device_blocks_free ==
  Self \cup Each({"description", "id", "name"})
    \cup In("protocols", edgex_protocols_free) \cup In("autos", edgex_device_autoevents_free)
    \cup In("labels", edgex_strings_free) \cup In("service", edgex_deviceservice_free)

------------------------------------
(* The heap                                                                *)

Except(f, x) == [y \in DOMAIN f \ {x} |-> f[y]]

(* A structure has the name <<kind, device or profile, number>>, with the  *)
(* lowest number that is free.                                             *)
Fresh(s, kind, key) ==
  <<kind, key, Min({n \in 1..(MaxStructs + MaxCopied) : <<kind, key, n>> \notin DOMAIN s.inst})>>
Room(s, n) == Cardinality(DOMAIN s.inst) + n <= MaxStructs
RoomToCopy(s, n) == Room(s, n - MaxCopied)

Blocks(i, inst) ==
  IF i[1] = "device" THEN edgex_device
  ELSE edgex_deviceprofile \cup (IF inst.cmdinfo THEN In("cmdinfo", edgex_cmdinfo) ELSE {})

(* Of each structure are kept the blocks that it lacks.                    *)
Allocate(s, i, blocks, p) ==
  LET inst == [lacks |-> {}, profile |-> p, refs |-> 0, cmdinfo |-> FALSE]
  IN  [s EXCEPT !.inst = @ @@ (i :> [inst EXCEPT !.lacks = Blocks(i, inst) \ blocks])]

FreeBlocks(s, i, blocks) ==
  IF i \notin DOMAIN s.inst THEN [s EXCEPT !.misuse = TRUE]
  ELSE LET lacks == s.inst[i].lacks \cup blocks
           all == Blocks(i, s.inst[i])
       IN [s EXCEPT !.inst = IF lacks = all THEN Except(@, i) ELSE [@ EXCEPT ![i].lacks = lacks],
                    !.misuse = @ \/ blocks \cap s.inst[i].lacks # {} \/ ~ blocks \subseteq all]

edgex_deviceprofile_free(s, p) ==
  FreeBlocks(s, p, deviceprofile_blocks_free \cup
                     (IF p \in DOMAIN s.inst /\ s.inst[p].cmdinfo
                      THEN In("cmdinfo", cmdinfo_free) ELSE {}))

edgex_device_free(s, i) ==
  IF i \notin DOMAIN s.inst THEN [s EXCEPT !.misuse = TRUE]
  ELSE FreeBlocks(IF s.inst[i].profile = NULL THEN s
                  ELSE edgex_deviceprofile_free(s, s.inst[i].profile),
                  i, device_blocks_free)

NewProfile(s, n, blocks) == Allocate(s, Fresh(s, "profile", n), blocks, NULL)
NewDevice(s, d, n, dblocks, pblocks) ==
  Allocate(NewProfile(s, n, pblocks), Fresh(s, "device", d), dblocks, Fresh(s, "profile", n))

(* The copy of the device e has a profile of its own.                      *)
edgex_device_dup(s, e) == NewDevice(s, e[2], s.inst[e].profile[2], edgex_device_dup_, edgex_deviceprofile_dup_)

----------------------------------------------------------------------------
(* The device map                                                          *)

add_locked_(s, e) ==
  LET i == Fresh(s, "device", e[2])
      name == s.inst[e].profile[2]
      p == Fresh(s, "profile", name)
      dup == edgex_device_dup(s, e)
      shared == IF name \in DOMAIN s.profiles
                THEN [edgex_deviceprofile_free(dup, p) EXCEPT !.inst[i].profile = s.profiles[name]]
                ELSE [dup EXCEPT !.profiles = @ @@ (name :> p)]
  IN  [shared EXCEPT !.inst[i].refs = 1, !.devices = (e[2] :> i) @@ @]

(* Defective variant: the profile is freed with the device. *)
releaseWithProfile(s, i) ==
  IF s.inst[i].refs > 1 THEN [s EXCEPT !.inst[i].refs = @ - 1] ELSE edgex_device_free(s, i)

edgex_device_release(s, i) ==
  IF s.inst[i].refs > 1 THEN [s EXCEPT !.inst[i].refs = @ - 1]
  ELSE edgex_device_free([s EXCEPT !.inst[i].profile = NULL], i)

remove_locked_(s, d) ==
  edgex_device_release([s EXCEPT !.devices = Except(@, d)], s.devices[d])

update_in_place_(s, i) ==
  LET freed == FreeBlocks(s, i, Each({"description"}) \cup In("labels", edgex_strings_free))
  IN  [freed EXCEPT !.inst[i].lacks = @ \ (Each({"description"}) \cup In("labels", edgex_strings_dup_))]

(* The update is in place if the profile is the same and so is the rest.   *)
edgex_devmap_replace_device_(s, e, restequal) ==
  LET d == e[2] IN
  IF d \notin DOMAIN s.devices THEN add_locked_(s, e)
  ELSE IF restequal /\ s.inst[s.devices[d]].profile[2] = s.inst[e].profile[2]
  THEN update_in_place_(s, s.devices[d])
  ELSE add_locked_(remove_locked_(s, d), e)

edgex_devmap_populate_devices_(s, e) == IF e[2] \in DOMAIN s.devices THEN s ELSE add_locked_(s, e)

----------------------------------------------------------------------------
(* The callback and the start: a device is fetched, given to the map or    *)
(* taken out of it, and freed.                                             *)

edgex_metadata_client_get_device(d, n) ==
  /\ stage = "up" /\ newdev = NULL /\ Room(mem, 2)
  /\ newdev' = Fresh(mem, "device", d)
  /\ mem' = NewDevice(mem, d, n, edgex_device, edgex_deviceprofile)
  /\ UNCHANGED <<holders, copies, fetched, lost, stage>>

(* The three callers: the POST or PUT callback, the start, and the PUT     *)
(* callback for a device that has been given to another service.           *)
HandleDevice ==
  /\ newdev # NULL /\ Room(mem, 2)
  /\ mem' \in {edgex_device_free(s, newdev) :
                s \in {edgex_devmap_replace_device_(mem, newdev, restequal) : restequal \in BOOLEAN}
                       \cup {edgex_devmap_populate_devices_(mem, newdev)}
                       \cup {remove_locked_(mem, d) : d \in DOMAIN mem.devices \cap {newdev[2]}}}
  /\ newdev' = NULL
  /\ UNCHANGED <<holders, copies, fetched, lost, stage>>

edgex_devmap_removedevice_byid(d) ==
  /\ stage = "up" /\ d \in DOMAIN mem.devices
  /\ mem' = remove_locked_(mem, d)
  /\ UNCHANGED <<holders, newdev, copies, fetched, lost, stage>>

----------------------------------------------------------------------------
(* Lookups and copies                                                      *)

edgex_devmap_device_byid(d) ==
  /\ stage = "up" /\ d \in DOMAIN mem.devices /\ mem.devices[d] \notin holders
  /\ holders' = holders \cup {mem.devices[d]}
  /\ mem' = [mem EXCEPT !.inst[mem.devices[d]].refs = @ + 1]
  /\ UNCHANGED <<newdev, copies, fetched, lost, stage>>

Release_(i) ==
  /\ i \in holders /\ holders' = holders \ {i}
  /\ mem' = edgex_device_release(mem, i)
  /\ UNCHANGED <<newdev, copies, fetched, lost, stage>>

(* A command for a device that is held is looked up in its profile, which  *)
(* gets its command list then.                                             *)
edgex_deviceprofile_findcommand(i) ==
  LET p == mem.inst[i].profile IN
  /\ ~ mem.inst[p].cmdinfo
  /\ mem' = [mem EXCEPT !.inst[p].cmdinfo = TRUE,
                        !.inst[p].lacks = @ \cup (In("cmdinfo", edgex_cmdinfo) \ infoForRes_)]
  /\ UNCHANGED <<holders, newdev, copies, fetched, lost, stage>>

edgex_device_get_device(d) ==
  /\ stage = "up" /\ d \in DOMAIN mem.devices /\ copies = <<>> /\ RoomToCopy(mem, 2)
  /\ mem' = edgex_device_dup(mem, mem.devices[d])
  /\ copies' = <<Fresh(mem, "device", d)>>
  /\ UNCHANGED <<holders, newdev, fetched, lost, stage>>

edgex_device_get_deviceprofile_byname(n) ==
  /\ stage = "up" /\ n \in DOMAIN mem.profiles /\ copies = <<>> /\ RoomToCopy(mem, 1)
  /\ mem' = NewProfile(mem, n, edgex_deviceprofile_dup_)
  /\ copies' = <<Fresh(mem, "profile", n)>>
  /\ UNCHANGED <<holders, newdev, fetched, lost, stage>>

(* A copy of every device, or every profile, linked in reverse.            *)
edgex_devmap_copydevices ==
  LET CopyOne(acc, d) == [s |-> edgex_device_dup(acc.s, mem.devices[d]),
                          list |-> <<Fresh(acc.s, "device", d)>> \o acc.list]
      all == FoldLeft(CopyOne, [s |-> mem, list |-> <<>>], SetToSeq(DOMAIN mem.devices))
  IN
  /\ stage = "up" /\ mem.devices # <<>> /\ copies = <<>>
  /\ RoomToCopy(mem, 2 * Cardinality(DOMAIN mem.devices))
  /\ mem' = all.s /\ copies' = all.list
  /\ UNCHANGED <<holders, newdev, fetched, lost, stage>>

edgex_devmap_copyprofiles ==
  LET CopyOne(acc, n) == [s |-> NewProfile(acc.s, n, edgex_deviceprofile_dup_),
                          list |-> <<Fresh(acc.s, "profile", n)>> \o acc.list]
      all == FoldLeft(CopyOne, [s |-> mem, list |-> <<>>], SetToSeq(DOMAIN mem.profiles))
  IN
  /\ stage = "up" /\ mem.profiles # <<>> /\ copies = <<>>
  /\ RoomToCopy(mem, Cardinality(DOMAIN mem.profiles))
  /\ mem' = all.s /\ copies' = all.list
  /\ UNCHANGED <<holders, newdev, fetched, lost, stage>>

(* The application gives the list back: edgex_device_free_device or        *)
(* edgex_device_free_deviceprofile.                                        *)
FreeCopies ==
  /\ copies # <<>> /\ copies' = <<>>
  /\ mem' = FoldLeft(LAMBDA s, i : IF i[1] = "device" THEN edgex_device_free(s, i)
                                   ELSE edgex_deviceprofile_free(s, i), mem, copies)
  /\ UNCHANGED <<holders, newdev, fetched, lost, stage>>

----------------------------------------------------------------------------
(* edgex_deviceprofile_get_internal: the lookup and the fetch, and then    *)
(* the insertion, which overwrites what another thread has inserted.  A    *)
(* profile that is lost stays, so there is a bound of one.                 *)
GetProfile(t, n) ==
  /\ stage = "up" /\ fetched[t] = NULL /\ n \notin DOMAIN mem.profiles
  /\ Room(mem, 1) /\ lost = {}
  /\ mem' = NewProfile(mem, n, edgex_deviceprofile)
  /\ fetched' = [fetched EXCEPT ![t] = Fresh(mem, "profile", n)]
  /\ UNCHANGED <<holders, newdev, copies, lost, stage>>

edgex_devmap_add_profile(t) ==
  /\ fetched[t] # NULL
  /\ LET n == fetched[t][2] IN
     /\ mem' = [mem EXCEPT !.profiles = (n :> fetched[t]) @@ @]
     /\ lost' = lost \cup {mem.profiles[x] : x \in {n} \cap DOMAIN mem.profiles}
  /\ fetched' = [fetched EXCEPT ![t] = NULL]
  /\ UNCHANGED <<holders, newdev, copies, stage>>

----------------------------------------------------------------------------
Quiet_ == newdev = NULL /\ \A t \in Fetcher : fetched[t] = NULL

edgex_devmap_clear_ ==
  /\ stage = "up" /\ Quiet_ /\ stage' = "cleared"
  /\ mem' = FoldLeft(remove_locked_, mem, SetToSeq(DOMAIN mem.devices))
  /\ UNCHANGED <<holders, newdev, copies, fetched, lost>>

edgex_devmap_free ==
  /\ stage = "cleared" /\ holders = {} /\ stage' = "freed"
  /\ mem' = [FoldLeft(LAMBDA s, n : edgex_deviceprofile_free(s, s.profiles[n]),
                      mem, SetToSeq(DOMAIN mem.profiles)) EXCEPT !.profiles = <<>>]
  /\ UNCHANGED <<holders, newdev, copies, fetched, lost>>

MemInit ==
  /\ mem = [inst |-> <<>>, misuse |-> FALSE, devices |-> <<>>, profiles |-> <<>>]
  /\ holders = {} /\ newdev = NULL /\ copies = <<>> /\ lost = {} /\ stage = "up"
  /\ fetched = [t \in Fetcher |-> NULL]

MemNext ==
  \/ \E d \in DeviceId : \E n \in ProfilesOf[d] : edgex_metadata_client_get_device(d, n)
  \/ HandleDevice
  \/ \E d \in DeviceId : \/ edgex_devmap_removedevice_byid(d) \/ edgex_devmap_device_byid(d)
                         \/ edgex_device_get_device(d)
  \/ \E i \in holders : Release_(i) \/ edgex_deviceprofile_findcommand(i)
  \/ edgex_devmap_copydevices \/ edgex_devmap_copyprofiles \/ FreeCopies
  \/ \E n \in UNION {ProfilesOf[d] : d \in DeviceId} :
       edgex_device_get_deviceprofile_byname(n) \/ \E t \in Fetcher : GetProfile(t, n)
  \/ \E t \in Fetcher : edgex_devmap_add_profile(t)
  \/ edgex_devmap_clear_ \/ edgex_devmap_free

----------------------------------------------------------------------------
(* Property                                                                *)

Pointers ==
  holders \cup ({newdev} \ {NULL}) \cup ToSet(copies)
    \cup ({fetched[t] : t \in Fetcher} \ {NULL})
    \cup {mem.devices[d] : d \in DOMAIN mem.devices}
    \cup {mem.profiles[n] : n \in DOMAIN mem.profiles}

Reached == Pointers \cup ({mem.inst[i].profile : i \in Pointers \cap DOMAIN mem.inst} \ {NULL})

(* Whatever callbacks, lookups, copies and the stop do, nothing is freed   *)
(* twice or while somebody points to it, a structure is freed with all its *)
(* blocks or not at all, a copy has all of them, and what nobody points to *)
(* any more is freed; except for a profile that another fetch of the same  *)
(* name has replaced, which is never freed (devmap.c 87-117, 327-335 and   *)
(* the dup and free functions of edgex-rest.c).                            *)
FreedOnceAndWhole ==
  /\ ~ mem.misuse
  /\ \A i \in DOMAIN mem.inst : mem.inst[i].lacks = {}
  /\ Reached \subseteq DOMAIN mem.inst
  /\ DOMAIN mem.inst \subseteq Reached \cup lost
=============================================================================
