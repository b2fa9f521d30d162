------------------------------ MODULE DataSync ------------------------------
(***************************************************************************)
(* The devices of core-metadata and the service's copy of them: the        *)
(* management functions ask metadata to add, change or remove a device     *)
(* (devman.c, metadata.c), metadata calls back, the handler fetches the    *)
(* document and brings the device map up to date (callback.c, devmap.c),   *)
(* and the application gets copies.  Fetching and replacing are one step   *)
(* here; module DevMap takes them apart.                                   *)
(***************************************************************************)
EXTENDS Documents, FiniteSets

CONSTANTS
  Id,         \* the ids that metadata gives, each once
  Device,     \* Device[id]: what other clients of metadata may make of a
              \* device: JSON objects that name a profile and a service
  Profile,    \* the profiles of metadata: their JSON objects by name
  Request,    \* what the application adds: [name, description, labels,
              \* profile, protocols, autos]
  Update,     \* what it changes: [id, name, description, labels, profile]
  Asserted,   \* the devices of which an assertion may fail
  MaxCalls,   \* bound: callbacks on their way at a time
  service     \* the structure of the service itself, as it was registered

VARIABLES
  metadata,   \* the devices that metadata has, by id
  used,       \* the ids that metadata has given
  calls,      \* the callbacks on their way, [method, id]
  map,        \* edgex_devmap_t: [devices, names, profiles]
  phase,      \* "down", "populated", "up" or "crashed"
  asked,      \* what the application asked for the devices that it added and
              \* nobody has changed since
  missed      \* the devices whose last callback the service did not get or
              \* could not follow

syncVars == <<metadata, used, calls, map, phase, asked, missed>>

Without(f, x) == [y \in DOMAIN f \ {x} |-> f[y]]

----------------------------------------------------------------------------
(* core-metadata                                                           *)

(* A document as it is served, with the profile and the service in full.   *)
Served(id) ==
  LET name == metadata[id].service.name IN
  [profile |-> Profile[metadata[id].profile.name],
   service |-> IF name = service.name THEN deviceservice_write(service, FALSE)
               ELSE [name |-> name],
   id |-> id] @@ metadata[id]

NameTaken(name, others) ==
  \E id \in DOMAIN metadata \cap others : metadata[id].name = name

(* The service is called back about a change.                              *)
CallBack(method, id) ==
  IF phase = "up"
  THEN /\ calls' = calls \cup {[method |-> method, id |-> id]} /\ UNCHANGED missed
       /\ Cardinality(calls') <= MaxCalls
  ELSE UNCHANGED calls /\ missed' = missed \cup {id}

Stored(id, method, json) ==
  /\ metadata' = (id :> json) @@ metadata
  /\ CallBack(method, id)

(* Another client adds or changes a device.                                *)
Edit(id, device) ==
  /\ id \in DOMAIN metadata \/ id \notin used
  /\ ~NameTaken(device.name, Id \ {id})
  /\ Stored(id, IF id \in DOMAIN metadata THEN "PUT" ELSE "POST", device)
  /\ used' = used \cup {id} /\ asked' = Without(asked, id)
  /\ UNCHANGED <<map, phase>>

Forget(id) ==
  /\ id \in DOMAIN metadata
  /\ metadata' = Without(metadata, id) /\ CallBack("DELETE", id)
  /\ asked' = Without(asked, id)
  /\ UNCHANGED <<used, map, phase>>

(* A new document: metadata looks at the names of fields without regard to *)
(* case, and a field that it does not get stays away.                      *)
Accepted(json) == ("autoEvents" :> json.autoevents) @@ Without(json, "autoevents")

(* The fields of a sparse document replace those that metadata has.        *)
Merged(id, json) == json @@ metadata[id]

----------------------------------------------------------------------------
(* The device map                                                          *)

NoDevices == [devices |-> <<>>, names |-> <<>>, profiles |-> <<>>]

(* Devices share the first profile of a name; what the map has is by name. *)
add_locked(m, newdev) ==
  LET dup == edgex_device_dup(newdev) IN
  [devices |-> (dup.id :> [dup EXCEPT !.profile = dup.profile.name]) @@ m.devices,
   names |-> (dup.name :> dup.id) @@ m.names,
   profiles |-> m.profiles @@ (dup.profile.name :> dup.profile)]

remove_locked(m, id) ==
  IF id \notin DOMAIN m.devices THEN m
  ELSE [m EXCEPT !.devices = Without(@, id), !.names = Without(@, m.devices[id].name)]

(* Whether a change leaves the autoevents and the requests alone.          *)
SameShape(dest, src) ==
  /\ dest.name = src.name /\ dest.profile = src.profile.name
  /\ edgex_device_autoevents_equal(dest.autos, src.autos)
  /\ edgex_protocols_equal(dest.protocols, src.protocols)

Copied(dest, src) ==
  [dest EXCEPT !.adminState = src.adminState, !.operatingState = src.operatingState,
     !.created = src.created, !.lastConnected = src.lastConnected,
     !.lastReported = src.lastReported, !.modified = src.modified, !.origin = src.origin,
     !.description = src.description, !.labels = edgex_strings_dup(src.labels)]

(* Defective variant: an update in place forgets the labels.               *)
replaceKeepsLabels(m, dev) ==
  IF dev.id \notin DOMAIN m.devices THEN add_locked(m, dev)
  ELSE IF SameShape(m.devices[dev.id], dev)
       THEN [m EXCEPT !.devices[dev.id] = [Copied(@, dev) EXCEPT !.labels = m.devices[dev.id].labels]]
  ELSE add_locked(remove_locked(m, dev.id), dev)

edgex_devmap_replace_device(m, dev) ==
  IF dev.id \notin DOMAIN m.devices THEN add_locked(m, dev)
  ELSE IF SameShape(m.devices[dev.id], dev)
       THEN [m EXCEPT !.devices[dev.id] = Copied(@, dev)]
  ELSE add_locked(remove_locked(m, dev.id), dev)

edgex_devmap_populate_devices(m, devs) ==
  FoldLeft(LAMBDA acc, d : IF d.name \in DOMAIN acc.names THEN acc ELSE add_locked(acc, d),
           m, devs)

(* edgex_device_get_device: a copy for the application, NULL if there is   *)
(* no such device.                                                         *)
edgex_device_get_device(id) ==
  IF id \notin DOMAIN map.devices THEN NULL
  ELSE edgex_device_dup([map.devices[id] EXCEPT !.profile = map.profiles[@]])

----------------------------------------------------------------------------
(* The service                                                             *)

(* A device without a profile is followed to nowhere.                      *)
Unusable(profile) == profile \in {NULL, Trap}

Crash == phase' = "crashed" /\ UNCHANGED <<metadata, used, calls, map, asked, missed>>

(* The part of edgex_device_service_start that fetches the devices.        *)
Populate ==
  LET mine == SetToSeq({id \in DOMAIN metadata : metadata[id].service.name = service.name})
      devs == edgex_devices_read([i \in DOMAIN mine |-> Served(mine[i])])
  IN
  /\ phase = "down"
  /\ IF \E i \in DOMAIN devs : Unusable(devs[i].profile) THEN Crash
     ELSE /\ map' = edgex_devmap_populate_devices(map, devs)
          /\ phase' = "populated" /\ missed' = {}
          /\ UNCHANGED <<metadata, used, calls, asked>>

(* From here on there is a handler for callbacks.                          *)
Register ==
  /\ phase = "populated" /\ phase' = "up"
  /\ UNCHANGED <<metadata, used, calls, map, asked, missed>>

(* The process ends, by itself or not, and is started again.               *)
Restart ==
  /\ phase \in {"up", "crashed"}
  /\ phase' = "down" /\ map' = NoDevices /\ calls' = {}
  /\ UNCHANGED <<metadata, used, asked, missed>>

(* What edgex_device_handler_callback does with the document: another      *)
(* service's device goes, one of its own is replaced.                      *)
Followed(newdev) ==
  IF newdev.service.name # service.name THEN remove_locked(map, newdev.id)
  ELSE edgex_devmap_replace_device(map, newdev)

Deleted(call) ==
  /\ call.method = "DELETE"
  /\ map' = remove_locked(map, call.id) /\ missed' = missed \ {call.id}
  /\ calls' = calls \ {call} /\ UNCHANGED <<metadata, used, phase, asked>>

(* The document cannot be had: metadata does not answer, or it is gone and *)
(* another callback says so.                                               *)
NotServed(call) ==
  /\ call.method # "DELETE"
  /\ \/ call.id \notin DOMAIN metadata /\ UNCHANGED missed
     \/ call.id \in DOMAIN metadata /\ missed' = missed \cup {call.id}
  /\ calls' = calls \ {call} /\ UNCHANGED <<metadata, used, map, phase, asked>>

(* The profile is looked at only for a device of the service, but a type   *)
(* that is not there is met by the reader already.                         *)
AddedOrChanged(call) ==
  /\ call.method # "DELETE" /\ call.id \in DOMAIN metadata
  /\ LET newdev == device_read(Served(call.id)) IN
     IF \/ newdev.profile = Trap
        \/ newdev.profile = NULL /\ newdev.service.name = service.name
     THEN Crash
     ELSE /\ map' = Followed(newdev) /\ missed' = missed \ {call.id}
          /\ calls' = calls \ {call} /\ UNCHANGED <<metadata, used, phase, asked>>

edgex_device_handler_callback(call) ==
  /\ phase = "up" /\ call \in calls
  /\ Deleted(call) \/ NotServed(call) \/ AddedOrChanged(call)

(* edgex_metadata_client_add_device: what is sent.                         *)
NewDevice(request) ==
  device_write([name |-> request.name, description |-> request.description,
                labels |-> request.labels, protocols |-> request.protocols,
                autos |-> request.autos, profile |-> [name |-> request.profile],
                service |-> [name |-> service.name], origin |-> 0,
                adminState |-> "UNLOCKED", operatingState |-> "ENABLED"], TRUE)

(* Nothing is sent when the map has the name; metadata refuses a name that *)
(* it has and a profile that it has not.  Whether the answer comes makes   *)
(* no difference to what is kept.                                          *)
edgex_device_add_device(request, id) ==
  /\ phase = "up" /\ request.name \notin DOMAIN map.names
  /\ ~NameTaken(request.name, Id) /\ request.profile \in DOMAIN Profile
  /\ id \notin used /\ used' = used \cup {id}
  /\ Stored(id, "POST", Accepted(NewDevice(request)))
  /\ asked' = (id :> request) @@ asked
  /\ UNCHANGED <<map, phase>>

edgex_device_update_device(update) ==
  LET id == update.id IN
  /\ phase = "up" /\ id \in DOMAIN metadata
  /\ update.name # NULL => ~NameTaken(update.name, Id \ {id})
  /\ update.profile # NULL => update.profile \in DOMAIN Profile
  /\ Stored(id, "PUT", Merged(id, edgex_device_write_sparse(update.name, NULL,
       update.description, update.labels, update.profile)))
  /\ asked' = Without(asked, id)
  /\ UNCHANGED <<used, map, phase>>

edgex_device_remove_device(id) == phase = "up" /\ Forget(id)

(* After a failed assertion.                                               *)
set_device_opstate(id, opstate) ==
  /\ phase = "up" /\ id \in DOMAIN map.devices \cap DOMAIN metadata
  /\ Stored(id, "PUT", Merged(id, [operatingState |-> opstate]))
  /\ asked' = Without(asked, id)
  /\ UNCHANGED <<used, map, phase>>

----------------------------------------------------------------------------
SyncInit ==
  /\ metadata = <<>> /\ used = {} /\ calls = {} /\ map = NoDevices
  /\ phase = "down" /\ asked = <<>> /\ missed = {}

SyncNext ==
  \/ Populate \/ Register \/ Restart
  \/ \E call \in calls : edgex_device_handler_callback(call)
  \/ \E update \in Update : edgex_device_update_device(update)
  \/ \E id \in Id :
       \/ \E device \in Device[id] : Edit(id, device)
       \/ Forget(id)
       \/ \E request \in Request : edgex_device_add_device(request, id)
       \/ edgex_device_remove_device(id)
       \/ id \in Asserted /\ set_device_opstate(id, "DISABLED")

----------------------------------------------------------------------------
(* Properties                                                              *)

(* The service has been told all that there is to know of a device.        *)
UpToDate(id) ==
  phase = "up" /\ id \notin missed /\ \A call \in calls : call.id # id

SameMembers(list, seq) == Len(list) = Len(seq) /\ ToSet(list) = ToSet(seq)

SameProtocols(list, dict) ==
  {<<list[i].name, ToSet(list[i].properties)>> : i \in DOMAIN list}
    = {<<dict[i].name, ToSet(dict[i].value)>> : i \in DOMAIN dict}

(* Two autoevents of the same resource, which the comparison of lists      *)
(* cannot tell apart.                                                      *)
Doubled(autos) ==
  \E i, j \in DOMAIN autos : i # j /\ autos[i].resource = autos[j].resource

SameOperations(list, array) ==
  Len(list) = Len(array) /\ \A i \in DOMAIN list :
    /\ list[i].texts.object = get_string(array[i], "object")
    /\ ToSet(list[i].mappings) = ToSet(get_array(array[i], "mappings"))

ShowsProfile(p, obj) ==
  LET resources == get_array(obj, "deviceResources")
      commands == get_array(obj, "deviceCommands")
  IN
  /\ p.name = obj.name
  /\ Len(p.device_resources) = Len(resources) /\ Len(p.device_commands) = Len(commands)
  /\ \A i \in DOMAIN resources :
       LET value == resources[i].properties.value IN
       /\ p.device_resources[i].texts.name = resources[i].name
       /\ SameMembers(p.device_resources[i].attributes, get_array(resources[i], "attributes"))
       /\ p.device_resources[i].properties.value.type = value.type
       /\ \A a \in TransformArgs :
            p.device_resources[i].properties.value.args[a] = "" <=> get_string(value, a) = ""
  /\ \A i \in DOMAIN commands :
       /\ p.device_commands[i].name = commands[i].name
       /\ SameOperations(p.device_commands[i].get, get_array(commands[i], "get"))
       /\ SameOperations(p.device_commands[i].set, get_array(commands[i], "set"))

(* The copy of a device that the application gets says what metadata says. *)
Shows(dev, doc) ==
  /\ dev.name = doc.name /\ dev.description = get_string(doc, "description")
  /\ dev.adminState = "LOCKED" <=> get_string(doc, "adminState") = "LOCKED"
  /\ dev.operatingState = "DISABLED" <=> get_string(doc, "operatingState") = "DISABLED"
  /\ dev.labels = get_array(doc, "labels")
  /\ SameProtocols(dev.protocols, get_array(doc, "protocols"))
  /\ Doubled(dev.autos) \/ SameMembers(dev.autos, get_array(doc, "autoEvents"))
  /\ ShowsProfile(dev.profile, Profile[doc.profile.name])
  /\ dev.service = service

(* The device as the application asked for it in edgex_device_add_device.  *)
AsAsked ==
  \A id \in DOMAIN asked : UpToDate(id) =>
    LET dev == edgex_device_get_device(id)
        request == asked[id]
    IN
    /\ dev # NULL /\ dev.name = request.name /\ dev.profile.name = request.profile
    /\ dev.description = IF request.description = NULL THEN "" ELSE request.description
    /\ dev.labels = request.labels /\ dev.adminState = "UNLOCKED"
    /\ {<<p.name, ToSet(p.properties)>> : p \in ToSet(dev.protocols)}
         = {<<p.name, ToSet(p.properties)>> : p \in ToSet(request.protocols)}
    /\ SameMembers(dev.autos, request.autos)

(* When the callbacks about a device have been followed the application    *)
(* sees it as metadata has it, and sees it if and only if it is a device   *)
(* of the service: through the readers, the comparison that decides        *)
(* between an update in place and a new device, the copies and a restart;  *)
(* and a device that the application has added comes back to it as it      *)
(* asked.                                                                  *)
MapShowsMetadata ==
  /\ AsAsked
  /\ \A id \in Id : UpToDate(id) =>
       LET dev == edgex_device_get_device(id) IN
       IF id \in DOMAIN metadata /\ metadata[id].service.name = service.name
       THEN dev # NULL /\ Shows(dev, metadata[id])
       ELSE dev = NULL
=============================================================================
