----------------------------- MODULE Lifecycle -----------------------------
(***************************************************************************)
(* The start, the running and the stop of the device service:              *)
(* device-sdk-c/src/c/service.c, with the parts it calls of profiles.c,    *)
(* config.c, metadata.c, consul.c, registry.c and rest-server.c, and main  *)
(* of random/device-random.c.                                              *)
(*                                                                         *)
(* What core-metadata, core-data and the registry keep survives a crash of *)
(* the process, everything else does not.  Every call over HTTP has three  *)
(* outcomes (Outcome): it is answered, it fails, or it takes effect and    *)
(* the answer is lost.  main passes a profile that is not NULL.            *)
(***************************************************************************)
EXTENDS Null, Naturals, Sequences, FiniteSets

CONSTANTS
  Profile,          \* profiles in the .yaml files of the profiles directory
  Device,           \* devices of the DeviceList in the configuration file
  Request,          \* connections to the REST server at a time
  Retries,          \* Service/ConnectRetries of the configuration
  RegistryRetries,  \* pings of the registry, 5 in the code
  MaxStarts         \* bound: starts of the process

ASSUME LifecycleAssumptions ==
  /\ Retries \in Nat \ {0} /\ RegistryRetries \in Nat \ {0} /\ MaxStarts \in Nat
  /\ Profile \cap Device = {} /\ NULL \notin Profile \cup Device
  /\ NULL \notin {"callback", "device", "discovery"}
  /\ {"addressable", "service", "devices"} \cap (Profile \cup Device) = {}

VARIABLES
  pc,           \* where the main thread is; "down": there is no process
  registry,     \* the registry has a configuration for the service
  metadata,     \* what core-metadata has of the service
  described,    \* profiles whose value descriptors core-data has
  source,       \* where the configuration came from: "registry", "file", NULL
  url,          \* the start was given a registry
  retries,      \* of the ping loop in progress
  todo,         \* profiles or devices that the loop in progress has not done
  current,      \* the profile being added, or NULL
  devices,      \* the names in the device map
  rest,         \* the REST server accepts connections
  handlers,     \* the handlers registered with it, the newest first
  serving,      \* serving[r]: the handler at work on connection r, or NULL
  scheduler,    \* the scheduler runs
  queued,       \* kinds of job in the queue of the thread pool
  busy,         \* kinds of job at work in the pool
  stopconfig,   \* the watcher of the configuration is to end
  driver,       \* "down", "up" after its init, "stopped" after its stop
  starts,       \* number of starts of the process
  silent,       \* history: pings without answer in a row
  trouble,      \* history: a call of this start failed, or a peer was silent
                \* for all the pings
  owed          \* history: what an interrupted step has left undone

remote == <<registry, metadata, described>>
boot == <<source, url, retries, todo, current>>
server == <<rest, handlers, serving>>
pool == <<scheduler, queued, busy, stopconfig>>
hist == <<silent, trouble, owed>>
vars == <<pc, remote, boot, devices, server, pool, driver, starts, hist>>

Outcome == {"ok", "error", "lost"}

Needed == {"addressable", "service"} \cup Profile

Init ==
  /\ pc = "down" /\ registry \in BOOLEAN /\ metadata = {} /\ described = {}
  /\ source = NULL /\ url = FALSE /\ retries = 0 /\ todo = {} /\ current = NULL
  /\ devices = {}
  /\ rest = FALSE /\ handlers = <<>> /\ serving = [r \in Request |-> NULL]
  /\ scheduler = FALSE /\ queued = {} /\ busy = {} /\ stopconfig = FALSE
  /\ driver = "down" /\ starts = 0
  /\ silent = 0 /\ trouble = FALSE
  /\ owed = IF registry THEN {"devices"} ELSE {}

----------------------------------------------------------------------------
(* How the start goes on                                                   *)

Go(step) == pc' = step
Keep == UNCHANGED owed

(* The steps from the upload of the configuration to the end of the list.  *)
Unlisted == {"upload", "data", "metadata", "service", "addressable",
             "create addressable", "create service", "profiles", "each profile",
             "create profile", "fetch profile", "describe", "devices", "server",
             "callback", "DeviceList"}

(* What is left undone if the start ends here: the value descriptors of a  *)
(* profile that metadata got without them, and the device list of a file   *)
(* that is in the registry by now.                                         *)
Undone ==
  owed \cup {p \in Profile : p = current /\ p \in metadata'}
       \cup {x \in {"devices"} : url /\ source = "file" /\ registry' /\ pc \in Unlisted}

(* An error code is returned; edgex_device_service_start stops the pool.   *)
(* The REST server, if it runs, is left as it is.                          *)
Fail ==
  /\ Go("failed") /\ owed' = Undone /\ queued' = {}

(* An HTTP call with outcome o, that the peer accepts or refuses, leads to *)
(* `next' or to the failure of the start (edgex_run_curl sets the code).   *)
Called(o, accepted, next) ==
  /\ trouble' = (trouble \/ o # "ok")
  /\ UNCHANGED silent
  /\ IF o = "ok" /\ accepted THEN Go(next) /\ Keep /\ UNCHANGED queued ELSE Fail

(* The peer takes an item with outcome o.                                  *)
Taken(o, item, set) == IF o = "error" THEN set ELSE set \cup {item}

bootUnchanged == UNCHANGED <<source, url, retries, todo, current>>
sideUnchanged == UNCHANGED <<server, scheduler, busy, stopconfig, driver, starts>>

----------------------------------------------------------------------------
(* edgex_device_service_start                                              *)

edgex_device_service_new ==
  /\ pc = "down" /\ starts < MaxStarts
  /\ starts' = starts + 1
  /\ source' = NULL /\ retries' = RegistryRetries /\ todo' = {} /\ current' = NULL
  /\ url' \in BOOLEAN
  /\ Go(IF url' THEN "registry" ELSE "file")
  /\ devices' = {} /\ rest' = FALSE /\ handlers' = <<>>
  /\ serving' = [r \in Request |-> NULL]
  /\ scheduler' = FALSE /\ queued' = {} /\ busy' = {} /\ stopconfig' = FALSE
  /\ driver' = "down"
  /\ silent' = 0 /\ trouble' = FALSE /\ Keep
  /\ UNCHANGED remote

(* while (!ping && --retries): the loop ends with the first answer or with *)
(* the last try.                                                           *)
Ping(step, next, tries, nextTries) ==
  /\ pc = step
  /\ UNCHANGED <<remote, source, url, todo, current, devices>> /\ sideUnchanged
  /\ \/ /\ Go(next) /\ retries' = nextTries /\ silent' = 0
        /\ UNCHANGED <<trouble, owed, queued>>
     \/ /\ retries' = retries - 1
        /\ silent' = silent + 1
        /\ trouble' = (trouble \/ silent' >= tries)
        /\ IF retries' = 0 THEN Fail ELSE Go(step) /\ Keep /\ UNCHANGED queued

edgex_registry_ping == Ping("registry", "configuration", RegistryRetries, 0)

(* edgex_registry_get_config: the watcher is queued whether the            *)
(* configuration was there or not.                                         *)
edgex_registry_get_config ==
  /\ pc = "configuration"
  /\ \/ registry /\ source' = "registry" /\ Go("query")
     \/ source' = NULL /\ Go("file")
  /\ queued' = queued \cup {"watch"}
  /\ UNCHANGED <<remote, url, retries, todo, current, devices, hist>> /\ sideUnchanged

(* loadConfig and populateConfig, from a file that can be read.            *)
LoadConfig ==
  /\ pc = "file"
  /\ source' = "file"
  /\ Go(IF url THEN "query" ELSE "upload")
  /\ UNCHANGED <<remote, url, retries, todo, current, devices, hist, queued>>
  /\ sideUnchanged

(* The endpoints that the registry knows replace those of the file; the    *)
(* configuration in the registry has none (edgex_device_validateConfig).   *)
edgex_registry_query_service(known) ==
  /\ pc = "query"
  /\ bootUnchanged /\ UNCHANGED <<remote, devices, silent>> /\ sideUnchanged
  /\ trouble' = (trouble \/ ~known)
  /\ IF known \/ source = "file" THEN Go("upload") /\ Keep /\ UNCHANGED queued ELSE Fail

(* edgex_registry_put_config, if the configuration came from the file      *)
(* although there is a registry.  Then the ping loops begin.               *)
edgex_registry_put_config ==
  /\ pc = "upload"
  /\ retries' = Retries
  /\ UNCHANGED <<metadata, described, source, url, todo, current, devices>>
  /\ sideUnchanged
  /\ IF url /\ source = "file"
     THEN \E o \in Outcome : /\ registry' = (registry \/ o # "error")
                             /\ Called(o, TRUE, "data")
     ELSE Go("data") /\ UNCHANGED <<registry, hist, queued>>

edgex_data_client_ping == Ping("data", "metadata", Retries, Retries)
edgex_metadata_client_ping == Ping("metadata", "service", Retries, 0)

(* A GET for an item of metadata: step if it is there, otherwise if not.   *)
Get(item, found, absent) ==
  /\ bootUnchanged /\ UNCHANGED <<remote, devices>> /\ sideUnchanged
  /\ \/ Called("ok", TRUE, IF item \in metadata THEN found ELSE absent)
     \/ Called("error", TRUE, found)

(* A POST of a new item: metadata refuses one it has (409).                *)
Post(item, next) ==
  /\ UNCHANGED <<registry, described, devices>> /\ sideUnchanged
  /\ \E o \in Outcome : /\ metadata' = Taken(o, item, metadata)
                        /\ Called(o, item \notin metadata, next)

edgex_metadata_client_get_deviceservice ==
  /\ pc = "service"
  /\ Get("service", "profiles", "addressable")

(* Defective variant: the addressable is not asked for.                    *)
noAddressableCheck ==
  /\ pc = "addressable"
  /\ Go("create addressable")
  /\ bootUnchanged /\ UNCHANGED <<remote, devices, hist, queued>> /\ sideUnchanged

edgex_metadata_client_get_addressable ==
  /\ pc = "addressable"
  /\ Get("addressable", "create service", "create addressable")

edgex_metadata_client_create_addressable ==
  /\ pc = "create addressable"
  /\ Post("addressable", "create service") /\ bootUnchanged

edgex_metadata_client_create_deviceservice ==
  /\ pc = "create service"
  /\ Post("service", "profiles") /\ bootUnchanged

----------------------------------------------------------------------------
(* edgex_device_profiles_upload and edgex_device_add_profile               *)

ScanProfiles ==
  /\ pc = "profiles"
  /\ todo' = Profile
  /\ Go("each profile")
  /\ UNCHANGED <<remote, source, url, retries, current, devices, hist, queued>>
  /\ sideUnchanged

(* The check for the next profile: one that is there is skipped.  A failed *)
(* check is taken for a missing profile.                                   *)
CheckProfile(p) ==
  /\ pc = "each profile" /\ p \in todo
  /\ \/ p \in metadata /\ Go("each profile") /\ current' = NULL /\ UNCHANGED trouble
     \/ p \notin metadata /\ Go("create profile") /\ current' = p /\ UNCHANGED trouble
     \/ Go("create profile") /\ current' = p /\ trouble' = TRUE
  /\ todo' = todo \ {p}
  /\ Keep
  /\ UNCHANGED <<remote, source, url, retries, devices, silent, queued>>
  /\ sideUnchanged

edgex_metadata_client_create_deviceprofile_file ==
  /\ pc = "create profile"
  /\ Post(current, "fetch profile") /\ bootUnchanged

(* The new profile is read back.                                           *)
FetchProfile ==
  /\ pc = "fetch profile"
  /\ bootUnchanged /\ UNCHANGED <<remote, devices>> /\ sideUnchanged
  /\ \E o \in {"ok", "error"} : Called(o, TRUE, "describe")

(* Defective variant: the descriptors are never made.                      *)
noDescriptors ==
  /\ pc = "describe"
  /\ Go("each profile") /\ current' = NULL
  /\ UNCHANGED <<remote, source, url, retries, todo, devices, hist, queued>>
  /\ sideUnchanged

(* The errors of edgex_data_client_add_valuedescriptor are only logged.    *)
generate_value_descriptors ==
  /\ pc = "describe"
  /\ \E o \in Outcome :
       /\ described' = Taken(o, current, described)
       /\ owed' = IF o = "error" THEN owed \cup {current} ELSE owed
  /\ Go("each profile") /\ current' = NULL
  /\ UNCHANGED <<registry, metadata, source, url, retries, todo, devices, silent,
                 trouble, queued>>
  /\ sideUnchanged

ProfilesDone ==
  /\ pc = "each profile" /\ todo = {}
  /\ Go("devices")
  /\ bootUnchanged /\ UNCHANGED <<remote, devices, hist, queued>> /\ sideUnchanged

----------------------------------------------------------------------------
(* Devices, the REST server and the driver                                 *)

(* edgex_metadata_client_get_devices and edgex_devmap_populate_devices.    *)
PopulateDevices ==
  /\ pc = "devices"
  /\ bootUnchanged /\ UNCHANGED remote /\ sideUnchanged
  /\ \E o \in {"ok", "error"} :
       /\ devices' = IF o = "ok" THEN metadata \cap Device ELSE devices
       /\ Called(o, TRUE, "server")

(* edgex_rest_server_create fails if the port is taken.                    *)
edgex_rest_server_create ==
  /\ pc = "server"
  /\ bootUnchanged /\ UNCHANGED <<remote, devices, handlers, serving, scheduler, busy>>
  /\ UNCHANGED <<stopconfig, driver, starts, silent>>
  /\ \/ rest' = TRUE /\ Go("callback") /\ UNCHANGED <<owed, trouble, queued>>
     \/ rest' = FALSE /\ trouble' = TRUE /\ Fail

edgex_rest_server_register_handler(kind) ==
  /\ handlers' = <<kind>> \o handlers
  /\ UNCHANGED <<remote, devices, rest, serving, pool, driver, starts, hist>>

RegisterCallback ==
  /\ pc = "callback"
  /\ edgex_rest_server_register_handler("callback")
  /\ todo' = IF source = "file" THEN Device ELSE {}
  /\ Go("DeviceList")
  /\ UNCHANGED <<source, url, retries, current>>

(* edgex_device_process_configured_devices: devices that the map has are   *)
(* skipped, the others are added.  Metadata's callback puts them into the  *)
(* map (see DataSync).                                                     *)
ProcessDevice(d) ==
  /\ pc = "DeviceList" /\ d \in todo
  /\ todo' = todo \ {d}
  /\ IF d \in devices
     THEN Go("DeviceList") /\ UNCHANGED <<remote, devices, hist, queued>> /\ sideUnchanged
     ELSE Post(d, "DeviceList")
  /\ UNCHANGED <<source, url, retries, current>>

DeviceListDone ==
  /\ pc = "DeviceList" /\ todo = {}
  /\ Go("init")
  /\ owed' = IF source = "file" THEN owed \ {"devices"} ELSE owed
  /\ bootUnchanged /\ UNCHANGED <<remote, devices, silent, trouble, queued>>
  /\ sideUnchanged

(* The driver's init, which may refuse; random_init does not.              *)
random_init == driver' = "up"

InitDriver ==
  /\ pc = "init"
  /\ \/ random_init /\ Go("schedule") /\ UNCHANGED <<trouble, queued>>
     \/ driver' = "down" /\ Go("failed") /\ trouble' = TRUE /\ queued' = {}
  /\ bootUnchanged
  /\ UNCHANGED <<remote, devices, server, scheduler, busy, stopconfig, starts, silent, owed>>

StartScheduler ==
  /\ pc = "schedule"
  /\ scheduler' = TRUE
  /\ Go("handlers")
  /\ bootUnchanged
  /\ UNCHANGED <<remote, devices, server, queued, busy, stopconfig, driver, starts, hist>>

InTurn == <<"device", "discovery", "metrics", "config", "ping">>

RegisterHandler ==
  /\ pc = "handlers"
  /\ edgex_rest_server_register_handler(InTurn[Len(handlers)])
  /\ Go(IF Len(handlers) = Len(InTurn) THEN "register" ELSE "handlers")
  /\ bootUnchanged

(* With a CheckInterval in the configuration.                              *)
edgex_registry_register_service ==
  /\ pc = "register"
  /\ IF url
     THEN \E o \in Outcome :
            /\ trouble' = (trouble \/ o # "ok")
            /\ IF o = "ok" THEN Go("running") /\ UNCHANGED queued
                           ELSE Go("failed") /\ queued' = {}
     ELSE Go("running") /\ UNCHANGED <<trouble, queued>>
  /\ bootUnchanged /\ UNCHANGED <<remote, devices, silent, owed>> /\ sideUnchanged

(* The moves of the main thread in edgex_device_service_start.             *)
Start ==
  \/ edgex_device_service_new \/ edgex_registry_ping \/ edgex_registry_get_config
  \/ LoadConfig \/ (\E known \in BOOLEAN : edgex_registry_query_service(known))
  \/ edgex_registry_put_config \/ edgex_data_client_ping \/ edgex_metadata_client_ping
  \/ edgex_metadata_client_get_deviceservice \/ edgex_metadata_client_get_addressable
  \/ edgex_metadata_client_create_addressable
  \/ edgex_metadata_client_create_deviceservice
  \/ ScanProfiles \/ (\E p \in Profile : CheckProfile(p))
  \/ edgex_metadata_client_create_deviceprofile_file \/ FetchProfile
  \/ generate_value_descriptors \/ ProfilesDone
  \/ PopulateDevices \/ edgex_rest_server_create \/ RegisterCallback
  \/ (\E d \in Device : ProcessDevice(d)) \/ DeviceListDone
  \/ InitDriver \/ StartScheduler \/ RegisterHandler \/ edgex_registry_register_service

----------------------------------------------------------------------------
(* What runs beside the main thread: connections, schedules and jobs       *)

besideUnchanged == UNCHANGED <<remote, boot, rest, handlers, scheduler, stopconfig,
                               driver, starts, hist>>

(* http_handler: a request for a handler that is registered.               *)
http_handler(r, kind) ==
  /\ rest /\ serving[r] = NULL
  /\ kind \in {handlers[n] : n \in DOMAIN handlers}
  /\ serving' = [serving EXCEPT ![r] = kind]
  /\ UNCHANGED <<pc, devices, queued, busy>> /\ besideUnchanged

(* The handler ends and the reply is sent.  That of discovery queues a     *)
(* job; that of the callback may have put a device of the service into the *)
(* map.                                                                    *)
Reply(r) ==
  /\ serving[r] # NULL
  /\ serving' = [serving EXCEPT ![r] = NULL]
  /\ queued' = IF serving[r] = "discovery" /\ pc # "failed"
                 THEN queued \cup {"discover"} ELSE queued
  /\ \/ devices' = devices
     \/ /\ serving[r] = "callback"
        /\ \E d \in metadata \cap Device : devices' = devices \cup {d}
  /\ UNCHANGED <<pc, busy>> /\ besideUnchanged

(* A schedule falls due.                                                   *)
Fire ==
  /\ scheduler /\ pc # "failed"
  /\ queued' = queued \cup {"autoevent"}
  /\ UNCHANGED <<pc, devices, serving, busy>> /\ besideUnchanged

(* A thread of the pool takes a job, and ends it.  The watcher             *)
(* (poll_consul) ends when stopconfig is set, which also aborts its GET.   *)
Take(job) ==
  /\ job \in queued \ busy
  /\ queued' = queued \ {job} /\ busy' = busy \cup {job}
  /\ UNCHANGED <<pc, devices, serving>> /\ besideUnchanged

Finish(job) ==
  /\ job \in busy
  /\ job = "watch" => stopconfig
  /\ busy' = busy \ {job}
  /\ UNCHANGED <<pc, devices, serving, queued>> /\ besideUnchanged

Job == {"watch", "autoevent", "discover"}
Beside ==
  \/ \E r \in Request : Reply(r) \/ \E kind \in {"callback", "device", "discovery"} : http_handler(r, kind)
  \/ Fire
  \/ \E job \in Job : Take(job) \/ Finish(job)

----------------------------------------------------------------------------
(* edgex_device_service_stop, called by main after a SIGINT                *)

stopUnchanged == UNCHANGED <<remote, boot, starts, hist>>

(* Defective variant: the watcher is not told.                             *)
noStopConfig ==
  /\ pc = "running"
  /\ Go("stop scheduler")
  /\ UNCHANGED <<devices, server, pool, driver>> /\ stopUnchanged

StopConfig ==
  /\ pc = "running"
  /\ stopconfig' = url
  /\ Go("stop scheduler")
  /\ UNCHANGED <<devices, server, scheduler, queued, busy, driver>> /\ stopUnchanged

StopScheduler ==
  /\ pc = "stop scheduler"
  /\ scheduler' = FALSE
  /\ Go("destroy")
  /\ UNCHANGED <<devices, server, queued, busy, stopconfig, driver>> /\ stopUnchanged

(* edgex_rest_server_destroy: MHD_stop_daemon takes no more connections,   *)
(* and returns when those in progress have ended.                          *)
StopDaemon ==
  /\ pc = "destroy"
  /\ rest' = FALSE
  /\ Go("join")
  /\ UNCHANGED <<devices, handlers, serving, pool, driver>> /\ stopUnchanged

(* Defective variant: the connections in progress are not waited for.      *)
destroyAtOnce ==
  /\ pc = "join"
  /\ handlers' = <<>>
  /\ Go("stop driver")
  /\ UNCHANGED <<devices, rest, serving, pool, driver>> /\ stopUnchanged

edgex_rest_server_destroy ==
  /\ pc = "join" /\ \A r \in Request : serving[r] = NULL
  /\ handlers' = <<>>
  /\ Go("stop driver")
  /\ UNCHANGED <<devices, rest, serving, pool, driver>> /\ stopUnchanged

StopDriver ==
  /\ pc = "stop driver"
  /\ driver' = "stopped"
  /\ Go("clear")
  /\ UNCHANGED <<devices, server, pool>> /\ stopUnchanged

edgex_devmap_clear ==
  /\ pc = "clear"
  /\ devices' = {}
  /\ Go("wait")
  /\ UNCHANGED <<server, pool, driver>> /\ stopUnchanged

(* iot_threadpool_wait returns when no job is queued or at work.           *)
WaitForPool ==
  /\ pc = "wait" /\ queued = {} /\ busy = {}
  /\ Go("stopped")
  /\ UNCHANGED <<devices, server, pool, driver>> /\ stopUnchanged

Stop ==
  \/ StopScheduler \/ StopDaemon \/ edgex_rest_server_destroy \/ StopDriver
  \/ edgex_devmap_clear \/ WaitForPool

(* The process ends, after edgex_device_service_free or because main       *)
(* returns after a failed start, or dies.                                  *)
End ==
  /\ pc' = "down" /\ devices' = {} /\ rest' = FALSE /\ handlers' = <<>>
  /\ serving' = [r \in Request |-> NULL]
  /\ scheduler' = FALSE /\ queued' = {} /\ busy' = {} /\ stopconfig' = FALSE
  /\ driver' = "down" /\ source' = NULL /\ current' = NULL /\ todo' = {}
  /\ retries' = 0 /\ url' = FALSE
  /\ UNCHANGED <<remote, silent, trouble, starts>>

Exit == pc \in {"stopped", "failed"} /\ Keep /\ End

Crash == pc \notin {"down", "failed", "stopped"} /\ End /\ owed' = Undone

Next == Start \/ Beside \/ StopConfig \/ Stop \/ Exit \/ Crash

Working ==
  \/ \E r \in Request : Reply(r)
  \/ \E job \in Job : Take(job) \/ Finish(job)

(* Every HTTP call, handler and job ends: the peers and the driver answer  *)
(* at last.  Nothing says that the service is ever stopped.                *)
Fairness == WF_vars(Start /\ pc # "down") /\ WF_vars(Stop) /\ WF_vars(Working)

Spec == Init /\ [][Next]_vars /\ Fairness

----------------------------------------------------------------------------
(* Properties                                                              *)

Calling == \E r \in Request : serving[r] = "device"

(* The driver is called over REST only between its init and its stop, by   *)
(* jobs of the pool not before its init, and by nobody once                *)
(* edgex_device_service_stop has returned: what the order of the calls in  *)
(* startConfigured and in the stop is for.  (Jobs may call it between its  *)
(* stop and the return.)                                                   *)
DriverCalledInTime ==
  /\ Calling => driver = "up"
  /\ busy \cap {"autoevent", "discover"} # {} => driver # "down"
  /\ pc = "stopped" => queued = {} /\ busy = {} /\ \A r \in Request : serving[r] = NULL

(* A service that runs is whole in metadata, however often its start was   *)
(* cut off before.  All that can be missing are value descriptors of a     *)
(* profile whose start was cut off, or answered by an error, after         *)
(* metadata got it, and the devices of a file that was in the registry     *)
(* before its list was done.                                               *)
CompleteUnlessCut ==
  pc = "running" =>
    /\ Needed \subseteq metadata
    /\ Profile \ described \subseteq owed
    /\ Device \subseteq metadata \/ (source = "registry" /\ "devices" \in owed)

(* Whatever an earlier start has left behind, a start fails only for       *)
(* trouble of its own: a call that failed, a peer that was silent for all  *)
(* the pings, a port or a driver that was not to be had.                   *)
StartFailsOnlyIfTrouble == pc = "failed" => trouble

(* A start comes to its end, and so does a stop: no handler, job or        *)
(* watcher keeps it.                                                       *)
StartsAndStopsEnd ==
  /\ pc \in {"registry", "file"} ~> pc \in {"running", "failed", "down"}
  /\ pc = "stop scheduler" ~> pc \in {"stopped", "down"}
=============================================================================
