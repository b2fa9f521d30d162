--------------------------- MODULE LifecycleProofs -------------------------
(***************************************************************************)
(* Proofs about Lifecycle, for any profiles, devices and connections and   *)
(* any numbers of retries and starts.                                      *)
(***************************************************************************)
EXTENDS Lifecycle, SequenceTheorems, TLAPS

----------------------------------------------------------------------------
(* Invariants                                                              *)

(* The steps of the start up to the creation of the REST server, from the  *)
(* server to the driver's init, and from there to the running service; and *)
(* the steps of the stop after the schedules and connections have ended.   *)
Booting == {"registry", "configuration", "file", "query", "upload", "data", "metadata",
            "service", "addressable", "create addressable", "create service",
            "profiles", "each profile", "create profile", "fetch profile",
            "describe", "devices", "server"}
Listing == {"callback", "DeviceList", "init"}
Driven == {"schedule", "handlers", "register", "running"}
Emptied == {"stop driver", "clear", "wait", "stopped"}

(* The handlers a service registers.                                       *)
Kind == {"callback", "device", "discovery", "metrics", "config", "ping"}

(* The steps of the main thread.                                           *)
Steps == {"down", "failed"} \cup Booting \cup Listing \cup Driven
           \cup {"stop scheduler", "destroy", "join"} \cup Emptied

(* The types of what the start keeps: a loop of pings that goes on has     *)
(* tries left.                                                             *)
StartTypes ==
  /\ registry \in BOOLEAN /\ url \in BOOLEAN /\ trouble \in BOOLEAN
  /\ silent \in Nat /\ starts \in Nat /\ retries \in Nat
  /\ pc \in {"registry", "data", "metadata"} => retries # 0

(* The types of what the server, the pool and the driver keep.             *)
ServerTypes ==
  /\ rest \in BOOLEAN /\ scheduler \in BOOLEAN /\ stopconfig \in BOOLEAN
  /\ handlers \in Seq(Kind)
  /\ serving \in [Request -> {NULL, "callback", "device", "discovery"}]
  /\ queued \subseteq Job /\ busy \subseteq Job
  /\ driver \in {"down", "up", "stopped"}
  /\ devices \subseteq Device

TypeOK == pc \in Steps /\ StartTypes /\ ServerTypes

(* No connection is being served.                                          *)
Quiet == \A r \in Request : serving[r] = NULL

(* When there is a server, which handlers it has, and when the driver may  *)
(* be called: only a handler registered after the driver's init, a         *)
(* schedule started after it, or a job of one of these calls it.           *)
CallInv ==
  /\ pc \in {"down"} \cup Booting => rest = FALSE
  /\ pc \in {"down", "callback"} \cup Booting \cup Emptied => handlers = <<>> /\ Quiet
  /\ pc \in {"DeviceList", "init", "schedule"} => handlers = <<"callback">>
  /\ pc = "handlers" => Len(handlers) \in 1..5
  /\ \A n \in DOMAIN handlers : handlers[n] \in {"device", "discovery"} => driver = "up"
  /\ \A r \in Request : serving[r] \in {"device", "discovery"} => driver = "up"
  /\ scheduler = TRUE => driver # "down"
  /\ \A job \in queued \cup busy : job # "watch" => driver # "down"
  /\ pc \in {"down"} \cup Booting \cup Listing => driver = "down"
  /\ pc \in Driven \cup {"stop scheduler", "destroy", "join", "stop driver"} => driver = "up"
  /\ pc \in {"destroy", "join"} \cup Emptied => scheduler = FALSE
  /\ pc \in {"join"} \cup Emptied => rest = FALSE
  /\ pc = "stopped" => queued = {} /\ busy = {}

(* What metadata has at each step of the start, and what of it the map     *)
(* has: the steps that find something there and those that create it come  *)
(* to the same.                                                            *)
DataInv ==
  /\ "service" \in metadata => "addressable" \in metadata
  /\ pc \in {"addressable", "create addressable", "create service"} => "service" \notin metadata
  /\ pc = "create addressable" => "addressable" \notin metadata
  /\ pc = "create service" => "addressable" \in metadata
  /\ pc \in {"profiles", "each profile", "create profile", "fetch profile", "describe"}
            \cup {"devices", "server"} \cup Listing \cup Driven
       => "service" \in metadata
  /\ pc = "each profile" => Profile \subseteq todo \cup metadata
  /\ pc \in {"create profile", "fetch profile", "describe"}
       => current \in Profile /\ Profile \subseteq todo \cup metadata \cup {current}
  /\ pc = "create profile" => current \notin metadata \/ trouble = TRUE
  /\ pc \in {"fetch profile", "describe"} => current \in metadata
  /\ pc \in {"devices", "server"} \cup Listing \cup Driven => Profile \subseteq metadata
  /\ devices \subseteq metadata
  /\ pc \in {"server", "callback"} => metadata \cap Device \subseteq devices
  /\ pc = "DeviceList" => /\ metadata \cap todo \subseteq devices
                          /\ source # "file" \/ Device \subseteq todo \cup metadata
  /\ pc \in {"init"} \cup Driven /\ source = "file" => Device \subseteq metadata

(* What is owed: the device list of a file in the registry that is not     *)
(* done and not being done, and value descriptors likewise.                *)
SourceKnown ==
  pc \in {"query"} \cup Unlisted \cup {"init"} \cup Driven
    => source = "file" \/ (source = "registry" /\ registry = TRUE)

ListOwed ==
  registry = TRUE => \/ Device \subseteq metadata
                     \/ "devices" \in owed
                     \/ url = TRUE /\ source = "file" /\ pc \in Unlisted

DescriptorsOwed ==
  \A p \in Profile : p \in metadata =>
    \/ p \in described \cup owed
    \/ p = current /\ pc \in {"fetch profile", "describe"}

DebtInv == SourceKnown /\ ListOwed /\ DescriptorsOwed

(* The retries left and the pings without answer add up; a start has       *)
(* failed for a reason.                                                    *)
TroubleInv ==
  /\ pc = "failed" => trouble = TRUE
  /\ pc \in {"configuration", "file", "query", "upload"} => silent = 0
  /\ pc = "registry" => retries + silent = RegistryRetries
  /\ pc \in {"data", "metadata"} => retries + silent = Retries

Inv == TypeOK /\ CallInv /\ DataInv /\ DebtInv /\ TroubleInv

----------------------------------------------------------------------------
(* What the calls do                                                       *)

(* A start that fails: its pool is gone and what it has not done is owed.  *)
Failed == pc' = "failed" /\ queued' = {} /\ owed' = Undone

(* A POST of an item: metadata did not have it and has it now, or the      *)
(* start fails and metadata may have it.                                   *)
Posted(item, next) ==
  /\ UNCHANGED <<registry, described, devices, silent, starts>>
  /\ \/ /\ pc' = next /\ item \notin metadata /\ metadata' = metadata \cup {item}
        /\ UNCHANGED <<owed, queued, trouble>>
     \/ /\ Failed
        /\ metadata' \in {metadata, metadata \cup {item}}
        /\ trouble' \in {trouble, TRUE} /\ (item \in metadata \/ trouble' = TRUE)

LEMMA PostEffects ==
  ASSUME NEW item, NEW next, StartTypes, Post(item, next)
  PROVE  Posted(item, next)
BY DEF Posted, Post, Called, Taken, Fail, Failed, Go, Keep, Outcome, sideUnchanged, StartTypes

(* A GET: the item is there, or it is not, or the start fails.             *)
Got(item, found, absent) ==
  /\ UNCHANGED <<registry, metadata, described, devices, silent, starts>>
  /\ UNCHANGED <<source, url, retries, todo, current>>
  /\ \/ pc' = found /\ item \in metadata /\ UNCHANGED <<owed, queued, trouble>>
     \/ pc' = absent /\ item \notin metadata /\ UNCHANGED <<owed, queued, trouble>>
     \/ Failed /\ trouble' = TRUE

LEMMA GetEffects ==
  ASSUME NEW item, NEW found, NEW absent, StartTypes, Get(item, found, absent)
  PROVE  Got(item, found, absent)
BY DEF Got, Get, Called, Fail, Failed, Go, Keep, bootUnchanged, sideUnchanged, remote,
   StartTypes

(* A turn of a loop of pings: an answer, a turn more, or failure.          *)
Pinged(step, next, tries, nextTries) ==
  /\ pc = step
  /\ UNCHANGED <<registry, metadata, described, devices, source, url, todo, current, starts>>
  /\ \/ /\ pc' = next /\ retries' = nextTries /\ silent' = 0
        /\ UNCHANGED <<owed, queued, trouble>>
     \/ /\ pc' = step /\ retries' = retries - 1 /\ retries' # 0
        /\ silent' = silent + 1 /\ trouble' \in BOOLEAN
        /\ UNCHANGED <<owed, queued>>
     \/ /\ Failed
        /\ retries' = retries - 1 /\ retries' = 0 /\ silent' = silent + 1
        /\ trouble' \in BOOLEAN /\ (silent' >= tries => trouble' = TRUE)

LEMMA PingEffects ==
  ASSUME NEW step, NEW next, NEW tries \in Nat, NEW nextTries, StartTypes,
         Ping(step, next, tries, nextTries)
  PROVE  Pinged(step, next, tries, nextTries)
BY DEF Pinged, Ping, Fail, Failed, Go, Keep, remote, sideUnchanged, StartTypes

(* A step that fails leaves what metadata has in order, and what is not    *)
(* done is owed.                                                           *)
LEMMA FailKeeps ==
  ASSUME DataInv, DebtInv, Failed, trouble' = TRUE,
         UNCHANGED <<devices, described, url, source, current>>,
         "service" \in metadata' => "addressable" \in metadata',
         metadata \subseteq metadata',
         \A p \in Profile : p \in metadata' /\ p \notin metadata => p = current,
         registry \in BOOLEAN, url \in BOOLEAN,
         registry' = TRUE /\ registry # TRUE => url = TRUE /\ source = "file" /\ pc \in Unlisted
  PROVE  DataInv' /\ DebtInv' /\ TroubleInv'
<1>1. DataInv'
  BY DEF DataInv, Failed, Booting, Listing, Driven
<1>2. DebtInv'
  <2>1. /\ owed \subseteq owed'
        /\ \A p \in Profile : p = current /\ p \in metadata' => p \in owed'
        /\ url /\ source = "file" /\ registry' /\ pc \in Unlisted => "devices" \in owed'
    BY DEF Failed, Undone
  <2>2. DescriptorsOwed'
    BY <2>1 DEF DebtInv, DescriptorsOwed
  <2>3. ListOwed'
    BY <2>1 DEF DebtInv, ListOwed
  <2>4. SourceKnown'
    BY DEF SourceKnown, Failed, Unlisted, Driven
  <2>5. QED
    BY <2>2, <2>3, <2>4 DEF DebtInv
<1>3. TroubleInv'
  BY DEF TroubleInv, Failed
<1>4. QED
  BY <1>1, <1>2, <1>3

----------------------------------------------------------------------------
(* The start before there is a server                                      *)

(* The steps of the start before the server.                               *)
Boot ==
  \/ edgex_registry_ping \/ edgex_registry_get_config
  \/ LoadConfig \/ (\E known \in BOOLEAN : edgex_registry_query_service(known))
  \/ edgex_registry_put_config \/ edgex_data_client_ping \/ edgex_metadata_client_ping
  \/ edgex_metadata_client_get_deviceservice \/ edgex_metadata_client_get_addressable
  \/ edgex_metadata_client_create_addressable
  \/ edgex_metadata_client_create_deviceservice
  \/ ScanProfiles \/ (\E p \in Profile : CheckProfile(p))
  \/ edgex_metadata_client_create_deviceprofile_file \/ FetchProfile
  \/ generate_value_descriptors \/ ProfilesDone
  \/ PopulateDevices

(* What they do to the rest: nothing is served, and of the jobs only the   *)
(* watcher of the registry is started.                                     *)
Booted ==
  /\ pc \in Booting \ {"server"} /\ pc' \in Booting \cup {"failed"}
  /\ UNCHANGED <<rest, handlers, serving, scheduler, busy, stopconfig, driver, starts>>
  /\ queued' \in {queued, {}, queued \cup {"watch"}}
  /\ devices' \in {devices, metadata \cap Device}

LEMMA BootEffects ==
  ASSUME Boot
  PROVE  Booted
<1> USE DEF Booted, Booting, Go, Keep, Fail, bootUnchanged, sideUnchanged, server, remote, boot, hist
<1>1. CASE edgex_registry_ping
  BY <1>1 DEF edgex_registry_ping, Ping
<1>2. CASE edgex_registry_get_config
  BY <1>2 DEF edgex_registry_get_config
<1>3. CASE LoadConfig
  BY <1>3 DEF LoadConfig
<1>4. ASSUME NEW known \in BOOLEAN, edgex_registry_query_service(known) PROVE Booted
  BY <1>4 DEF edgex_registry_query_service
<1>5. CASE edgex_registry_put_config
  BY <1>5 DEF edgex_registry_put_config, Called
<1>6. CASE edgex_data_client_ping
  BY <1>6 DEF edgex_data_client_ping, Ping
<1>7. CASE edgex_metadata_client_ping
  BY <1>7 DEF edgex_metadata_client_ping, Ping
<1>8. CASE edgex_metadata_client_get_deviceservice
  BY <1>8 DEF edgex_metadata_client_get_deviceservice, Get, Called
<1>9. CASE edgex_metadata_client_get_addressable
  BY <1>9 DEF edgex_metadata_client_get_addressable, Get, Called
<1>10. CASE edgex_metadata_client_create_addressable
  BY <1>10 DEF edgex_metadata_client_create_addressable, Post, Called
<1>11. CASE edgex_metadata_client_create_deviceservice
  BY <1>11 DEF edgex_metadata_client_create_deviceservice, Post, Called
<1>12. CASE ScanProfiles
  BY <1>12 DEF ScanProfiles
<1>13. ASSUME NEW p \in Profile, CheckProfile(p) PROVE Booted
  BY <1>13 DEF CheckProfile
<1>14. CASE edgex_metadata_client_create_deviceprofile_file
  BY <1>14 DEF edgex_metadata_client_create_deviceprofile_file, Post, Called
<1>15. CASE FetchProfile
  BY <1>15 DEF FetchProfile, Called
<1>16. CASE generate_value_descriptors
  BY <1>16 DEF generate_value_descriptors
<1>17. CASE ProfilesDone
  BY <1>17 DEF ProfilesDone
<1>18. CASE PopulateDevices
  BY <1>18 DEF PopulateDevices, Called
<1>19. QED
  BY <1>1, <1>2, <1>3, <1>4, <1>5, <1>6, <1>7, <1>8, <1>9, <1>10, <1>11,
     <1>12, <1>13, <1>14, <1>15, <1>16, <1>17, <1>18 DEF Boot

LEMMA BootCalls ==
  ASSUME ServerTypes, CallInv, Boot
  PROVE  ServerTypes' /\ CallInv'
<1>1. Booted
  BY BootEffects
<1>2. ServerTypes'
  BY <1>1 DEF ServerTypes, Booted, Job
<1>3. CallInv'
  BY <1>1 DEF ServerTypes, CallInv, Booted, Booting, Listing, Driven, Emptied, Job, Quiet
<1>4. QED
  BY <1>2, <1>3

(* A step of the start before there is a server preserves the rest.        *)
LEMMA BootNext ==
  ASSUME StartTypes, CallInv, DataInv, DebtInv, TroubleInv, Boot
  PROVE  StartTypes' /\ DataInv' /\ DebtInv' /\ TroubleInv'
<1> DEFINE G == StartTypes' /\ DataInv' /\ DebtInv' /\ TroubleInv'
<1> USE LifecycleAssumptions DEF Failed
<1>1. CASE edgex_registry_ping
  <2>1. Pinged("registry", "configuration", RegistryRetries, 0)
    BY <1>1, PingEffects DEF edgex_registry_ping
  <2>2. StartTypes'
    BY <2>1 DEF StartTypes, Pinged
  <2>3. ASSUME Failed PROVE G
    <3>1. trouble' = TRUE
      BY <2>1, <2>3 DEF DataInv, TroubleInv, StartTypes, Pinged
    <3>2. QED
      BY <2>1, <2>2, <2>3, <3>1, FailKeeps DEF StartTypes, DataInv, Unlisted, Pinged
  <2>4. ASSUME pc' # "failed" PROVE DataInv'
    BY <2>1, <2>4 DEF DataInv, StartTypes, Booting, Listing, Driven, Pinged
  <2>5. ASSUME pc' # "failed" PROVE DebtInv'
    BY <2>1, <2>5 DEF DataInv, DebtInv, SourceKnown, ListOwed, DescriptorsOwed, Unlisted,
       Driven, Pinged
  <2>6. ASSUME pc' # "failed" PROVE TroubleInv'
    BY <2>1, <2>6 DEF TroubleInv, StartTypes, Pinged
  <2>7. QED
    BY <2>1, <2>2, <2>3, <2>4, <2>5, <2>6 DEF Pinged
<1>2. CASE edgex_registry_get_config
  <2>1. /\ pc = "configuration"
        /\ UNCHANGED <<registry, metadata, described, url, retries, todo, current>>
        /\ UNCHANGED <<devices, starts, silent, trouble, owed>>
        /\ \/ pc' = "query" /\ source' = "registry" /\ registry = TRUE
           \/ pc' = "file"
    BY <1>2 DEF edgex_registry_get_config, StartTypes, Go, Keep, Fail, bootUnchanged,
       sideUnchanged, remote, boot, hist
  <2>2. StartTypes'
    BY <2>1 DEF StartTypes
  <2>3. DataInv'
    BY <2>1 DEF DataInv, StartTypes, Booting, Listing, Driven
  <2>4. DebtInv'
    BY <2>1 DEF DataInv, DebtInv, SourceKnown, ListOwed, DescriptorsOwed, Unlisted, Driven
  <2>5. TroubleInv'
    BY <2>1 DEF TroubleInv, StartTypes
  <2>6. QED
    BY <2>2, <2>3, <2>4, <2>5
<1>3. CASE LoadConfig
  <2>1. /\ pc = "file" /\ source' = "file" /\ pc' \in {"query", "upload"}
        /\ UNCHANGED <<registry, metadata, described, url, retries, todo, current>>
        /\ UNCHANGED <<devices, starts, silent, trouble, owed>>
    BY <1>3 DEF LoadConfig, StartTypes, Go, Keep, Fail, bootUnchanged, sideUnchanged, remote,
       boot, hist
  <2>2. StartTypes'
    BY <2>1 DEF StartTypes
  <2>3. DataInv'
    BY <2>1 DEF DataInv, StartTypes, Booting, Listing, Driven
  <2>4. DebtInv'
    BY <2>1 DEF DataInv, DebtInv, SourceKnown, ListOwed, DescriptorsOwed, Unlisted, Driven
  <2>5. TroubleInv'
    BY <2>1 DEF TroubleInv, StartTypes
  <2>6. QED
    BY <2>2, <2>3, <2>4, <2>5
<1>4. ASSUME NEW known \in BOOLEAN, edgex_registry_query_service(known) PROVE G
  <2>1. /\ pc = "query" /\ UNCHANGED <<registry, metadata, described, devices, starts, silent>>
        /\ UNCHANGED <<source, url, retries, todo, current>>
        /\ \/ pc' = "upload" /\ trouble' \in BOOLEAN /\ UNCHANGED owed
           \/ Failed /\ trouble' = TRUE
    BY <1>4 DEF edgex_registry_query_service, StartTypes, Go, Keep, Fail, bootUnchanged,
       sideUnchanged, remote, boot, hist
  <2>2. StartTypes'
    BY <2>1 DEF StartTypes
  <2>3. ASSUME Failed PROVE G
    <3>1. trouble' = TRUE
      BY <2>1, <2>3 DEF DataInv, TroubleInv, StartTypes
    <3>2. QED
      BY <2>1, <2>2, <2>3, <3>1, FailKeeps DEF StartTypes, DataInv, Unlisted
  <2>4. ASSUME pc' # "failed" PROVE DataInv'
    BY <2>1, <2>4 DEF DataInv, StartTypes, Booting, Listing, Driven
  <2>5. ASSUME pc' # "failed" PROVE DebtInv'
    BY <2>1, <2>5 DEF DataInv, DebtInv, SourceKnown, ListOwed, DescriptorsOwed, Unlisted, Driven
  <2>6. ASSUME pc' # "failed" PROVE TroubleInv'
    BY <2>1, <2>6 DEF TroubleInv, StartTypes
  <2>7. QED
    BY <2>1, <2>2, <2>3, <2>4, <2>5, <2>6
<1>5. CASE edgex_registry_put_config
  <2>1. /\ pc = "upload" /\ retries' = Retries /\ registry' \in BOOLEAN
        /\ UNCHANGED <<metadata, described, source, url, todo, current, devices, starts, silent>>
        /\ registry' = TRUE => registry = TRUE \/ (url = TRUE /\ source = "file")
        /\ registry = TRUE => registry' = TRUE
        /\ \/ pc' = "data" /\ UNCHANGED <<owed, trouble>>
           \/ Failed /\ trouble' = TRUE
    BY <1>5 DEF edgex_registry_put_config, Called, Outcome, StartTypes, Go, Keep, Fail,
       bootUnchanged, sideUnchanged, remote, boot, hist
  <2>2. StartTypes'
    BY <2>1 DEF StartTypes
  <2>3. ASSUME Failed PROVE G
    <3>1. trouble' = TRUE
      BY <2>1, <2>3 DEF DataInv, TroubleInv, StartTypes
    <3>2. QED
      BY <2>1, <2>2, <2>3, <3>1, FailKeeps DEF StartTypes, DataInv, Unlisted
  <2>4. ASSUME pc' # "failed" PROVE DataInv'
    BY <2>1, <2>4 DEF DataInv, StartTypes, Booting, Listing, Driven
  <2>5. ASSUME pc' # "failed" PROVE DebtInv'
    <3>1. pc' = "data" /\ UNCHANGED owed
      BY <2>1, <2>5
    <3>2. SourceKnown'
      BY <2>1, <3>1 DEF DebtInv, SourceKnown, Unlisted
    <3>3. ListOwed'
      BY <2>1, <3>1 DEF DebtInv, ListOwed, Unlisted
    <3>4. DescriptorsOwed'
      BY <2>1, <3>1 DEF DebtInv, DescriptorsOwed
    <3>5. QED
      BY <3>2, <3>3, <3>4 DEF DebtInv
  <2>6. ASSUME pc' # "failed" PROVE TroubleInv'
    BY <2>1, <2>6 DEF TroubleInv, StartTypes
  <2>7. QED
    BY <2>1, <2>2, <2>3, <2>4, <2>5, <2>6
<1>6. CASE edgex_data_client_ping
  <2>1. Pinged("data", "metadata", Retries, Retries)
    BY <1>6, PingEffects DEF edgex_data_client_ping
  <2>2. StartTypes'
    BY <2>1 DEF StartTypes, Pinged
  <2>3. ASSUME Failed PROVE G
    <3>1. trouble' = TRUE
      BY <2>1, <2>3 DEF DataInv, TroubleInv, StartTypes, Pinged
    <3>2. QED
      BY <2>1, <2>2, <2>3, <3>1, FailKeeps DEF StartTypes, DataInv, Unlisted, Pinged
  <2>4. ASSUME pc' # "failed" PROVE DataInv'
    BY <2>1, <2>4 DEF DataInv, StartTypes, Booting, Listing, Driven, Pinged
  <2>5. ASSUME pc' # "failed" PROVE DebtInv'
    BY <2>1, <2>5 DEF DataInv, DebtInv, SourceKnown, ListOwed, DescriptorsOwed, Unlisted,
       Driven, Pinged
  <2>6. ASSUME pc' # "failed" PROVE TroubleInv'
    BY <2>1, <2>6 DEF TroubleInv, StartTypes, Pinged
  <2>7. QED
    BY <2>1, <2>2, <2>3, <2>4, <2>5, <2>6 DEF Pinged
<1>7. CASE edgex_metadata_client_ping
  <2>1. Pinged("metadata", "service", Retries, 0)
    BY <1>7, PingEffects DEF edgex_metadata_client_ping
  <2>2. StartTypes'
    BY <2>1 DEF StartTypes, Pinged
  <2>3. ASSUME Failed PROVE G
    <3>1. trouble' = TRUE
      BY <2>1, <2>3 DEF DataInv, TroubleInv, StartTypes, Pinged
    <3>2. QED
      BY <2>1, <2>2, <2>3, <3>1, FailKeeps DEF StartTypes, DataInv, Unlisted, Pinged
  <2>4. ASSUME pc' # "failed" PROVE DataInv'
    BY <2>1, <2>4 DEF DataInv, StartTypes, Booting, Listing, Driven, Pinged
  <2>5. ASSUME pc' # "failed" PROVE DebtInv'
    BY <2>1, <2>5 DEF DataInv, DebtInv, SourceKnown, ListOwed, DescriptorsOwed, Unlisted,
       Driven, Pinged
  <2>6. ASSUME pc' # "failed" PROVE TroubleInv'
    BY <2>1, <2>6 DEF TroubleInv, StartTypes, Pinged
  <2>7. QED
    BY <2>1, <2>2, <2>3, <2>4, <2>5, <2>6 DEF Pinged
<1>8. CASE edgex_metadata_client_get_deviceservice
  <2>1. pc = "service" /\ Got("service", "profiles", "addressable")
    BY <1>8, GetEffects DEF edgex_metadata_client_get_deviceservice
  <2>2. StartTypes'
    BY <2>1 DEF StartTypes, Got
  <2>3. ASSUME Failed PROVE G
    <3>1. trouble' = TRUE
      BY <2>1, <2>3 DEF DataInv, TroubleInv, StartTypes, Got
    <3>2. QED
      BY <2>1, <2>2, <2>3, <3>1, FailKeeps DEF StartTypes, DataInv, Unlisted, Got
  <2>4. ASSUME pc' # "failed" PROVE DataInv'
    BY <2>1, <2>4 DEF DataInv, StartTypes, Booting, Listing, Driven, Got
  <2>5. ASSUME pc' # "failed" PROVE DebtInv'
    BY <2>1, <2>5 DEF DataInv, DebtInv, SourceKnown, ListOwed, DescriptorsOwed, Unlisted,
       Driven, Got
  <2>6. ASSUME pc' # "failed" PROVE TroubleInv'
    BY <2>1, <2>6 DEF TroubleInv, StartTypes, Got
  <2>7. QED
    BY <2>1, <2>2, <2>3, <2>4, <2>5, <2>6 DEF Got
<1>9. CASE edgex_metadata_client_get_addressable
  <2>1. pc = "addressable" /\ Got("addressable", "create service", "create addressable")
    BY <1>9, GetEffects DEF edgex_metadata_client_get_addressable
  <2>2. StartTypes'
    BY <2>1 DEF StartTypes, Got
  <2>3. ASSUME Failed PROVE G
    <3>1. trouble' = TRUE
      BY <2>1, <2>3 DEF DataInv, TroubleInv, StartTypes, Got
    <3>2. QED
      BY <2>1, <2>2, <2>3, <3>1, FailKeeps DEF StartTypes, DataInv, Unlisted, Got
  <2>4. ASSUME pc' # "failed" PROVE DataInv'
    BY <2>1, <2>4 DEF DataInv, StartTypes, Booting, Listing, Driven, Got
  <2>5. ASSUME pc' # "failed" PROVE DebtInv'
    BY <2>1, <2>5 DEF DataInv, DebtInv, SourceKnown, ListOwed, DescriptorsOwed, Unlisted,
       Driven, Got
  <2>6. ASSUME pc' # "failed" PROVE TroubleInv'
    BY <2>1, <2>6 DEF TroubleInv, StartTypes, Got
  <2>7. QED
    BY <2>1, <2>2, <2>3, <2>4, <2>5, <2>6 DEF Got
<1>10. CASE edgex_metadata_client_create_addressable
  <2>1. /\ pc = "create addressable" /\ Posted("addressable", "create service")
        /\ UNCHANGED <<source, url, retries, todo, current>>
    BY <1>10, PostEffects DEF edgex_metadata_client_create_addressable, bootUnchanged
  <2>2. StartTypes'
    BY <2>1 DEF StartTypes, Posted
  <2>3. ASSUME Failed PROVE G
    <3>1. trouble' = TRUE
      BY <2>1, <2>3 DEF DataInv, TroubleInv, StartTypes, Posted
    <3>2. QED
      BY <2>1, <2>2, <2>3, <3>1, FailKeeps DEF StartTypes, DataInv, Unlisted, Posted
  <2>4. ASSUME pc' # "failed" PROVE DataInv'
    BY <2>1, <2>4 DEF DataInv, StartTypes, Booting, Listing, Driven, Posted
  <2>5. ASSUME pc' # "failed" PROVE DebtInv'
    BY <2>1, <2>5 DEF DataInv, DebtInv, SourceKnown, ListOwed, DescriptorsOwed, Unlisted,
       Driven, Posted
  <2>6. ASSUME pc' # "failed" PROVE TroubleInv'
    BY <2>1, <2>6 DEF TroubleInv, StartTypes, Posted
  <2>7. QED
    BY <2>1, <2>2, <2>3, <2>4, <2>5, <2>6 DEF Posted
<1>11. CASE edgex_metadata_client_create_deviceservice
  <2>1. /\ pc = "create service" /\ Posted("service", "profiles")
        /\ UNCHANGED <<source, url, retries, todo, current>>
    BY <1>11, PostEffects DEF edgex_metadata_client_create_deviceservice, bootUnchanged
  <2>2. StartTypes'
    BY <2>1 DEF StartTypes, Posted
  <2>3. ASSUME Failed PROVE G
    <3>1. trouble' = TRUE
      BY <2>1, <2>3 DEF DataInv, TroubleInv, StartTypes, Posted
    <3>2. QED
      BY <2>1, <2>2, <2>3, <3>1, FailKeeps DEF StartTypes, DataInv, Unlisted, Posted
  <2>4. ASSUME pc' # "failed" PROVE DataInv'
    BY <2>1, <2>4 DEF DataInv, StartTypes, Booting, Listing, Driven, Posted
  <2>5. ASSUME pc' # "failed" PROVE DebtInv'
    BY <2>1, <2>5 DEF DataInv, DebtInv, SourceKnown, ListOwed, DescriptorsOwed, Unlisted,
       Driven, Posted
  <2>6. ASSUME pc' # "failed" PROVE TroubleInv'
    BY <2>1, <2>6 DEF TroubleInv, StartTypes, Posted
  <2>7. QED
    BY <2>1, <2>2, <2>3, <2>4, <2>5, <2>6 DEF Posted
<1>12. CASE ScanProfiles
  <2>1. /\ pc = "profiles" /\ pc' = "each profile" /\ todo' = Profile
        /\ UNCHANGED <<registry, metadata, described, source, url, retries, current>>
        /\ UNCHANGED <<devices, starts, silent, trouble, owed>>
    BY <1>12 DEF ScanProfiles, StartTypes, Go, Keep, Fail, bootUnchanged, sideUnchanged,
       remote, boot, hist
  <2>2. StartTypes'
    BY <2>1 DEF StartTypes
  <2>3. DataInv'
    BY <2>1 DEF DataInv, StartTypes, Booting, Listing, Driven
  <2>4. DebtInv'
    BY <2>1 DEF DataInv, DebtInv, SourceKnown, ListOwed, DescriptorsOwed, Unlisted, Driven
  <2>5. TroubleInv'
    BY <2>1 DEF TroubleInv, StartTypes
  <2>6. QED
    BY <2>2, <2>3, <2>4, <2>5
<1>13. ASSUME NEW p \in Profile, CheckProfile(p) PROVE G
  <2>1. /\ pc = "each profile" /\ todo' = todo \ {p}
        /\ UNCHANGED <<registry, metadata, described, source, url, retries>>
        /\ UNCHANGED <<devices, starts, silent, owed>>
        /\ \/ pc' = "each profile" /\ p \in metadata /\ UNCHANGED trouble
           \/ /\ pc' = "create profile" /\ current' = p /\ trouble' \in {trouble, TRUE}
              /\ p \notin metadata \/ trouble' = TRUE
    BY <1>13 DEF CheckProfile, StartTypes, Go, Keep, Fail, bootUnchanged, sideUnchanged,
       remote, boot, hist
  <2>2. StartTypes'
    BY <2>1 DEF StartTypes
  <2>3. DataInv'
    BY <2>1 DEF DataInv, StartTypes, Booting, Listing, Driven
  <2>4. DebtInv'
    BY <2>1 DEF DataInv, DebtInv, SourceKnown, ListOwed, DescriptorsOwed, Unlisted, Driven
  <2>5. TroubleInv'
    BY <2>1 DEF TroubleInv, StartTypes
  <2>6. QED
    BY <2>2, <2>3, <2>4, <2>5
<1>14. CASE edgex_metadata_client_create_deviceprofile_file
  <2>1. /\ pc = "create profile" /\ Posted(current, "fetch profile")
        /\ UNCHANGED <<source, url, retries, todo, current>>
    BY <1>14, PostEffects DEF edgex_metadata_client_create_deviceprofile_file, bootUnchanged
  <2>2. StartTypes'
    BY <2>1 DEF StartTypes, Posted
  <2>3. ASSUME Failed PROVE G
    <3>1. trouble' = TRUE
      BY <2>1, <2>3 DEF DataInv, TroubleInv, StartTypes, Posted
    <3>2. QED
      BY <2>1, <2>2, <2>3, <3>1, FailKeeps DEF StartTypes, DataInv, Unlisted, Posted
  <2>4. ASSUME pc' # "failed" PROVE DataInv'
    BY <2>1, <2>4 DEF DataInv, StartTypes, Booting, Listing, Driven, Posted
  <2>5. ASSUME pc' # "failed" PROVE DebtInv'
    BY <2>1, <2>5 DEF DataInv, DebtInv, SourceKnown, ListOwed, DescriptorsOwed, Unlisted,
       Driven, Posted
  <2>6. ASSUME pc' # "failed" PROVE TroubleInv'
    BY <2>1, <2>6 DEF TroubleInv, StartTypes, Posted
  <2>7. QED
    BY <2>1, <2>2, <2>3, <2>4, <2>5, <2>6 DEF Posted
<1>15. CASE FetchProfile
  <2>1. /\ pc = "fetch profile" /\ UNCHANGED <<registry, metadata, described, devices, starts, silent>>
        /\ UNCHANGED <<source, url, retries, todo, current>>
        /\ \/ pc' = "describe" /\ UNCHANGED <<owed, trouble>>
           \/ Failed /\ trouble' = TRUE
    BY <1>15 DEF FetchProfile, Called, StartTypes, Go, Keep, Fail, bootUnchanged,
       sideUnchanged, remote, boot, hist
  <2>2. StartTypes'
    BY <2>1 DEF StartTypes
  <2>3. ASSUME Failed PROVE G
    <3>1. trouble' = TRUE
      BY <2>1, <2>3 DEF DataInv, TroubleInv, StartTypes
    <3>2. QED
      BY <2>1, <2>2, <2>3, <3>1, FailKeeps DEF StartTypes, DataInv, Unlisted
  <2>4. ASSUME pc' # "failed" PROVE DataInv'
    BY <2>1, <2>4 DEF DataInv, StartTypes, Booting, Listing, Driven
  <2>5. ASSUME pc' # "failed" PROVE DebtInv'
    BY <2>1, <2>5 DEF DataInv, DebtInv, SourceKnown, ListOwed, DescriptorsOwed, Unlisted, Driven
  <2>6. ASSUME pc' # "failed" PROVE TroubleInv'
    BY <2>1, <2>6 DEF TroubleInv, StartTypes
  <2>7. QED
    BY <2>1, <2>2, <2>3, <2>4, <2>5, <2>6
<1>16. CASE generate_value_descriptors
  <2>1. /\ pc = "describe" /\ pc' = "each profile"
        /\ UNCHANGED <<registry, metadata, source, url, retries, todo>>
        /\ UNCHANGED <<devices, starts, silent, trouble>>
        /\ \/ described' = described \cup {current} /\ owed' = owed
           \/ described' = described /\ owed' = owed \cup {current}
    BY <1>16 DEF generate_value_descriptors, Taken, Outcome, StartTypes, Go, Keep, Fail,
       bootUnchanged, sideUnchanged, remote, boot, hist
  <2>2. StartTypes'
    BY <2>1 DEF StartTypes
  <2>3. DataInv'
    BY <2>1 DEF DataInv, StartTypes, Booting, Listing, Driven
  <2>4. DebtInv'
    BY <2>1 DEF DataInv, DebtInv, SourceKnown, ListOwed, DescriptorsOwed, Unlisted, Driven
  <2>5. TroubleInv'
    BY <2>1 DEF TroubleInv, StartTypes
  <2>6. QED
    BY <2>2, <2>3, <2>4, <2>5
<1>17. CASE ProfilesDone
  <2>1. /\ pc = "each profile" /\ pc' = "devices" /\ todo = {}
        /\ UNCHANGED <<source, url, retries, todo, current>>
        /\ UNCHANGED <<registry, metadata, described, devices, starts, silent, trouble, owed>>
    BY <1>17 DEF ProfilesDone, StartTypes, Go, Keep, Fail, bootUnchanged, sideUnchanged,
       remote, boot, hist
  <2>2. StartTypes'
    BY <2>1 DEF StartTypes
  <2>3. DataInv'
    BY <2>1 DEF DataInv, StartTypes, Booting, Listing, Driven
  <2>4. DebtInv'
    BY <2>1 DEF DataInv, DebtInv, SourceKnown, ListOwed, DescriptorsOwed, Unlisted, Driven
  <2>5. TroubleInv'
    BY <2>1 DEF TroubleInv, StartTypes
  <2>6. QED
    BY <2>2, <2>3, <2>4, <2>5
<1>18. CASE PopulateDevices
  <2>1. /\ pc = "devices" /\ UNCHANGED <<registry, metadata, described, starts, silent>>
        /\ UNCHANGED <<source, url, retries, todo, current>>
        /\ \/ pc' = "server" /\ devices' = metadata \cap Device /\ UNCHANGED <<owed, trouble>>
           \/ Failed /\ trouble' = TRUE /\ UNCHANGED devices
    BY <1>18 DEF PopulateDevices, Called, StartTypes, Go, Keep, Fail, bootUnchanged,
       sideUnchanged, remote, boot, hist
  <2>2. StartTypes'
    BY <2>1 DEF StartTypes
  <2>3. ASSUME Failed PROVE G
    <3>1. trouble' = TRUE
      BY <2>1, <2>3 DEF DataInv, TroubleInv, StartTypes
    <3>2. QED
      BY <2>1, <2>2, <2>3, <3>1, FailKeeps DEF StartTypes, DataInv, Unlisted
  <2>4. ASSUME pc' # "failed" PROVE DataInv'
    BY <2>1, <2>4 DEF DataInv, StartTypes, Booting, Listing, Driven
  <2>5. ASSUME pc' # "failed" PROVE DebtInv'
    BY <2>1, <2>5 DEF DataInv, DebtInv, SourceKnown, ListOwed, DescriptorsOwed, Unlisted, Driven
  <2>6. ASSUME pc' # "failed" PROVE TroubleInv'
    BY <2>1, <2>6 DEF TroubleInv, StartTypes
  <2>7. QED
    BY <2>1, <2>2, <2>3, <2>4, <2>5, <2>6
<1>19. QED
  BY <1>1, <1>2, <1>3, <1>4, <1>5, <1>6, <1>7, <1>8, <1>9, <1>10, <1>11, <1>12, <1>13, <1>14,
     <1>15, <1>16, <1>17, <1>18 DEF Boot

----------------------------------------------------------------------------
(* The rest of the start                                                   *)

(* A step that does nothing to what the start keeps, except for devices    *)
(* that come into the map or leave it when nobody looks.                   *)
Undisturbed ==
  /\ UNCHANGED <<registry, metadata, described, source, url, retries, todo, current>>
  /\ UNCHANGED <<starts, silent, trouble, owed>>
  /\ devices' \subseteq metadata
  /\ pc' \in {"server", "callback", "DeviceList"} => devices \subseteq devices'
  /\ \/ pc' = pc
     \/ pc \in Driven /\ pc' \in Driven
     \/ /\ pc \in Driven \cup {"stop scheduler", "destroy", "join"} \cup Emptied
        /\ pc' \in {"stop scheduler", "destroy", "join"} \cup Emptied

LEMMA UndisturbedNext ==
  ASSUME StartTypes, DataInv, DebtInv, TroubleInv, Undisturbed
  PROVE  StartTypes' /\ DataInv' /\ DebtInv' /\ TroubleInv'
<1>1. StartTypes'
  BY DEF StartTypes, Undisturbed, Driven, Emptied
<1>2. DataInv'
  BY DEF DataInv, Undisturbed, Booting, Listing, Driven, Emptied
<1>3. DebtInv'
  <2>1. SourceKnown'
    BY DEF DebtInv, SourceKnown, Undisturbed, Unlisted, Driven, Emptied
  <2>2. ListOwed'
    BY DEF DebtInv, ListOwed, Undisturbed, Unlisted, Driven, Emptied
  <2>3. DescriptorsOwed'
    BY DEF DebtInv, DescriptorsOwed, Undisturbed, Driven, Emptied
  <2>4. QED
    BY <2>1, <2>2, <2>3 DEF DebtInv
<1>4. TroubleInv'
  BY DEF TroubleInv, Undisturbed, Driven, Emptied
<1>5. QED
  BY <1>1, <1>2, <1>3, <1>4

(* What the start keeps holds after a step, and what the server keeps.     *)
Kept == StartTypes' /\ DataInv' /\ DebtInv' /\ TroubleInv'
Served == ServerTypes' /\ CallInv'

LEMMA EmptyHandlers == <<>> \in Seq(Kind) /\ DOMAIN <<>> = {} /\ Len(<<>>) = 0
OBVIOUS

(* The start of a process.                                                 *)
LEMMA NewNext ==
  ASSUME StartTypes, DataInv, DebtInv, TroubleInv, edgex_device_service_new
  PROVE  Kept /\ Served /\ pc' \in Steps
<1>1. /\ pc = "down" /\ starts' = starts + 1 /\ retries' = RegistryRetries
      /\ url' \in BOOLEAN /\ pc' \in {"registry", "file"} /\ devices' = {} /\ rest' = FALSE
      /\ handlers' = <<>> /\ serving' = [r \in Request |-> NULL] /\ scheduler' = FALSE
      /\ queued' = {} /\ busy' = {} /\ stopconfig' = FALSE /\ driver' = "down"
      /\ silent' = 0 /\ trouble' = FALSE
      /\ UNCHANGED <<owed, registry, metadata, described>>
  BY DEF edgex_device_service_new, Go, Keep, remote
<1>2. StartTypes'
  <2>1. RegistryRetries \in Nat /\ RegistryRetries # 0
    BY LifecycleAssumptions
  <2>2. starts' \in Nat
    BY <1>1 DEF StartTypes
  <2>3. QED
    BY <1>1, <2>1, <2>2 DEF StartTypes
<1>3. DataInv'
  BY <1>1 DEF DataInv, Booting, Listing, Driven
<1>4. DebtInv'
  BY <1>1 DEF DebtInv, SourceKnown, ListOwed, DescriptorsOwed, Unlisted, Driven
<1>5. TroubleInv'
  BY <1>1, LifecycleAssumptions DEF TroubleInv
<1>6. ServerTypes'
  BY <1>1, EmptyHandlers DEF ServerTypes, Kind
<1>7. CallInv'
  <2>1. \A r \in Request : serving'[r] = NULL /\ serving'[r] \notin {"device", "discovery"}
    BY <1>1, LifecycleAssumptions
  <2>2. QED
    BY <1>1, <2>1, EmptyHandlers DEF CallInv, Quiet, Booting, Listing, Driven, Emptied
<1>8. QED
  BY <1>1, <1>2, <1>3, <1>4, <1>5, <1>6, <1>7 DEF Kept, Served, Steps, Booting

(* The end of a process owes what it leaves undone.                        *)
LEMMA EndNext ==
  ASSUME StartTypes, DataInv, DebtInv, Exit \/ Crash
  PROVE  Kept /\ Served /\ pc' \in Steps
<1>1. /\ pc' = "down" /\ devices' = {} /\ rest' = FALSE /\ retries' = 0 /\ url' = FALSE
      /\ handlers' = <<>> /\ serving' = [r \in Request |-> NULL] /\ scheduler' = FALSE
      /\ queued' = {} /\ busy' = {} /\ stopconfig' = FALSE /\ driver' = "down"
      /\ UNCHANGED <<registry, metadata, described, silent, trouble, starts>>
  BY DEF Exit, Crash, End, remote
<1>2. /\ owed \subseteq owed'
      /\ pc \in {"fetch profile", "describe"} =>
           \A p \in Profile : p = current /\ p \in metadata' => p \in owed'
      /\ url /\ source = "file" /\ registry' /\ pc \in Unlisted => "devices" \in owed'
  <2>1. CASE Exit
    BY <2>1 DEF Exit, Keep, Unlisted
  <2>2. CASE Crash
    BY <2>2 DEF Crash, Undone
  <2>3. QED
    BY <2>1, <2>2
<1>3. StartTypes'
  BY <1>1 DEF StartTypes
<1>4. DataInv'
  BY <1>1 DEF DataInv, Booting, Listing, Driven
<1>5. DebtInv'
  <2>1. SourceKnown'
    BY <1>1 DEF SourceKnown, Unlisted, Driven
  <2>2. ListOwed'
    BY <1>1, <1>2 DEF DebtInv, ListOwed
  <2>3. DescriptorsOwed'
    BY <1>1, <1>2 DEF DebtInv, DescriptorsOwed
  <2>4. QED
    BY <2>1, <2>2, <2>3 DEF DebtInv
<1>6. TroubleInv'
  BY <1>1 DEF TroubleInv
<1>7. ServerTypes'
  BY <1>1, EmptyHandlers DEF ServerTypes, Kind
<1>8. CallInv'
  <2>1. \A r \in Request : serving'[r] = NULL /\ serving'[r] \notin {"device", "discovery"}
    BY <1>1, LifecycleAssumptions
  <2>2. QED
    BY <1>1, <2>1, EmptyHandlers DEF CallInv, Quiet, Booting, Listing, Driven, Emptied
<1>9. QED
  BY <1>1, <1>3, <1>4, <1>5, <1>6, <1>7, <1>8 DEF Kept, Served, Steps

(* A handler is put in front of the others.                                *)
LEMMA RegisterFacts ==
  ASSUME NEW kind \in Kind, handlers \in Seq(Kind), handlers' = <<kind>> \o handlers
  PROVE  /\ handlers' \in Seq(Kind) /\ Len(handlers) \in Nat /\ Len(handlers') = Len(handlers) + 1
         /\ \A n \in DOMAIN handlers' :
              handlers'[n] = kind \/ \E i \in DOMAIN handlers : handlers'[n] = handlers[i]
<1>1. /\ <<kind>> \in Seq(Kind) /\ Len(<<kind>>) = 1 /\ <<kind>>[1] = kind
  OBVIOUS
<1>2. /\ handlers' \in Seq(Kind) /\ Len(handlers') = 1 + Len(handlers)
      /\ \A i \in 1..(1 + Len(handlers)) :
           handlers'[i] = IF i <= 1 THEN <<kind>>[i] ELSE handlers[i - 1]
  BY <1>1, ConcatProperties
<1>3. /\ Len(handlers) \in Nat /\ DOMAIN handlers = 1..Len(handlers)
      /\ DOMAIN handlers' = 1..Len(handlers')
  BY <1>2, LenProperties
<1>4. QED
  BY <1>1, <1>2, <1>3

(* The server and its first handler, the device list and the driver's      *)
(* init.                                                                   *)
LEMMA ServerNext ==
  ASSUME StartTypes, ServerTypes, CallInv, DataInv, DebtInv, TroubleInv, edgex_rest_server_create
  PROVE  Kept /\ Served /\ pc' \in Steps
<1>1. /\ pc = "server"
      /\ UNCHANGED <<registry, metadata, described, source, url, retries, todo, current>>
      /\ UNCHANGED <<devices, handlers, serving, scheduler, busy, stopconfig, driver, starts, silent>>
      /\ \/ rest' = TRUE /\ pc' = "callback" /\ UNCHANGED <<owed, trouble, queued>>
         \/ rest' = FALSE /\ trouble' = TRUE /\ Failed
  BY DEF edgex_rest_server_create, Go, Fail, Failed, bootUnchanged, remote
<1>2. StartTypes'
  BY <1>1 DEF StartTypes, Failed
<1>3. ServerTypes'
  BY <1>1 DEF ServerTypes, Failed
<1>4. CallInv'
  BY <1>1 DEF CallInv, ServerTypes, Quiet, Booting, Listing, Driven, Emptied, Failed
<1>5. CASE Failed
  <2>1. DataInv' /\ DebtInv' /\ TroubleInv'
    BY <1>1, <1>5, FailKeeps DEF StartTypes, DataInv, Failed
  <2>2. QED
    BY <1>1, <1>2, <1>3, <1>4, <1>5, <2>1 DEF Kept, Served, Steps, Failed
<1>6. CASE pc' = "callback" /\ UNCHANGED <<owed, trouble>>
  <2>1. DataInv'
    BY <1>1, <1>6 DEF DataInv, Booting, Listing, Driven
  <2>2. DebtInv'
    BY <1>1, <1>6 DEF DebtInv, SourceKnown, ListOwed, DescriptorsOwed, Unlisted, Driven
  <2>3. TroubleInv'
    BY <1>1, <1>6 DEF TroubleInv
  <2>4. QED
    BY <1>2, <1>3, <1>4, <1>6, <2>1, <2>2, <2>3 DEF Kept, Served, Steps, Listing
<1>7. QED
  BY <1>1, <1>5, <1>6

LEMMA CallbackNext ==
  ASSUME StartTypes, ServerTypes, CallInv, DataInv, DebtInv, TroubleInv, RegisterCallback
  PROVE  Kept /\ Served /\ pc' \in Steps
<1>1. /\ pc = "callback" /\ pc' = "DeviceList" /\ handlers' = <<"callback">> \o handlers
      /\ todo' = IF source = "file" THEN Device ELSE {}
      /\ UNCHANGED <<registry, metadata, described, source, url, retries, current>>
      /\ UNCHANGED <<devices, rest, serving, scheduler, queued, busy, stopconfig, driver, starts>>
      /\ UNCHANGED <<silent, trouble, owed>>
  BY DEF RegisterCallback, edgex_rest_server_register_handler, Go, remote, pool, hist
<1>2. StartTypes'
  BY <1>1 DEF StartTypes
<1>3. handlers = <<>> /\ Quiet
  BY <1>1 DEF CallInv
<1>4. handlers' = <<"callback">> /\ handlers' \in Seq(Kind) /\ DOMAIN handlers' = {1}
      /\ handlers'[1] = "callback"
  BY <1>1, <1>3 DEF Kind
<1>5. ServerTypes'
  BY <1>1, <1>4 DEF ServerTypes
<1>6. CallInv'
  BY <1>1, <1>3, <1>4 DEF CallInv, ServerTypes, Quiet, Booting, Listing, Driven, Emptied
<1>7. DataInv'
  BY <1>1 DEF DataInv, Booting, Listing, Driven
<1>8. DebtInv'
  BY <1>1 DEF DebtInv, SourceKnown, ListOwed, DescriptorsOwed, Unlisted, Driven
<1>9. TroubleInv'
  BY <1>1 DEF TroubleInv
<1>10. QED
  BY <1>1, <1>2, <1>5, <1>6, <1>7, <1>8, <1>9 DEF Kept, Served, Steps, Listing

LEMMA ProcessNext ==
  ASSUME StartTypes, ServerTypes, CallInv, DataInv, DebtInv, TroubleInv,
         NEW d \in Device, ProcessDevice(d)
  PROVE  Kept /\ Served /\ pc' \in Steps
<1>1. /\ pc = "DeviceList" /\ d \in todo /\ todo' = todo \ {d}
      /\ UNCHANGED <<source, url, retries, current>>
      /\ UNCHANGED <<rest, handlers, serving, scheduler, busy, stopconfig, driver>>
      /\ queued' \in {queued, {}}
      /\ \/ /\ d \in devices /\ pc' = "DeviceList"
            /\ UNCHANGED <<registry, metadata, described, devices, silent>>
            /\ UNCHANGED <<trouble, owed, queued, starts>>
         \/ d \notin devices /\ Posted(d, "DeviceList")
  <2>1. Post(d, "DeviceList") => Posted(d, "DeviceList")
    BY PostEffects
  <2>2. Post(d, "DeviceList") =>
          /\ UNCHANGED <<rest, handlers, serving, scheduler, busy, stopconfig, driver>>
          /\ queued' \in {queued, {}}
    BY DEF Post, sideUnchanged, server, Called, Fail
  <2>3. QED
    BY <2>1, <2>2 DEF ProcessDevice, Go, remote, hist, sideUnchanged, server
<1>2. StartTypes'
  BY <1>1 DEF StartTypes, Posted, Failed
<1>3. ServerTypes'
  BY <1>1 DEF ServerTypes, Posted
<1>4. pc' \in {"DeviceList", "failed"}
  BY <1>1 DEF Posted, Failed
<1>5. CallInv'
  BY <1>1, <1>4 DEF CallInv, ServerTypes, Quiet, Booting, Listing, Driven, Emptied
<1>6. d \notin Profile /\ d \notin {"addressable", "service"}
  BY LifecycleAssumptions
<1>7. CASE Failed
  <2>1. d \notin devices /\ Posted(d, "DeviceList")
    BY <1>1, <1>7 DEF Failed
  <2>2. d \notin metadata
    BY <1>1, <2>1 DEF DataInv
  <2>3. trouble' = TRUE /\ metadata \subseteq metadata' /\ metadata' \subseteq metadata \cup {d}
    BY <1>7, <2>1, <2>2 DEF Posted, Failed
  <2>4. UNCHANGED <<devices, described, url, source, current, registry>>
    BY <1>1, <2>1 DEF Posted
  <2>5. DataInv' /\ DebtInv' /\ TroubleInv'
    BY <1>6, <1>7, <2>3, <2>4, FailKeeps DEF StartTypes, DataInv
  <2>6. QED
    BY <1>2, <1>3, <1>4, <1>5, <2>5 DEF Kept, Served, Steps, Listing
<1>8. CASE ~Failed
  <2>1. /\ pc' = "DeviceList" /\ UNCHANGED <<registry, described, devices, silent, trouble, owed>>
        /\ \/ d \in devices /\ metadata' = metadata
           \/ metadata' = metadata \cup {d}
    BY <1>1, <1>8 DEF Posted
  <2>2. DataInv'
    BY <1>1, <1>6, <2>1 DEF DataInv, Booting, Listing, Driven
  <2>3. DebtInv'
    <3>1. SourceKnown'
      BY <1>1, <2>1 DEF DebtInv, SourceKnown, Unlisted
    <3>2. ListOwed'
      BY <1>1, <2>1 DEF DebtInv, ListOwed
    <3>3. DescriptorsOwed'
      BY <1>1, <1>6, <2>1 DEF DebtInv, DescriptorsOwed
    <3>4. QED
      BY <3>1, <3>2, <3>3 DEF DebtInv
  <2>4. TroubleInv'
    BY <1>1, <2>1 DEF TroubleInv
  <2>5. QED
    BY <1>2, <1>3, <1>4, <1>5, <2>2, <2>3, <2>4 DEF Kept, Served, Steps, Listing
<1>9. QED
  BY <1>7, <1>8

LEMMA ListDoneNext ==
  ASSUME StartTypes, ServerTypes, CallInv, DataInv, DebtInv, TroubleInv, DeviceListDone
  PROVE  Kept /\ Served /\ pc' \in Steps
<1>1. /\ pc = "DeviceList" /\ pc' = "init" /\ todo = {}
      /\ owed' = IF source = "file" THEN owed \ {"devices"} ELSE owed
      /\ UNCHANGED <<registry, metadata, described, source, url, retries, todo, current, devices>>
      /\ UNCHANGED <<rest, handlers, serving, scheduler, queued, busy, stopconfig, driver>>
      /\ UNCHANGED <<starts, silent, trouble>>
  BY DEF DeviceListDone, Go, bootUnchanged, sideUnchanged, remote, server
<1>2. StartTypes'
  BY <1>1 DEF StartTypes
<1>3. ServerTypes'
  BY <1>1 DEF ServerTypes
<1>4. CallInv'
  BY <1>1 DEF CallInv, Quiet, Booting, Listing, Driven, Emptied
<1>5. DataInv'
  BY <1>1 DEF DataInv, Booting, Listing, Driven
<1>6. DebtInv'
  <2>1. SourceKnown'
    BY <1>1 DEF DebtInv, SourceKnown, Unlisted
  <2>2. ListOwed'
    BY <1>1 DEF DebtInv, DataInv, ListOwed
  <2>3. "devices" \notin Profile
    BY LifecycleAssumptions
  <2>4. DescriptorsOwed'
    BY <1>1, <2>3 DEF DebtInv, DescriptorsOwed
  <2>5. QED
    BY <2>1, <2>2, <2>4 DEF DebtInv
<1>7. TroubleInv'
  BY <1>1 DEF TroubleInv
<1>8. QED
  BY <1>1, <1>2, <1>3, <1>4, <1>5, <1>6, <1>7 DEF Kept, Served, Steps, Listing

(* The driver's init and the registration: nothing is written any more.    *)
LEMMA LateSteps ==
  ASSUME StartTypes, DataInv, DebtInv,
         pc \in {"init", "register"}, pc' \in {"schedule", "running", "failed"},
         pc' = "failed" => trouble' = TRUE, trouble' \in BOOLEAN,
         UNCHANGED <<registry, metadata, described, source, url, retries, todo, current>>,
         UNCHANGED <<devices, starts, silent, owed>>
  PROVE  Kept
<1>1. StartTypes'
  BY DEF StartTypes
<1>2. DataInv'
  BY DEF DataInv, Booting, Listing, Driven
<1>3. DebtInv'
  BY DEF DebtInv, SourceKnown, ListOwed, DescriptorsOwed, Unlisted, Driven
<1>4. TroubleInv'
  BY DEF TroubleInv
<1>5. QED
  BY <1>1, <1>2, <1>3, <1>4 DEF Kept

LEMMA InitNext ==
  ASSUME StartTypes, ServerTypes, CallInv, DataInv, DebtInv, TroubleInv, InitDriver
  PROVE  Kept /\ Served /\ pc' \in Steps
<1>1. /\ pc = "init"
      /\ UNCHANGED <<registry, metadata, described, source, url, retries, todo, current, devices>>
      /\ UNCHANGED <<rest, handlers, serving, scheduler, busy, stopconfig, starts, silent, owed>>
      /\ \/ driver' = "up" /\ pc' = "schedule" /\ UNCHANGED <<trouble, queued>>
         \/ driver' = "down" /\ pc' = "failed" /\ trouble' = TRUE /\ queued' = {}
  BY DEF InitDriver, random_init, Go, bootUnchanged, remote, server
<1>2. Kept
  BY <1>1, LateSteps DEF StartTypes
<1>3. ServerTypes'
  BY <1>1 DEF ServerTypes
<1>4. handlers = <<"callback">> /\ driver = "down"
  BY <1>1 DEF CallInv, Listing
<1>5. CallInv'
  BY <1>1, <1>4 DEF CallInv, ServerTypes, Quiet, Booting, Listing, Driven, Emptied
<1>6. QED
  BY <1>1, <1>2, <1>3, <1>5 DEF Served, Steps, Driven

LEMMA RegistrationNext ==
  ASSUME StartTypes, ServerTypes, CallInv, DataInv, DebtInv, TroubleInv,
         edgex_registry_register_service
  PROVE  Kept /\ Served /\ pc' \in Steps
<1>1. /\ pc = "register"
      /\ UNCHANGED <<registry, metadata, described, source, url, retries, todo, current, devices>>
      /\ UNCHANGED <<rest, handlers, serving, scheduler, busy, stopconfig, driver, starts, silent, owed>>
      /\ \/ pc' = "running" /\ trouble' \in BOOLEAN /\ UNCHANGED queued
         \/ pc' = "failed" /\ trouble' = TRUE /\ queued' = {}
  BY DEF edgex_registry_register_service, Go, bootUnchanged, sideUnchanged, remote, server,
         StartTypes, Outcome
<1>2. Kept
  BY <1>1, LateSteps
<1>3. ServerTypes'
  BY <1>1 DEF ServerTypes
<1>4. CallInv'
  BY <1>1 DEF CallInv, ServerTypes, Quiet, Booting, Listing, Driven, Emptied
<1>5. QED
  BY <1>1, <1>2, <1>3, <1>4 DEF Served, Steps, Driven

(* The scheduler and the other handlers.                                   *)
LEMMA InTurnFacts == Len(InTurn) = 5 /\ \A n \in 1..5 : InTurn[n] \in Kind
BY DEF InTurn, Kind

LEMMA SchedulerNext ==
  ASSUME ServerTypes, CallInv, DataInv, StartScheduler
  PROVE  Undisturbed /\ Served /\ pc' \in Steps
<1>1. /\ pc = "schedule" /\ pc' = "handlers" /\ scheduler' = TRUE
      /\ UNCHANGED <<registry, metadata, described, source, url, retries, todo, current, devices>>
      /\ UNCHANGED <<rest, handlers, serving, queued, busy, stopconfig, driver>>
      /\ UNCHANGED <<starts, silent, trouble, owed>>
  BY DEF StartScheduler, Go, bootUnchanged, remote, server, hist
<1>2. Undisturbed
  BY <1>1 DEF Undisturbed, DataInv, Driven
<1>3. ServerTypes'
  BY <1>1 DEF ServerTypes
<1>4. handlers = <<"callback">> /\ Len(handlers) = 1 /\ driver = "up"
  BY <1>1 DEF CallInv, Driven
<1>5. CallInv'
  BY <1>1, <1>4 DEF CallInv, Quiet, Booting, Listing, Driven, Emptied
<1>6. QED
  BY <1>1, <1>2, <1>3, <1>5 DEF Served, Steps, Driven

LEMMA HandlersNext ==
  ASSUME ServerTypes, CallInv, DataInv, RegisterHandler
  PROVE  Undisturbed /\ Served /\ pc' \in Steps
<1>1. /\ pc = "handlers" /\ handlers' = <<InTurn[Len(handlers)]>> \o handlers
      /\ pc' = IF Len(handlers) = Len(InTurn) THEN "register" ELSE "handlers"
      /\ UNCHANGED <<registry, metadata, described, source, url, retries, todo, current, devices>>
      /\ UNCHANGED <<rest, serving, scheduler, queued, busy, stopconfig, driver>>
      /\ UNCHANGED <<starts, silent, trouble, owed>>
  BY DEF RegisterHandler, edgex_rest_server_register_handler, Go, bootUnchanged, remote, pool,
     hist
<1>2. Undisturbed
  BY <1>1 DEF Undisturbed, DataInv, Driven
<1>3. Len(handlers) \in 1..5 /\ driver = "up"
  BY <1>1 DEF CallInv, Driven
<1>4. InTurn[Len(handlers)] \in Kind
  BY <1>3, InTurnFacts
<1>5. handlers' \in Seq(Kind) /\ Len(handlers') = Len(handlers) + 1
  BY <1>1, <1>4, RegisterFacts DEF ServerTypes
<1>6. ServerTypes'
  BY <1>1, <1>5 DEF ServerTypes
<1>7. pc' = "handlers" => Len(handlers') \in 1..5
  BY <1>1, <1>3, <1>5, InTurnFacts
<1>8. pc' \in {"handlers", "register"}
  BY <1>1
<1>9. CallInv'
  BY <1>1, <1>3, <1>7, <1>8 DEF CallInv, Quiet, Booting, Listing, Driven, Emptied
<1>10. QED
  BY <1>2, <1>6, <1>8, <1>9 DEF Served, Steps, Driven

----------------------------------------------------------------------------
(* Beside the main thread, and the stop                                    *)

(* What no thread but the main one changes.                                *)
Stayed ==
  /\ UNCHANGED <<registry, metadata, described, source, url, retries, todo, current>>
  /\ UNCHANGED <<rest, handlers, scheduler, stopconfig, driver, starts, silent, trouble, owed>>
  /\ pc' = pc

LEMMA ReplyNext ==
  ASSUME pc \in Steps, ServerTypes, CallInv, DataInv, NEW r \in Request, Reply(r)
  PROVE  Undisturbed /\ Served /\ pc' \in Steps
<1>1. /\ Stayed /\ serving[r] # NULL /\ serving' = [serving EXCEPT ![r] = NULL] /\ busy' = busy
      /\ \/ queued' = queued
         \/ serving[r] = "discovery" /\ queued' = queued \cup {"discover"}
      /\ \/ devices' = devices
         \/ \E d \in metadata \cap Device : devices' = devices \cup {d}
  BY DEF Stayed, Reply, besideUnchanged, remote, boot, hist
<1>2. Undisturbed
  BY <1>1 DEF Undisturbed, Stayed, DataInv
<1>3. ServerTypes'
  BY <1>1 DEF ServerTypes, Stayed, Job
<1>4. /\ \A k \in Request : serving'[k] = serving[k] \/ serving'[k] = NULL
      /\ Quiet => Quiet' /\ serving[r] = NULL
  BY <1>1 DEF ServerTypes, Quiet
<1>5. NULL \notin {"device", "discovery"}
  BY LifecycleAssumptions
<1>6. CallInv'
  BY <1>1, <1>4, <1>5 DEF CallInv, Stayed, Emptied, Driven, Listing, Booting
<1>7. QED
  BY <1>1, <1>2, <1>3, <1>6 DEF Served, Stayed

LEMMA HandlerNext ==
  ASSUME pc \in Steps, ServerTypes, CallInv, DataInv, NEW r \in Request,
         NEW kind \in {"callback", "device", "discovery"}, http_handler(r, kind)
  PROVE  Undisturbed /\ Served /\ pc' \in Steps
<1>1. /\ Stayed /\ rest /\ serving' = [serving EXCEPT ![r] = kind]
      /\ \E n \in DOMAIN handlers : kind = handlers[n]
      /\ UNCHANGED <<devices, queued, busy>>
  BY DEF Stayed, http_handler, besideUnchanged, remote, boot, hist
<1>2. Undisturbed
  BY <1>1 DEF Undisturbed, Stayed, DataInv
<1>3. ServerTypes'
  BY <1>1 DEF ServerTypes, Stayed
<1>4. handlers # <<>> /\ (kind \in {"device", "discovery"} => driver = "up")
  BY <1>1, EmptyHandlers DEF CallInv
<1>5. \A k \in Request : serving'[k] = serving[k] \/ serving'[k] = kind
  BY <1>1 DEF ServerTypes
<1>6. pc \notin {"down", "callback"} \cup Booting \cup Emptied
  BY <1>4 DEF CallInv
<1>7. CallInv'
  BY <1>1, <1>4, <1>5, <1>6 DEF CallInv, Stayed, Emptied, Driven, Listing, Booting
<1>8. QED
  BY <1>1, <1>2, <1>3, <1>7 DEF Served, Stayed

(* A schedule falls due, or a job is taken or ends.                        *)
LEMMA JobsNext ==
  ASSUME pc \in Steps, ServerTypes, CallInv, DataInv,
         \/ Fire
         \/ \E job \in Job : Take(job) \/ Finish(job)
  PROVE  Undisturbed /\ Served /\ pc' \in Steps
<1>1. /\ Stayed /\ UNCHANGED <<devices, serving>>
      /\ queued' \subseteq Job /\ busy' \subseteq Job
      /\ \A job \in queued' \cup busy' :
           job \in queued \cup busy \/ (job = "autoevent" /\ scheduler = TRUE)
  <2>1. CASE Fire
    BY <2>1 DEF Stayed, Fire, besideUnchanged, remote, boot, hist, ServerTypes, Job
  <2>2. ASSUME NEW job \in Job, Take(job) \/ Finish(job)
        PROVE  /\ Stayed /\ UNCHANGED <<devices, serving>>
               /\ queued' \cup busy' \subseteq queued \cup busy
    BY <2>2 DEF Stayed, Take, Finish, besideUnchanged, remote, boot, hist
  <2>3. QED
    BY <2>1, <2>2 DEF ServerTypes
<1>2. Undisturbed
  BY <1>1 DEF Undisturbed, Stayed, DataInv
<1>3. ServerTypes'
  BY <1>1 DEF ServerTypes, Stayed
<1>4. pc = "stopped" => queued' = {} /\ busy' = {}
  BY <1>1 DEF CallInv, Emptied
<1>5. CallInv'
  BY <1>1, <1>4 DEF CallInv, Stayed, Quiet, Emptied, Driven, Listing, Booting
<1>6. QED
  BY <1>1, <1>2, <1>3, <1>5 DEF Served, Stayed

(* The stop: when the driver is stopped there is no handler left, when the *)
(* service has stopped no job either.                                      *)
LEMMA StopNext ==
  ASSUME StartTypes, ServerTypes, CallInv, DataInv, StopConfig \/ Stop
  PROVE  Undisturbed /\ Served /\ pc' \in Steps
<1> DEFINE G == Undisturbed /\ Served /\ pc' \in Steps
           Aside == /\ UNCHANGED <<registry, metadata, described, source, url, retries, todo>>
                    /\ UNCHANGED <<current, starts, silent, trouble, owed>>
<1> USE DEF Undisturbed, Served, Steps, Driven, Emptied, Go, stopUnchanged, remote, boot, server,
            pool, hist
<1>0. devices \subseteq metadata /\ devices \subseteq Device
  BY DEF DataInv, ServerTypes
<1>1. CASE StopConfig
  <2>1. /\ pc = "running" /\ pc' = "stop scheduler" /\ Aside
        /\ UNCHANGED <<devices, rest, handlers, serving, scheduler, queued, busy, driver>>
        /\ stopconfig' = url /\ url \in BOOLEAN
    BY <1>1 DEF StopConfig, StartTypes
  <2>2. QED
    BY <1>0, <2>1 DEF ServerTypes, CallInv, Quiet, Booting, Listing
<1>2. CASE StopScheduler
  <2>1. /\ pc = "stop scheduler" /\ pc' = "destroy" /\ Aside
        /\ UNCHANGED <<devices, rest, handlers, serving, queued, busy, stopconfig, driver>>
        /\ scheduler' = FALSE
    BY <1>2 DEF StopScheduler
  <2>2. QED
    BY <1>0, <2>1 DEF ServerTypes, CallInv, Quiet, Booting, Listing
<1>3. CASE StopDaemon
  <2>1. /\ pc = "destroy" /\ pc' = "join" /\ Aside
        /\ UNCHANGED <<devices, handlers, serving, scheduler, queued, busy, stopconfig, driver>>
        /\ rest' = FALSE
    BY <1>3 DEF StopDaemon
  <2>2. QED
    BY <1>0, <2>1 DEF ServerTypes, CallInv, Quiet, Booting, Listing
<1>4. CASE edgex_rest_server_destroy
  <2>1. /\ pc = "join" /\ pc' = "stop driver" /\ Aside /\ Quiet
        /\ UNCHANGED <<devices, rest, serving, scheduler, queued, busy, stopconfig, driver>>
        /\ handlers' = <<>>
    BY <1>4 DEF edgex_rest_server_destroy, Quiet
  <2>2. QED
    BY <1>0, <2>1, EmptyHandlers DEF ServerTypes, CallInv, Quiet, Booting, Listing
<1>5. CASE StopDriver
  <2>1. /\ pc = "stop driver" /\ pc' = "clear" /\ Aside /\ driver' = "stopped"
        /\ UNCHANGED <<devices, rest, handlers, serving, scheduler, queued, busy, stopconfig>>
    BY <1>5 DEF StopDriver
  <2>2. Quiet /\ handlers = <<>>
    BY <2>1 DEF CallInv
  <2>3. \A r \in Request : serving[r] \notin {"device", "discovery"}
    BY <2>2, LifecycleAssumptions DEF Quiet
  <2>4. QED
    BY <1>0, <2>1, <2>2, <2>3, EmptyHandlers DEF ServerTypes, CallInv, Quiet, Booting, Listing
<1>6. CASE edgex_devmap_clear
  <2>1. /\ pc = "clear" /\ pc' = "wait" /\ Aside /\ devices' = {}
        /\ UNCHANGED <<rest, handlers, serving, scheduler, queued, busy, stopconfig, driver>>
    BY <1>6 DEF edgex_devmap_clear
  <2>2. QED
    BY <2>1 DEF ServerTypes, CallInv, Quiet, Booting, Listing
<1>7. CASE WaitForPool
  <2>1. /\ pc = "wait" /\ pc' = "stopped" /\ Aside /\ queued = {} /\ busy = {}
        /\ UNCHANGED <<devices, rest, handlers, serving, scheduler, queued, busy, stopconfig, driver>>
    BY <1>7 DEF WaitForPool
  <2>2. QED
    BY <1>0, <2>1 DEF ServerTypes, CallInv, Quiet, Booting, Listing
<1>8. QED
  BY <1>1, <1>2, <1>3, <1>4, <1>5, <1>6, <1>7 DEF Stop

----------------------------------------------------------------------------
(* The theorems                                                            *)

LEMMA InitInv == Init => Inv
<1> SUFFICES ASSUME Init PROVE Inv
  OBVIOUS
<1> USE DEF Init
<1>1. pc \in Steps /\ StartTypes
  BY DEF Steps, StartTypes
<1>2. ServerTypes
  BY EmptyHandlers DEF ServerTypes
<1>3. \A r \in Request : serving[r] = NULL /\ serving[r] \notin {"device", "discovery"}
  BY LifecycleAssumptions
<1>4. CallInv
  BY <1>3, EmptyHandlers DEF CallInv, Quiet, Booting, Listing, Driven, Emptied
<1>5. DataInv
  BY DEF DataInv, Booting, Listing, Driven
<1>6. DebtInv
  BY DEF DebtInv, SourceKnown, ListOwed, DescriptorsOwed, Unlisted, Driven
<1>7. TroubleInv
  BY DEF TroubleInv
<1>8. QED
  BY <1>1, <1>2, <1>4, <1>5, <1>6, <1>7 DEF Inv, TypeOK

LEMMA InvNext == Inv /\ [Next]_vars => Inv'
<1> SUFFICES ASSUME Inv, [Next]_vars PROVE Inv'
  OBVIOUS
<1>0. /\ pc \in Steps /\ StartTypes /\ ServerTypes
      /\ CallInv /\ DataInv /\ DebtInv /\ TroubleInv
  BY DEF Inv, TypeOK
<1>1. Kept /\ Served /\ pc' \in Steps => Inv'
  BY DEF Kept, Served, Inv, TypeOK
<1>2. Undisturbed /\ Served /\ pc' \in Steps => Inv'
  BY <1>0, <1>1, UndisturbedNext DEF Kept
<1>3. CASE Boot
  <2>1. pc' \in Steps
    BY <1>3, BootEffects DEF Booted, Steps
  <2>2. Kept
    BY <1>0, <1>3, BootNext DEF Kept
  <2>3. Served
    BY <1>0, <1>3, BootCalls DEF Served
  <2>4. QED
    BY <1>1, <2>1, <2>2, <2>3
<1>4. CASE edgex_device_service_new \/ Exit \/ Crash
  BY <1>0, <1>1, <1>4, NewNext, EndNext
<1>5. CASE edgex_rest_server_create \/ RegisterCallback \/ DeviceListDone
  BY <1>0, <1>1, <1>5, ServerNext, CallbackNext, ListDoneNext
<1>6. CASE \E d \in Device : ProcessDevice(d)
  BY <1>0, <1>1, <1>6, ProcessNext
<1>7. CASE InitDriver \/ edgex_registry_register_service
  BY <1>0, <1>1, <1>7, InitNext, RegistrationNext
<1>8. CASE StartScheduler \/ RegisterHandler
  BY <1>0, <1>2, <1>8, SchedulerNext, HandlersNext
<1>9. CASE Beside
  BY <1>0, <1>2, <1>9, ReplyNext, HandlerNext, JobsNext DEF Beside
<1>10. CASE StopConfig \/ Stop
  BY <1>0, <1>2, <1>10, StopNext
<1>11. CASE UNCHANGED vars
  <2>1. /\ Undisturbed
        /\ UNCHANGED <<pc, rest, handlers, serving, scheduler, queued, busy>>
        /\ UNCHANGED <<stopconfig, driver, devices>>
    BY <1>0, <1>11 DEF vars, remote, boot, server, pool, hist, Undisturbed, DataInv
  <2>2. ServerTypes'
    BY <1>0, <2>1 DEF ServerTypes
  <2>3. CallInv'
    BY <1>0, <2>1 DEF CallInv, Quiet
  <2>4. QED
    BY <1>0, <1>2, <2>1, <2>2, <2>3 DEF Served
<1>12. QED
  BY <1>3, <1>4, <1>5, <1>6, <1>7, <1>8, <1>9, <1>10, <1>11 DEF Next, Start, Boot

(* The inductive invariant: the theorems after it read it at one state.    *)
THEOREM Invariant == Spec => []Inv
BY InitInv, InvNext, PTL DEF Spec

(* Every variable has its type and the main thread is at a step that there *)
(* is; so a handler is registered for each of the kinds of InTurn and no   *)
(* further, and a loop of pings never counts below zero (service.c).       *)
THEOREM TypeCorrect == Spec => []TypeOK
<1>1. Inv => TypeOK
  BY DEF Inv
<1>2. QED
  BY <1>1, Invariant, PTL

(* The driver is called over REST between its init and its stop only, by   *)
(* jobs not before its init, and by nobody after the stop of the service,  *)
(* whatever failed on the way (service.c 312-358 and 383-410).             *)
THEOREM CalledInTime == Spec => []DriverCalledInTime
<1>1. ASSUME Inv PROVE DriverCalledInTime
  <2>1. CallInv
    BY <1>1 DEF Inv
  <2>2. Calling => driver = "up"
    BY <2>1 DEF Calling, CallInv
  <2>3. busy \cap {"autoevent", "discover"} # {} => driver # "down"
    BY <2>1 DEF CallInv
  <2>4. pc = "stopped" => queued = {} /\ busy = {} /\ \A r \in Request : serving[r] = NULL
    BY <2>1 DEF CallInv, Quiet, Emptied
  <2>5. QED
    BY <2>2, <2>3, <2>4 DEF DriverCalledInTime
<1>2. QED
  BY <1>1, Invariant, PTL

(* A service that runs has everything in metadata but what a start that    *)
(* was cut off, or failed, owes (service.c 219-299, profiles.c).           *)
THEOREM Complete == Spec => []CompleteUnlessCut
<1>1. ASSUME Inv, pc = "running"
      PROVE  /\ Needed \subseteq metadata
             /\ Profile \ described \subseteq owed
             /\ Device \subseteq metadata \/ (source = "registry" /\ "devices" \in owed)
  <2>1. DataInv /\ SourceKnown /\ ListOwed /\ DescriptorsOwed
    BY <1>1 DEF Inv, DebtInv
  <2>2. {"service", "addressable"} \subseteq metadata /\ Profile \subseteq metadata
    BY <1>1, <2>1 DEF DataInv, Driven
  <2>3. Profile \ described \subseteq owed
    BY <1>1, <2>1, <2>2 DEF DescriptorsOwed
  <2>4. source = "file" => Device \subseteq metadata
    BY <1>1, <2>1 DEF DataInv, Driven
  <2>5. source # "file" => source = "registry" /\ registry = TRUE
    BY <1>1, <2>1 DEF SourceKnown, Driven
  <2>6. source # "file" => Device \subseteq metadata \/ "devices" \in owed
    BY <2>1, <2>5 DEF ListOwed
  <2>7. QED
    BY <2>2, <2>3, <2>4, <2>5, <2>6 DEF Needed
<1>2. Inv => CompleteUnlessCut
  BY <1>1 DEF CompleteUnlessCut
<1>3. QED
  BY <1>2, Invariant, PTL

(* A start fails only if one of its own calls failed, its peers were       *)
(* silent for all the pings, or the port or the driver was not to be had,  *)
(* whatever earlier starts have left behind (service.c 180-299).           *)
THEOREM FailsOnlyIfTrouble == Spec => []StartFailsOnlyIfTrouble
<1>1. Inv => StartFailsOnlyIfTrouble
  BY DEF Inv, TroubleInv, StartFailsOnlyIfTrouble
<1>2. QED
  BY <1>1, Invariant, PTL

=============================================================================
