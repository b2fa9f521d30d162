---------------------------- MODULE ZigbeeDriver ----------------------------
(***************************************************************************)
(* The Zigbee driver of random/device-random.c: the threads RX, TX and     *)
(* PushEvent, the callbacks random_get_handler, random_put_handler and     *)
(* random_discover that the SDK runs on threads of its own, and the queues *)
(* between them.  Each queue call is one step (UserQueue shows that it may *)
(* be).  The serial line, the MQTT bridge and the devices are outside the  *)
(* driver; they are modelled from demo/edgex.py and demo/device.py: the    *)
(* broker loses messages (QoS 0) but neither repeats nor reorders them.    *)
(*                                                                         *)
(* Messages carry an id, which is not on the wire: it tells apart messages *)
(* that the program cannot tell apart.                                     *)
(***************************************************************************)
EXTENDS FifoOps, FiniteSets

CONSTANTS
  Handler,      \* threads on which the SDK runs the GET and PUT callbacks
  Worker,       \* pool threads that run do_discovery jobs
  Requester,    \* HTTP threads that run the discovery handler
  SigInt,       \* the main thread, if Ctrl-C may be pressed, or no element
  Device,       \* the Zigbee devices
  Name,         \* device names
  NewDevice,    \* the name "newdevice" of a device that was never added
  Addr,         \* the name "4689" given to every discovered device
  InitName,     \* the name of each device at the start
  MAC,          \* the MAC address of each device
  Res, ResType, \* the device resources and the type of each
  Cap,          \* capacity of every queue (10 in main)
  MaxPolls,     \* turns of the GET polling loop (5000 in the code)
  Rounds,       \* rounds of a discovery (5 in the code)
  MaxCalls,     \* bound: GET and PUT calls made
  MaxRequests,  \* bound: discoveries asked for
  MaxPushes,    \* bound: readings pushed by devices
  NULL

Discoverer == Worker \cup SigInt

(* The messages: commands, some for one device and some for all that have  *)
(* the name; the replies to a GET and to a discovery; pushed readings.     *)
MACs == {MAC[d] : d \in Device}
GetMessage == [cmd : {"GET"}, name : Name, id : Nat, res : Res]
AddMessage == [cmd : {"ADD"}, name : Name, id : Nat, mac : MACs]
PlainMessage == [cmd : {"PUT", "DISCOVERY"}, name : Name, id : Nat]
CommandMessage == GetMessage \cup AddMessage \cup PlainMessage
FoundMessage == [cmd : {"DISCOVERY"}, name : Name, mac : MACs]
PushMessage == [cmd : {"PUSH"}, name : Name, id : Nat, dev : Device]

(* A GET in service: what is asked of whom, by which command, and for how  *)
(* many turns more.                                                        *)
GetCall == [name : Name, res : Res, id : Nat, count : 0..MaxPolls]

ASSUME DriverAssumptions ==
  /\ Cap \in Nat \ {0} /\ MaxPolls \in Nat \ {0} /\ Rounds \in Nat \ {0}
  /\ MaxCalls \in Nat /\ MaxRequests \in Nat /\ MaxPushes \in Nat
  /\ NewDevice \in Name /\ Addr \in Name /\ NewDevice # Addr
  /\ InitName \in [Device -> Name] /\ DOMAIN MAC = Device
  /\ NULL \notin Name \cup Discoverer \cup Requester
  /\ NULL \notin CommandMessage \cup FoundMessage \cup PushMessage \cup GetCall
  /\ Worker \cap SigInt = {} /\ Discoverer \cap Requester = {}

VARIABLES
  QueueTX, QueueGetHandler, QueuePush, QueueDiscovery,
  txbuf,        \* TX's str_tx, or NULL
  pushbuf,      \* PushEvent's str_push, or NULL
  wire,         \* wire[d]: the commands on their way to device d
  serial,       \* the device messages on their way to RX
  my_name,      \* my_name[d]: the name device d answers to
  sw,           \* sw[d]: id of the PUT that last set the switch of d
  get,          \* get[h]: the GET h is serving, or NULL
  disc,         \* disc[x]: the progress of x's discovery, or NULL
  jobs,         \* do_discovery jobs submitted to the pool and not started
  discolock,    \* holder of svc->discolock, or NULL
  meta,         \* the device names registered in core-metadata
  known,        \* the device names in the service's device map
  calls, requests, pushes,   \* counters for the bounds
  lastId,       \* history: id of the newest command
  written,      \* history: ids of the commands TX has written
  evicted,      \* history: the commands a full QueueTX has discarded
  answers,      \* history: the GETs that returned true, with the reply used
  mixed,        \* history: a GET timed out or overlapped one for its device
  posted        \* history: id of the newest reading posted, per device

queues  == <<QueueTX, QueueGetHandler, QueuePush, QueueDiscovery>>
threads == <<txbuf, pushbuf>>
zigbee  == <<wire, serial, my_name, sw, pushes>>
service == <<jobs, discolock, meta, known, requests>>
sent    == <<lastId, evicted>>
seen    == <<written, answers, mixed, posted>>
vars    == <<queues, threads, zigbee, service, sent, seen, get, disc, calls>>

Init ==
  /\ QueueTX = <<>> /\ QueueGetHandler = <<>>
  /\ QueuePush = <<>> /\ QueueDiscovery = <<>>
  /\ txbuf = NULL /\ pushbuf = NULL
  /\ wire = [d \in Device |-> <<>>] /\ serial = <<>>
  /\ my_name = InitName
  /\ sw = [d \in Device |-> 0]
  /\ get = [h \in Handler |-> NULL]
  /\ disc = [x \in Discoverer |-> NULL]
  /\ jobs = 0 /\ discolock = NULL
  /\ meta = {InitName[d] : d \in Device} \ {NewDevice}
  /\ known = {InitName[d] : d \in Device} \ {NewDevice}
  /\ calls = 0 /\ requests = 0 /\ pushes = 0
  /\ lastId = 0 /\ written = {} /\ evicted = {} /\ answers = {}
  /\ mixed = FALSE
  /\ posted = [d \in Device |-> 0]

(* enQueue(QueueTX, c), with the next id for c.                            *)
Send(c) ==
  LET m == [c EXCEPT !.id = lastId + 1]
  IN  /\ QueueTX' = Enqueue(QueueTX, m, Cap)
      /\ lastId' = lastId + 1
      /\ evicted' = IF Len(QueueTX) = Cap THEN evicted \cup {Head(QueueTX)}
                                          ELSE evicted

Command(cmd, name) == [cmd |-> cmd, name |-> name, id |-> 0]

----------------------------------------------------------------------------
(* The driver's threads                                                    *)

(* Defective variants of RX's dispatch.                                    *)
RXKeepOldest ==
  /\ serial # <<>>
  /\ serial' = Tail(serial)
  /\ LET m == Head(serial)
     IN /\ QueuePush' = IF m.cmd = "PUSH" THEN <<m>> \o QueuePush ELSE QueuePush
        /\ QueueGetHandler' = IF m.cmd = "GET" THEN EnqueueDropNewest(QueueGetHandler, m, Cap)
                                               ELSE QueueGetHandler
        /\ QueueDiscovery' = IF m.cmd = "DISCOVERY" THEN EnqueueDropNewest(QueueDiscovery, m, Cap)
                                                    ELSE QueueDiscovery
  /\ UNCHANGED <<QueueTX, threads, wire, my_name, sw, pushes, service, sent, seen, get, disc, calls>>

(* RX: read one line and queue it by its command letter.                   *)
RX ==
  /\ serial # <<>>
  /\ serial' = Tail(serial)
  /\ LET m == Head(serial)
         Into(q, cmd) == IF m.cmd = cmd THEN Enqueue(q, m, Cap) ELSE q
     IN /\ QueuePush' = Into(QueuePush, "PUSH")
        /\ QueueGetHandler' = Into(QueueGetHandler, "GET")
        /\ QueueDiscovery' = Into(QueueDiscovery, "DISCOVERY")
  /\ UNCHANGED <<QueueTX, threads, wire, my_name, sw, pushes, service, sent, seen, get, disc, calls>>

(* Defective variants: deQueue leaves the last node; it takes the newest.  *)
TXDeQueueNotLast ==
  /\ txbuf = NULL /\ Len(QueueTX) > 1
  /\ txbuf' = Head(QueueTX)
  /\ QueueTX' = Tail(QueueTX)
  /\ UNCHANGED <<QueueGetHandler, QueuePush, QueueDiscovery, pushbuf, zigbee, service, sent, seen, get, disc, calls>>

TXDeQueueNewest ==
  /\ txbuf = NULL /\ QueueTX # <<>>
  /\ txbuf' = QueueTX[Len(QueueTX)]
  /\ QueueTX' = SubSeq(QueueTX, 1, Len(QueueTX) - 1)
  /\ UNCHANGED <<QueueGetHandler, QueuePush, QueueDiscovery, pushbuf, zigbee, service, sent, seen, get, disc, calls>>

TXDeQueue ==
  /\ txbuf = NULL /\ QueueTX # <<>>
  /\ txbuf' = Head(QueueTX)
  /\ QueueTX' = Tail(QueueTX)
  /\ UNCHANGED <<QueueGetHandler, QueuePush, QueueDiscovery, pushbuf, zigbee, service, sent, seen, get, disc, calls>>

(* user_serial_write: the bridge publishes the command to every device.    *)
TXWrite ==
  /\ txbuf # NULL
  /\ wire' = [d \in Device |-> Append(wire[d], txbuf)]
  /\ written' = written \cup {txbuf.id}
  /\ txbuf' = NULL
  /\ UNCHANGED <<queues, pushbuf, serial, my_name, sw, pushes, service, sent, answers, mixed, posted, get, disc, calls>>

PushDeQueue ==
  /\ pushbuf = NULL /\ QueuePush # <<>>
  /\ pushbuf' = Head(QueuePush)
  /\ QueuePush' = Tail(QueuePush)
  /\ UNCHANGED <<QueueTX, QueueGetHandler, QueueDiscovery, txbuf, zigbee, service, sent, seen, get, disc, calls>>

(* user_push_event_read drops a reading of a device the service does not   *)
(* know; any other is posted.                                              *)
PushPost ==
  /\ pushbuf # NULL
  /\ posted' = IF pushbuf.name \in known
               THEN [posted EXCEPT ![pushbuf.dev] = pushbuf.id] ELSE posted
  /\ pushbuf' = NULL
  /\ UNCHANGED <<queues, txbuf, zigbee, service, sent, written, answers, mixed, get, disc, calls>>

----------------------------------------------------------------------------
(* random_get_handler and random_put_handler                               *)

(* The GET handler sends its command and begins to poll.                   *)
GetSend(h, n, r) ==
  /\ get[h] = NULL /\ calls < MaxCalls
  /\ Send([cmd |-> "GET", name |-> n, id |-> 0, res |-> r])
  /\ get' = [get EXCEPT ![h] = [name |-> n, res |-> r, id |-> lastId + 1, count |-> MaxPolls]]
  /\ mixed' = (mixed \/ \E k \in Handler : get[k] # NULL /\ get[k].name = n)
  /\ calls' = calls + 1
  /\ UNCHANGED <<QueueGetHandler, QueuePush, QueueDiscovery, threads, zigbee, service, written, answers, posted, disc>>

(* populateValue: a string takes any text, numbers and Booleans only their *)
(* own.                                                                    *)
populateValue(text, type) == type = "String" \/ text = type

(* user_repget_event_read: the reply names the device and its value parses *)
(* as the type asked for.  It does not say which resource it is about.     *)
user_repget_event_read(g, m) ==
  /\ m.name = g.name
  /\ populateValue(ResType[m.res], ResType[g.res])

(* Defective variants: an accepted reply stays in the queue; a turn that   *)
(* rejects the front does not count.                                       *)
GetPollKeep(h) ==
  /\ get[h] # NULL /\ get[h].count > 0
  /\ IF QueueGetHandler # <<>> /\ user_repget_event_read(get[h], Head(QueueGetHandler))
     THEN /\ answers' = answers \cup {[req |-> get[h], rep |-> Head(QueueGetHandler)]}
          /\ get' = [get EXCEPT ![h] = NULL]
     ELSE /\ get' = [get EXCEPT ![h].count = @ - 1]
          /\ UNCHANGED answers
  /\ UNCHANGED <<queues, threads, zigbee, service, sent, written, mixed, posted, disc, calls>>

GetPollForever(h) ==
  /\ get[h] # NULL /\ get[h].count > 0
  /\ IF QueueGetHandler # <<>> /\ user_repget_event_read(get[h], Head(QueueGetHandler))
     THEN /\ answers' = answers \cup {[req |-> get[h], rep |-> Head(QueueGetHandler)]}
          /\ QueueGetHandler' = Tail(QueueGetHandler)
          /\ get' = [get EXCEPT ![h] = NULL]
     ELSE /\ get' = [get EXCEPT ![h].count = IF QueueGetHandler = <<>> THEN @ - 1 ELSE @]
          /\ UNCHANGED <<QueueGetHandler, answers>>
  /\ UNCHANGED <<QueueTX, QueuePush, QueueDiscovery, threads, zigbee, service, sent, written, mixed, posted, disc, calls>>

(* One turn of the polling loop: the front reply is taken if it is         *)
(* accepted and left in front of all others if it is not.                  *)
GetPoll(h) ==
  /\ get[h] # NULL /\ get[h].count > 0
  /\ IF QueueGetHandler # <<>> /\ user_repget_event_read(get[h], Head(QueueGetHandler))
     THEN /\ answers' = answers \cup {[req |-> get[h], rep |-> Head(QueueGetHandler)]}
          /\ QueueGetHandler' = Tail(QueueGetHandler)
          /\ get' = [get EXCEPT ![h] = NULL]
     ELSE /\ get' = [get EXCEPT ![h].count = @ - 1]
          /\ UNCHANGED <<QueueGetHandler, answers>>
  /\ UNCHANGED <<QueueTX, QueuePush, QueueDiscovery, threads, zigbee, service, sent, written, mixed, posted, disc, calls>>

(* The loop is over: the handler returns false.                            *)
GetTimeout(h) ==
  /\ get[h] # NULL /\ get[h].count = 0
  /\ get' = [get EXCEPT ![h] = NULL]
  /\ mixed' = TRUE
  /\ UNCHANGED <<queues, threads, zigbee, service, sent, written, answers, posted, disc, calls>>

(* random_put_handler queues the command and returns true.                 *)
Put(h, n) ==
  /\ get[h] = NULL /\ calls < MaxCalls
  /\ Send(Command("PUT", n))
  /\ calls' = calls + 1
  /\ UNCHANGED <<QueueGetHandler, QueuePush, QueueDiscovery, threads, zigbee, service, seen, get, disc>>

----------------------------------------------------------------------------
(* Discovery: the SDK's handler and job, and random_discover               *)

(* edgex_device_handler_discovery: trylock, submit a job, unlock.  Between *)
(* the two steps the requester itself holds the lock.                      *)
DiscoveryTryLock(r) ==
  /\ requests < MaxRequests
  /\ requests' = requests + 1
  /\ discolock' = IF discolock = NULL THEN r ELSE discolock
  /\ UNCHANGED <<queues, threads, zigbee, sent, seen, get, disc, jobs, meta, known, calls>>

DiscoverySubmit(r) ==
  /\ discolock = r
  /\ jobs' = jobs + 1
  /\ discolock' = NULL
  /\ UNCHANGED <<queues, threads, zigbee, sent, seen, get, disc, requests, meta, known, calls>>

Begin(x) == disc' = [disc EXCEPT ![x] = [at |-> "send", count |-> Rounds, rep |-> NULL]]

(* A defective job that does not take the lock.                            *)
DoDiscoveryUnlocked(x) ==
  /\ jobs > 0 /\ disc[x] = NULL
  /\ jobs' = jobs - 1
  /\ Begin(x)
  /\ UNCHANGED <<queues, threads, zigbee, sent, seen, get, discolock, requests, meta, known, calls>>

(* edgex_device_handler_do_discovery, when it gets the lock.               *)
DoDiscovery(x) ==
  /\ jobs > 0 /\ disc[x] = NULL /\ discolock = NULL
  /\ jobs' = jobs - 1
  /\ discolock' = x
  /\ Begin(x)
  /\ UNCHANGED <<queues, threads, zigbee, sent, seen, get, requests, meta, known, calls>>

(* inthandler: Ctrl-C answered with anything but y runs random_discover on *)
(* the main thread, without the lock.                                      *)
IntHandler(x) ==
  /\ disc[x] = NULL /\ requests < MaxRequests
  /\ requests' = requests + 1
  /\ Begin(x)
  /\ UNCHANGED <<queues, threads, zigbee, sent, seen, get, jobs, discolock, meta, known, calls>>

At(x, place) == disc[x] # NULL /\ disc[x].at = place

(* A round of random_discover: send the request, sleep,                    *)
DiscoverSend(x) ==
  /\ At(x, "send") /\ disc[x].count > 0
  /\ Send(Command("DISCOVERY", NewDevice))
  /\ disc' = [disc EXCEPT ![x].at = "sleep", ![x].count = @ - 1]
  /\ UNCHANGED <<QueueGetHandler, QueuePush, QueueDiscovery, threads, zigbee, service, seen, get, calls>>

(* look for one reply,                                                     *)
DiscoverCollect(x) ==
  /\ At(x, "sleep")
  /\ IF QueueDiscovery = <<>>
     THEN disc' = [disc EXCEPT ![x].at = "send"] /\ UNCHANGED QueueDiscovery
     ELSE /\ disc' = [disc EXCEPT ![x].at = "add", ![x].rep = Head(QueueDiscovery)]
          /\ QueueDiscovery' = Tail(QueueDiscovery)
  /\ UNCHANGED <<QueueTX, QueueGetHandler, QueuePush, threads, zigbee, service, sent, seen, get, calls>>

(* register the device under the name Addr: edgex_device_add_device        *)
(* succeeds at once if the device map has that name, else asks metadata,   *)
(* which refuses a name it has and may fail otherwise,                     *)
DiscoverAdd(x) ==
  /\ At(x, "add")
  /\ \E ok \in BOOLEAN :
       /\ Addr \in known => ok
       /\ Addr \in meta \ known => ~ok
       /\ meta' = IF ok THEN meta \cup {Addr} ELSE meta
       /\ disc' = [disc EXCEPT ![x].at = IF ok THEN "tell" ELSE "send"]
  /\ UNCHANGED <<queues, threads, zigbee, sent, seen, get, requests, jobs, discolock, known, calls>>

(* and tell it its new name.                                               *)
DiscoverTell(x) ==
  /\ At(x, "tell")
  /\ Send([cmd |-> "ADD", name |-> disc[x].rep.name, id |-> 0, mac |-> disc[x].rep.mac])
  /\ disc' = [disc EXCEPT ![x].at = "send"]
  /\ UNCHANGED <<QueueGetHandler, QueuePush, QueueDiscovery, threads, zigbee, service, seen, get, calls>>

(* A defective variant that keeps the lock.                                *)
DiscoverEndLocked(x) ==
  /\ At(x, "send") /\ disc[x].count = 0
  /\ disc' = [disc EXCEPT ![x] = NULL]
  /\ UNCHANGED <<queues, threads, zigbee, sent, seen, get, discolock, jobs, requests, meta, known, calls>>

(* After the last round a job releases the lock.                           *)
DiscoverEnd(x) ==
  /\ At(x, "send") /\ disc[x].count = 0
  /\ disc' = [disc EXCEPT ![x] = NULL]
  /\ discolock' = IF x \in Worker THEN NULL ELSE discolock
  /\ UNCHANGED <<queues, threads, zigbee, sent, seen, get, jobs, requests, meta, known, calls>>

(* Core-metadata's callback puts a registered device into the device map.  *)
MetadataCallback(n) ==
  /\ n \in meta \ known
  /\ known' = known \cup {n}
  /\ UNCHANGED <<queues, threads, zigbee, sent, seen, get, disc, jobs, discolock, requests, meta, calls>>

----------------------------------------------------------------------------
(* The devices                                                             *)

Publish(m) == serial' = Append(serial, m)

(* The broker loses a command on its way to d, or d's reply to it.         *)
Lost(d) ==
  /\ wire[d] # <<>>
  /\ wire' = [wire EXCEPT ![d] = Tail(@)]
  /\ UNCHANGED <<queues, threads, serial, my_name, sw, pushes, service, sent, seen, get, disc, calls>>

(* th_process: a command that does not carry the device's present name is  *)
(* ignored.                                                                *)
DeviceReceive(d) ==
  /\ wire[d] # <<>>
  /\ wire' = [wire EXCEPT ![d] = Tail(@)]
  /\ LET c == Head(wire[d])
         mine == c.name = my_name[d]
     IN /\ IF mine /\ c.cmd = "GET"
           THEN Publish([cmd |-> "GET", name |-> c.name, id |-> c.id, res |-> c.res])
           ELSE IF mine /\ c.cmd = "DISCOVERY"
           THEN Publish([cmd |-> "DISCOVERY", name |-> c.name, mac |-> MAC[d]])
           ELSE UNCHANGED serial
        /\ sw' = IF mine /\ c.cmd = "PUT" THEN [sw EXCEPT ![d] = c.id] ELSE sw
        /\ my_name' = IF mine /\ c.cmd = "ADD" /\ c.mac = MAC[d]
                      THEN [my_name EXCEPT ![d] = Addr] ELSE my_name
  /\ UNCHANGED <<queues, threads, pushes, service, sent, seen, get, disc, calls>>

(* A device pushes a reading; the broker may lose it.                      *)
DevicePush(d) ==
  /\ pushes < MaxPushes
  /\ pushes' = pushes + 1
  /\ \/ Publish([cmd |-> "PUSH", name |-> my_name[d], id |-> pushes + 1, dev |-> d])
     \/ UNCHANGED serial
  /\ UNCHANGED <<queues, threads, wire, my_name, sw, service, sent, seen, get, disc, calls>>

----------------------------------------------------------------------------
Driver == RX \/ TXDeQueue \/ TXWrite \/ PushDeQueue \/ PushPost

GetStep(h) == GetPoll(h) \/ GetTimeout(h)

Discover(x) == \/ DiscoverSend(x) \/ DiscoverCollect(x) \/ DiscoverAdd(x)
               \/ DiscoverTell(x) \/ DiscoverEnd(x)

Next ==
  \/ Driver
  \/ \E h \in Handler, n \in known, r \in Res : GetSend(h, n, r)
  \/ \E h \in Handler, n \in known : Put(h, n)
  \/ \E h \in Handler : GetStep(h)
  \/ \E r \in Requester : DiscoveryTryLock(r) \/ DiscoverySubmit(r)
  \/ \E x \in Worker : DoDiscovery(x)
  \/ \E x \in SigInt : IntHandler(x)
  \/ \E x \in Discoverer : Discover(x)
  \/ \E n \in Name : MetadataCallback(n)
  \/ \E d \in Device : DeviceReceive(d) \/ Lost(d) \/ DevicePush(d)

(* The driver's loops never block, the SDK's threads keep running, and a   *)
(* job gets the lock when nobody holds it.  Devices and metadata owe       *)
(* nothing.                                                                *)
Fairness ==
  /\ WF_vars(RX) /\ WF_vars(TXDeQueue) /\ WF_vars(TXWrite)
  /\ WF_vars(PushDeQueue) /\ WF_vars(PushPost)
  /\ \A h \in Handler : WF_vars(GetStep(h))
  /\ \A r \in Requester : WF_vars(DiscoverySubmit(r))
  /\ \A x \in Worker : WF_vars(DoDiscovery(x))
  /\ \A x \in Discoverer : WF_vars(Discover(x))

SafetySpec == Init /\ [][Next]_vars
Spec == SafetySpec /\ Fairness
----------------------------------------------------------------------------
(* Properties                                                              *)

Ids(q) == {q[i].id : i \in DOMAIN q}

(* What a GET that returned true was answered with.  A reply serves one    *)
(* GET, since reading the front and clearing it happen under one hold of   *)
(* QueueGetHandler's lock (device-random.c 261-272); it names the device   *)
(* asked, even while the other handler waits for another device; and as    *)
(* long as no GET has timed out and no two for the same device have        *)
(* overlapped, it is the reply to the GET's own command.                   *)
AnswersSound ==
  /\ \A a, b \in answers : a # b => a.rep.id # b.rep.id
  /\ \A a \in answers : a.rep.name = a.req.name /\ (~mixed => a.rep.id = a.req.id)

(* Every command handed to QueueTX is written to the serial line or        *)
(* discarded: TX leaves none behind in the queue.                          *)
EveryCommandLeaves ==
  \A i \in 1..(MaxCalls + MaxRequests * 2 * Rounds) :
    i <= lastId ~> (i \in written \/ \E c \in evicted : c.id = i)

(* A GET handler returns, answered or not, although replies meant for      *)
(* others may stand in front of its own.                                   *)
EveryGetReturns ==
  \A h \in Handler : get[h] # NULL ~> get[h] = NULL

(* No command is lost without trace: each one handed to QueueTX is queued, *)
(* in TX's hands, written, or was discarded by a full queue; and it is in  *)
(* exactly one of these places.                                            *)
CommandConservation ==
  LET inTX == IF txbuf = NULL THEN {} ELSE {txbuf.id}
      out == {c.id : c \in evicted}
  IN  /\ Ids(QueueTX) \cup inTX \cup written \cup out = 1..lastId
      /\ Len(QueueTX) + Cardinality(inTX) + Cardinality(written)
           + Cardinality(evicted) = lastId

(* Commands reach the serial line in the order of the enQueue calls,       *)
(* whichever threads made them.                                            *)
WrittenInOrder ==
  [][\A i \in written' \ written : \A j \in written : j < i]_vars

(* The readings of a device are posted in the order it pushed them, also   *)
(* when some are lost on the way or discarded by a full queue.             *)
ReadingsPostedInOrder ==
  [][\A d \in Device : posted'[d] >= posted[d]]_vars

(* Jobs of the thread pool do not run random_discover at the same time.    *)
DiscoveryExclusive ==
  \A x, y \in Worker : disc[x] # NULL /\ disc[y] # NULL => x = y

(* Every discovery job that was submitted runs and ends, and the lock is   *)
(* given back.                                                             *)
EveryJobEnds ==
  (jobs > 0 \/ discolock # NULL) ~> (jobs = 0 /\ discolock = NULL)

(* devsdk.h 90-92: a GET that returns true has filled in "the requested    *)
(* readings".                                                              *)
TrueMeansRequestedReading ==
  \A a \in answers : a.rep.res = a.req.res
=============================================================================
