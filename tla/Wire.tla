-------------------------------- MODULE Wire --------------------------------
(***************************************************************************)
(* The texts that the driver and the devices exchange: what random/user.c  *)
(* and random/structString.h write and read, what demo/device.py and       *)
(* demo/master_device.py make of it, and the framing between, by           *)
(* user_serial_write and the bridge demo/edgex.py.  The driver's threads   *)
(* and queues are ZigbeeDriver's; here a queue is only as long as it must  *)
(* be, and nothing but the bridge loses messages.                          *)
(*                                                                         *)
(* A text is the sequence of its fields, which '#' ends.  A field is the   *)
(* sequence of its parts, which ':' separates where a device looks for it. *)
(***************************************************************************)
EXTENDS Null, Integers, Sequences, SequencesExt, FiniteSets, TLC

CONSTANTS
  Node,         \* the devices of demo/device.py
  FirstNames,   \* FirstNames[d]: the names that d may be started with
  HardwareMAC,  \* HardwareMAC[d]: its MAC
  Command,      \* Command[n][c]: the resources that the command c of the
                \* profile of the device named n reads
  Kind,         \* Kind[r]: the type of a resource
  Settable,     \* the texts a PUT may set a resource to
  Sensed,       \* Sensed[r]: the texts that a sensor may give
  Listed,       \* the device names that are in the service's map at the start
  Asked,        \* the names of the devices to which clients send commands
  Master,       \* what the master device may push: [method, url, body]
  Long,         \* the bodies with which a line is longer than RX's buffer
  MisleadingNames,  \* the device names that end in "value"
  Overrun,      \* what is read past the end of a text
  MaxTexts,     \* bound: GETs, PUTs, rounds of discovery, and lines pushed
  MaxLines      \* bound: lines under way in each direction

VARIABLES
  bytes,        \* the serial line to the bridge: fields, NL and NUL
  inbox,        \* inbox[d]: the texts that the broker has brought d
  uplink,       \* the texts on their way to the driver
  replies,      \* QueueGetHandler
  my_name_, Switch_value,   \* of each device
  devices,      \* the names in the service's device map
  getting,      \* the GET in progress: [devname, requests, alone], or NULL
  got,          \* the last GET that returned true, with its readings, or NULL
  posted,       \* the last reading posted, or NULL
  told,         \* history: what the devices have said
  given,        \* history: given[n]: what the last PUT to n set Switch to
  spent,        \* counter for MaxTexts
  restarted     \* history: the bridge was restarted

wireVars == <<bytes, inbox, uplink, replies, my_name_, Switch_value, devices,
              getting, got, posted, told, given, spent, restarted>>

CMD_PUSH == <<"a">>
CMD_GET == <<"b">>
CMD_PUT == <<"c">>
CMD_DISCOVERY == <<"d">>
CMD_ADD_DEVICE == <<"e">>

NL == <<"NL">>
NUL == <<"NUL">>

Word(text) == <<text>>
Number_(n) == Word(ToString(n))

(* Every number on the line is one of these. *)
atoi(field) ==
  IF \E n \in 0 .. 100 : Number_(n) = field
  THEN CHOOSE n \in 0 .. 100 : Number_(n) = field ELSE 0

----------------------------------------------------------------------------
(* What the driver writes                                                  *)

user_gethandler_write(devname, requests) ==
  <<CMD_GET, devname, Word("100"), Number_(Len(requests))>>
     \o [i \in DOMAIN requests |-> Word(requests[i])]

user_puthandler_write(devname, requests, values) ==
  <<CMD_PUT, devname, Word("0"), Number_(Len(requests))>>
     \o [i \in DOMAIN requests |-> <<requests[i], values[i]>>]

address_zigbee == Word("4689")

AddDevice(rep) ==
  <<CMD_ADD_DEVICE, rep.devname, rep.mac, address_zigbee, address_zigbee>>

(* The text, and the two bytes of the string "\n". *)
user_serial_write(text) == text \o <<NL, NUL>>

----------------------------------------------------------------------------
(* What the driver reads.  The command is cut off before.                  *)

takeDiscovery(text) ==
  [devname |-> text[1], mac |-> text[2], profile |-> text[3], model |-> text[4]]

Misleads(field) == field = Word("value") \/ field[1] \in MisleadingNames

(* The values begin after the first "value#" of the whole text.  A value   *)
(* that is not there is read past its end.                                 *)
takeValue(text, size) ==
  LET start == CHOOSE i \in DOMAIN text :
                 Misleads(text[i]) /\ \A j \in 1 .. i - 1 : ~ Misleads(text[j])
  IN  [i \in 1 .. size |-> IF start + i \in DOMAIN text THEN text[start + i] ELSE Overrun]

(* Defective variant: the values begin after the fields of the head.       *)
takeEventHead(text) ==
  [name |-> text[1], origin |-> atoi(text[2]), commandDevice |-> text[3],
   size |-> atoi(text[4]), value |-> SubSeq(text, 5, Len(text))]

takeEvent(text) ==
  [name |-> text[1], origin |-> atoi(text[2]), commandDevice |-> text[3],
   size |-> atoi(text[4]), value |-> takeValue(text, atoi(text[4]))]

(* The value of a resource that a text gives, or NULL. *)
ValueOf(resource, text) ==
  CASE Kind[resource] = "string" -> text
    [] Kind[resource] = "bool" -> IF text \in {Word("true"), Word("false")} THEN text ELSE NULL
    [] Kind[resource] = "uint64" ->
         IF \E n \in 0 .. 100 : Number_(n) = text THEN Number_(atoi(text)) ELSE NULL

ReadingOf(resource, origin, text) == [origin |-> origin, value |-> ValueOf(resource, text)]

(* The readings of an event, by the resources that the driver expects: it  *)
(* does not look at the size that the text gives.                          *)
Readings(ev, resources) ==
  IF \E i \in DOMAIN resources : i \notin DOMAIN ev.value \/ ev.value[i] = Overrun
  THEN Overrun
  ELSE [i \in DOMAIN resources |-> ReadingOf(resources[i], ev.origin, ev.value[i])]

Readable(readings) ==
  readings # Overrun => \A i \in DOMAIN readings : readings[i].value # NULL

----------------------------------------------------------------------------
(* The driver                                                              *)

Lines(stream) == Cardinality({i \in DOMAIN stream : stream[i] = NL})

TX_(text) == bytes' = bytes \o user_serial_write(text)

OfCommand(text, cmd) == text[1] = cmd

(* No GET and no answer to one is under way. *)
Alone ==
  /\ replies = <<>> /\ CMD_GET \notin ToSet(bytes)
  /\ \A i \in DOMAIN uplink : ~ OfCommand(uplink[i], CMD_GET)
  /\ \A d \in Node : \A i \in DOMAIN inbox[d] : ~ OfCommand(inbox[d][i], CMD_GET)

random_get_handler(n, c) ==
  /\ getting = NULL /\ spent < MaxTexts /\ Lines(bytes) < MaxLines
  /\ n \in devices
  /\ spent' = spent + 1
  /\ getting' = [devname |-> n, requests |-> Command[n[1]][c], alone |-> Alone]
  /\ TX_(user_gethandler_write(n, Command[n[1]][c]))
  /\ UNCHANGED <<inbox, uplink, replies, my_name_, Switch_value, devices, got, posted,
                 told, given, restarted>>

random_put_handler(n, r, text) ==
  /\ spent < MaxTexts /\ Lines(bytes) < MaxLines
  /\ n \in devices
  /\ spent' = spent + 1
  /\ TX_(user_puthandler_write(n, <<r>>, <<text>>))
  /\ given' = IF r = "Switch" THEN [given EXCEPT ![n] = text] ELSE given
  /\ UNCHANGED <<inbox, uplink, replies, my_name_, Switch_value, devices, getting, got, posted,
                 told, restarted>>

(* A poll that takes the reply at the front; one that it does not take     *)
(* stays there.                                                            *)
user_repget_event_read_ ==
  /\ getting # NULL /\ replies # <<>>
  /\ LET ev == takeEvent(Head(replies))
         readings == Readings(ev, getting.requests)
     IN /\ ev.name = getting.devname
        /\ Readable(readings)
        /\ got' = [get |-> getting, readings |-> readings]
  /\ getting' = NULL /\ replies' = Tail(replies)
  /\ UNCHANGED <<bytes, inbox, uplink, my_name_, Switch_value, devices, posted, told, given,
                 spent, restarted>>

GiveUp ==
  /\ getting # NULL
  /\ getting' = NULL
  /\ UNCHANGED <<bytes, inbox, uplink, replies, my_name_, Switch_value, devices, got, posted,
                 told, given, spent, restarted>>

(* user_push_event_read, and what is then posted: nothing if the service   *)
(* does not know the device or the command, or cannot read a value.        *)
Post(text) ==
  LET ev == takeEvent(text)
      known == ev.name \in devices /\ ev.commandDevice[1] \in DOMAIN Command[ev.name[1]]
      readings == Readings(ev, Command[ev.name[1]][ev.commandDevice[1]])
  IN  posted' = IF known /\ Readable(readings)
                THEN [name |-> ev.name, command |-> ev.commandDevice[1], readings |-> readings]
                ELSE posted

(* A device that is discovered is added, unless the name is taken, and     *)
(* then told.                                                              *)
user_add_new_device(text) ==
  IF address_zigbee \in devices THEN UNCHANGED <<bytes, devices>>
  ELSE /\ devices' = devices \cup {address_zigbee}
       /\ TX_(AddDevice(takeDiscovery(text)))

(* What one read of RX gets of a line. *)
user_serial_read(line) ==
  IF \E i \in DOMAIN line : line[i] \in Long
  THEN SubSeq(line, 1, SelectInSeq(line, LAMBDA f : f \in Long) - 1) ELSE line

RX_ ==
  /\ uplink # <<>> /\ Lines(bytes) < MaxLines
  /\ uplink' = Tail(uplink)
  /\ LET text == user_serial_read(Head(uplink)) IN
     CASE text[1] = CMD_PUSH ->
            Post(Tail(text)) /\ UNCHANGED <<replies, bytes, devices>>
       [] text[1] = CMD_GET ->
            replies' = Append(replies, Tail(text)) /\ UNCHANGED <<posted, bytes, devices>>
       [] text[1] = CMD_DISCOVERY ->
            user_add_new_device(Tail(text)) /\ UNCHANGED <<replies, posted>>
  /\ UNCHANGED <<inbox, my_name_, Switch_value, getting, got, told, given, spent, restarted>>

random_discover ==
  /\ spent < MaxTexts /\ Lines(bytes) < MaxLines
  /\ spent' = spent + 1
  /\ TX_(<<CMD_DISCOVERY, Word("newdevice")>>)
  /\ UNCHANGED <<inbox, uplink, replies, my_name_, Switch_value, devices, getting, got, posted,
                 told, given, restarted>>

----------------------------------------------------------------------------
(* The bridge                                                              *)

LineEnd(stream) == SelectInSeq(stream, LAMBDA b : b = NL)

(* Defective variant: the byte after the line is left. *)
AfterNL(stream) == SubSeq(stream, LineEnd(stream) + 1, Len(stream))

(* What readline leaves and read(1) does not take. *)
AfterLine(stream) == SubSeq(stream, LineEnd(stream) + 2, Len(stream))

(* A byte left over from the line before is part of the first field.       *)
AsText(line) ==
  IF Len(line) > 1 /\ line[1] = NUL THEN <<line[1] \o line[2]>> \o SubSeq(line, 3, Len(line))
  ELSE line

th_UART_read ==
  /\ NL \in ToSet(bytes)
  /\ LET line == SubSeq(bytes, 1, LineEnd(bytes)) IN
     /\ bytes' = AfterLine(bytes)
     /\ inbox' = [d \in Node |-> Append(inbox[d], AsText(line))]
  /\ UNCHANGED <<uplink, replies, my_name_, Switch_value, devices, getting, got, posted, told,
                 given, spent, restarted>>

(* The bridge is started anew: what the driver has written by then is lost *)
(* up to some byte, as are the texts for the driver.  A field that is cut  *)
(* is none that anybody knows.                                             *)
RestartBridge ==
  /\ ~ restarted /\ restarted' = TRUE
  /\ uplink' = <<>>
  /\ \E i \in 1 .. Len(bytes) + 1 :
       bytes' = IF i = 1 \/ i > Len(bytes) \/ bytes[i] \in {NL, NUL}
                THEN SubSeq(bytes, i, Len(bytes))
                ELSE <<Word("")>> \o SubSeq(bytes, i + 1, Len(bytes))
  /\ UNCHANGED <<inbox, replies, my_name_, Switch_value, devices, getting, got, posted, told,
                 given, spent>>

----------------------------------------------------------------------------
(* The devices                                                             *)

(* What the resources of d give, the sensors by chance. *)
Measures(d) ==
  {m @@ [Switch |-> Switch_value[d]] :
     m \in {f \in [DOMAIN Sensed -> UNION Range(Sensed)] : \A r \in DOMAIN f : f[r] \in Sensed[r]}}

get_value(measures, resource) ==
  IF resource \in DOMAIN measures THEN measures[resource] ELSE ""

get_arr_value(measures, resources) ==
  [i \in DOMAIN resources |-> Word(get_value(measures, resources[i]))]

(* The size-many fields after the head of a command. *)
Arguments(arr) ==
  SubSeq(arr, 5, IF 4 + atoi(arr[4]) <= Len(arr) THEN 4 + atoi(arr[4]) ELSE Len(arr))

Answer(cmd, name, origin, command, values) ==
  <<cmd, name, Number_(origin), Word(command), Number_(Len(values)), Word("value")>> \o values

Say(d, cmd, command, resources) ==
  \E measures \in Measures(d), origin \in {7} :
    LET values == get_arr_value(measures, resources) IN
    IF Word("") \in ToSet(values) THEN UNCHANGED <<uplink, told>>
    ELSE /\ uplink' = Append(uplink, Answer(cmd, my_name_[d], origin, command, values))
         /\ told' = told \cup {[name |-> my_name_[d], origin |-> origin, measures |-> measures]}

device_repget_edgex(d, arr) ==
  /\ Say(d, CMD_GET, "repget", [i \in DOMAIN Arguments(arr) |-> Arguments(arr)[i][1]])
  /\ UNCHANGED <<my_name_, Switch_value>>

set_value(old, field) == IF Len(field) > 1 /\ field[1] = "Switch" THEN field[2] ELSE old

device_repput_edgex(d, arr) ==
  /\ Switch_value' = [Switch_value EXCEPT ![d] = FoldLeft(set_value, @, Arguments(arr))]
  /\ UNCHANGED <<uplink, told, my_name_>>

device_repdiscovery(d) ==
  /\ uplink' = Append(uplink, <<CMD_DISCOVERY, my_name_[d], Word(HardwareMAC[d]),
                                Word("ExampleSensor"), Word("BKHN")>>)
  /\ UNCHANGED <<told, my_name_, Switch_value>>

device_repadd_device(d, arr) ==
  /\ my_name_' = [my_name_ EXCEPT ![d] = IF arr[3] = Word(HardwareMAC[d]) THEN arr[4] ELSE @]
  /\ UNCHANGED <<uplink, told, Switch_value>>

(* What is not for d, or not a command, is passed over. *)
receive_proccess_edgex(d) ==
  /\ inbox[d] # <<>> /\ Len(uplink) < MaxLines
  /\ inbox' = [inbox EXCEPT ![d] = Tail(@)]
  /\ LET arr == Head(inbox[d])
         mine == Len(arr) > 1 /\ arr[2] = my_name_[d]
     IN CASE mine /\ arr[1] = CMD_GET -> device_repget_edgex(d, arr)
          [] mine /\ arr[1] = CMD_PUT -> device_repput_edgex(d, arr)
          [] mine /\ arr[1] = CMD_DISCOVERY -> device_repdiscovery(d)
          [] mine /\ arr[1] = CMD_ADD_DEVICE -> device_repadd_device(d, arr)
          [] OTHER -> UNCHANGED <<uplink, told, my_name_, Switch_value>>
  /\ UNCHANGED <<bytes, replies, devices, getting, got, posted, given, spent, restarted>>

device_push_edgex(d) ==
  /\ spent < MaxTexts /\ Len(uplink) < MaxLines /\ spent' = spent + 1
  /\ Say(d, CMD_PUSH, "SensorOne", <<"SensorOne">>)
  /\ UNCHANGED <<bytes, inbox, replies, my_name_, Switch_value, devices, getting, got, posted,
                 given, restarted>>

(* The menu of the master device pushes a request. *)
menu ==
  /\ spent < MaxTexts /\ Len(uplink) < MaxLines /\ spent' = spent + 1
  /\ \E request \in Master :
       /\ uplink' = Append(uplink, Answer(CMD_PUSH, Word("MasterDevice"), 0, "MasterRequest",
                             <<Word(request.method), Word(request.url), request.body>>))
       /\ told' = told \cup {[name |-> Word("MasterDevice"), origin |-> 0, measures |->
            [MasterMethod |-> request.method, MasterURL |-> request.url, MasterBody |-> request.body[1]]]}
  /\ UNCHANGED <<bytes, inbox, replies, my_name_, Switch_value, devices, getting, got, posted,
                 given, restarted>>

----------------------------------------------------------------------------
WireInit ==
  /\ bytes = <<>> /\ uplink = <<>> /\ replies = <<>>
  /\ inbox = [d \in Node |-> <<>>]
  /\ my_name_ \in {[d \in Node |-> Word(f[d])] : f \in [Node -> UNION Range(FirstNames)]}
  /\ \A d \in Node : my_name_[d][1] \in FirstNames[d]
  /\ Switch_value = [d \in Node |-> "false"]
  /\ devices = {Word(n) : n \in Listed}
  /\ getting = NULL /\ got = NULL /\ posted = NULL
  /\ told = {} /\ given = [n \in devices \cup {address_zigbee} |-> NULL]
  /\ spent = 0 /\ restarted = FALSE

WireNext ==
  \/ \E n \in {Word(a) : a \in Asked} : \E c \in DOMAIN Command[n[1]] : random_get_handler(n, c)
  \/ \E n \in {Word(a) : a \in Asked}, r \in DOMAIN Settable : \E text \in Settable[r] : random_put_handler(n, r, text)
  \/ user_repget_event_read_ \/ GiveUp \/ RX_ \/ random_discover
  \/ th_UART_read \/ RestartBridge
  \/ \E d \in Node : receive_proccess_edgex(d) \/ device_push_edgex(d)
  \/ menu

----------------------------------------------------------------------------
(* Properties                                                              *)

(* What a device has said at one time, as the readings of some resources.  *)
Said(name, resources, readings) ==
  \E t \in told :
    /\ t.name = name /\ readings # Overrun
    /\ ToSet(resources) \subseteq DOMAIN t.measures
    /\ readings = [i \in DOMAIN resources |->
                     ReadingOf(resources[i], t.origin, Word(t.measures[resources[i]]))]

(* A GET that was alone, and every reading pushed, gives the driver what   *)
(* the device measured, resource by resource and with its origin, whoever  *)
(* else sends (device.py 114-145, structString.h 22-70, user.c 293-417).   *)
(* Not so for a device whose name ends in "value", and for a line that is  *)
(* longer than the 254 bytes RX can read.                                  *)
ReadingsAsSent ==
  /\ got # NULL /\ got.get.alone /\ got.get.devname[1] \notin MisleadingNames
       => Said(got.get.devname, got.get.requests, got.readings)
  /\ posted # NULL /\ posted.name[1] \notin MisleadingNames
       => \/ Said(posted.name, Command[posted.name[1]][posted.command], posted.readings)
          \/ posted.name = Word("MasterDevice") /\ posted.readings = Overrun
             /\ \E t \in told : t.name = posted.name /\ Word(t.measures.MasterBody) \in Long

(* When every line has arrived, a device's switch is as the last PUT to    *)
(* the name it bears has set it, also when the name was given to it on the *)
(* way; and it is never what nobody asked for, even when the bridge was    *)
(* started anew in the middle of a line (edgex.py 68-76, device.py 65-92). *)
CommandsObeyed ==
  \A d \in Node :
    /\ Switch_value[d] \in {"false"} \cup Settable["Switch"]
    /\ ~ restarted /\ Lines(bytes) = 0 /\ inbox[d] = <<>> /\ my_name_[d] \in DOMAIN given =>
         given[my_name_[d]] \in {NULL, Switch_value[d]}
=============================================================================
