------------------------------- MODULE Results -------------------------------
(***************************************************************************)
(* The memory of readings and values on their way: command results that    *)
(* the SDK allocates and the driver fills, strings that transformations    *)
(* replace, copies that autoevents keep, events that are posted later by a *)
(* job, and what the driver reads a reply into.  A result is a union whose *)
(* type tells whether it holds a block that must be freed.                 *)
(***************************************************************************)
EXTENDS Null, Integers, Sequences, SequencesExt

CONSTANTS
  CommandInfo,  \* edgex_cmdinfo: sequences of [type, readable, writable, asserted]
  Bits,         \* what a result holds that is no pointer
  MaxTasks,     \* bound on the requests, readings and runs of the autoevent
  MaxPolls      \* bound on the replies that a GET looks at

Type == {"number", "string", "binary"}
Block == {"string", "binary"}     \* the types whose value is allocated

VARIABLES
  heap,     \* [live: the allocated blocks, next: the next one,
           \*  bad: what was no live block has been freed or read]
  task,    \* the task in progress, or NULL
  auto,    \* the autoevent: [info, onChange], or NULL
  last,    \* its ai->last
  posts,    \* the posts of doPost: [block, event]
  tasks, polls

resultVars == <<heap, task, auto, last, posts, tasks, polls>>

----------------------------------------------------------------------------
(* Memory.  An operator that changes it takes it as m and yields it; the   *)
(* block that was allocated last is Newest.                                *)

Alloc(m) == [m EXCEPT !.live = @ \cup {m.next}, !.next = @ + 1]
AllocMany(m, n) == [m EXCEPT !.live = @ \cup m.next..(m.next + n - 1), !.next = @ + n]
Newest(m) == m.next - 1

free(m, p) ==
  IF p = NULL THEN m
  ELSE IF p \in m.live THEN [m EXCEPT !.live = @ \ {p}] ELSE [m EXCEPT !.bad = TRUE]

FreeAll(m, ps) == FoldLeft(free, m, ps)
Touched(m, ps) == [m EXCEPT !.bad = @ \/ \E p \in ps : p \notin m.live]

(* Blocks that the program leaves behind and no longer knows.              *)
Forget(m, ps) == [m EXCEPT !.live = @ \ ps]

----------------------------------------------------------------------------
(* Command results: [block, items], an item [type, value]                  *)

freeItem(m, item) == IF item.type \in Block THEN free(m, item.value) ELSE m

(* A defective variant: binary values are left.                            *)
freeStringsOnly(m, res) ==
  IF res = NULL THEN m
  ELSE free(FoldLeft(LAMBDA acc, item : IF item.type = "string" THEN free(acc, item.value) ELSE acc,
                     m, res.items), res.block)

edgex_device_commandresult_free(m, res) ==
  IF res = NULL THEN m ELSE free(FoldLeft(freeItem, m, res.items), res.block)

(* calloc: the type of all is the first one, Bool.                         *)
Calloc(m, n) ==
  LET m1 == Alloc(m) IN
  [m |-> m1, res |-> [block |-> Newest(m1), items |-> [i \in 1..n |-> [type |-> "number", value |-> NULL]]]]

(* The copy of a block may be taken only from a live one.                  *)
DupItem(acc, item) ==
  IF item.type \in Block
  THEN LET m1 == Alloc(Touched(acc.m, {item.value})) IN
       [m |-> m1, items |-> Append(acc.items, [item EXCEPT !.value = Newest(m1)])]
  ELSE [acc EXCEPT !.items = Append(@, item)]

edgex_device_commandresult_dup(m, res) ==
  LET m1 == Alloc(m)
      copied == FoldLeft(DupItem, [m |-> m1, items |-> <<>>], res.items)
  IN  [m |-> copied.m, res |-> [block |-> Newest(m1), items |-> copied.items]]

(* The comparison ends with the first difference, at item k, or behind the *)
(* last one; what is compared is read.                                     *)
Compared(m, lhs, rhs, k) ==
  LET read == {i \in DOMAIN lhs.items : i <= k /\ lhs.items[i].type = rhs.items[i].type
                                               /\ lhs.items[i].type \in Block} IN
  Touched(m, {lhs.block, rhs.block} \cup UNION {{lhs.items[i].value, rhs.items[i].value} : i \in read})

MayDifferFirstAt(lhs, rhs, k) ==
  \A i \in 1..(k - 1) : i \in DOMAIN lhs.items => lhs.items[i].type = rhs.items[i].type

edgex_event_cooked_free(m, e) == IF e = NULL THEN m ELSE free(free(m, e.body), e.block)

----------------------------------------------------------------------------
(* Values                                                                  *)

(* populateValue: a value of a block is allocated, for binary even if the  *)
(* text cannot be decoded.                                                 *)
populateValue(m, type) ==
  IF type \in Block THEN LET m1 == Alloc(m) IN [m |-> m1, value |-> Newest(m1)]
  ELSE [m |-> m, value |-> Bits]

(* A string can always be taken over, other texts may be wrong.            *)
MayFail(type) == type # "string"

(* edgex_transform_outgoing and _incoming: by the type of the resource. A  *)
(* string is replaced if it is mapped, a number that leaves its range      *)
(* becomes the string "overflow" on its way out.                           *)
Remapped(m, item) ==
  LET m1 == Alloc(free(Touched(m, {item.value}), item.value)) IN
  [m |-> m1, item |-> [item EXCEPT !.value = Newest(m1)]]

Overflowed(m, item) ==
  LET m1 == Alloc(m) IN [m |-> m1, item |-> [type |-> "string", value |-> Newest(m1)]]

edgex_transform_outgoing(m, item, type, changed) ==
  IF type = "string" /\ changed THEN Remapped(m, item)
  ELSE IF type = "number" /\ changed THEN Overflowed(m, item)
  ELSE [m |-> m, item |-> item]

(* edgex_data_process_event.  The items in changed are remapped or do not  *)
(* fit; the assertion of number fails is not met, if it is no zero, and    *)
(* ends everything.  The texts that are made of values are freed, except   *)
(* those that go into CBOR.                                                *)
Transformed(m, res, info, changed, n) ==
  FoldLeft(LAMBDA acc, i :
             LET t == edgex_transform_outgoing(acc.m, acc.items[i], info[i].type, i \in changed) IN
             [m |-> t.m, items |-> [acc.items EXCEPT ![i] = t.item]],
           [m |-> m, items |-> res.items], [i \in 1..n |-> i])

edgex_data_process_event(m, res, info, changed, fails) ==
  LET n == IF fails = 0 THEN Len(info) ELSE fails
      t == Transformed(m, res, info, changed, n)
      values == {t.items[i].value : i \in {j \in 1..n : t.items[j].type \in Block}}
      read == Touched(t.m, values)
      m1 == Alloc(read)
      m2 == Alloc(m1)
  IN  [items |-> t.items,
       m |-> IF fails = 0 THEN m2 ELSE read,
       event |-> IF fails = 0 THEN [block |-> Newest(m1), body |-> Newest(m2)] ELSE NULL]

(* Values taken from texts, of all items up to n; what an earlier reply    *)
(* left there is overwritten.                                              *)
Populated(m, res, info, n) ==
  LET filled == FoldLeft(LAMBDA acc, i :
                  LET v == populateValue(acc.m, info[i].type) IN
                  [m |-> v.m, items |-> [acc.items EXCEPT ![i] = [type |-> info[i].type, value |-> v.value]]],
                [m |-> m, items |-> res.items], [i \in 1..n |-> i])
  IN  [m |-> Forget(filled.m, {res.items[i].value : i \in {j \in 1..n : res.items[j].type \in Block}}),
       res |-> [res EXCEPT !.items = filled.items]]

----------------------------------------------------------------------------
(* What the driver takes a reply or a reading apart into.  The text of the *)
(* size is freed at once; that of the origin and the array of the values   *)
(* never are.                                                              *)

takeEvent(m, n) ==
  LET p == m.next IN
  [m |-> free(AllocMany(m, n + 6), p + 4),
   ev |-> [block |-> p, name |-> p + 1, origin |-> p + 2, commandDevice |-> p + 3,
           array |-> p + 5, value |-> [i \in 1..n |-> p + 5 + i]]]

freeEvent(m, ev) ==
  Forget(FreeAll(m, ev.value \o <<ev.name, ev.commandDevice, ev.block>>), {ev.origin, ev.array})

(* A reply to the discovery: devname, mac, profile, model.                 *)
takeDiscovery(m) == [m |-> AllocMany(m, 5), d |-> m.next]

freeDiscovery(m, d) == FreeAll(m, <<d + 1, d + 2, d + 3, d + 4, d>>)

----------------------------------------------------------------------------
ResultsInit ==
  /\ heap = [live |-> {}, next |-> 1, bad |-> FALSE]
  /\ task = NULL /\ auto = NULL /\ last = NULL /\ posts = {} /\ tasks = 0 /\ polls = 0

Begun == task = NULL /\ tasks < MaxTasks /\ tasks' = tasks + 1 /\ polls' = 0

(* The end of a task that has the results res.                             *)
Finished(m, res) == heap' = edgex_device_commandresult_free(m, res) /\ task' = NULL

Task(kind, pc, info, res) ==
  [kind |-> kind, pc |-> pc, info |-> info, res |-> res, dup |-> NULL, event |-> NULL, device |-> NULL]

(* Items that a transformation may change, and an assertion that may fail. *)
Changes(info) == SUBSET {i \in DOMAIN info : info[i].type # "binary"}
Failures(info) == {0} \cup {i \in DOMAIN info : info[i].asserted}

BeginGet ==
  /\ Begun
  /\ \E info \in CommandInfo :
       LET c == Calloc(heap, Len(info)) IN
       IF \A i \in DOMAIN info : info[i].readable
       THEN heap' = c.m /\ task' = Task("get", "driver", info, c.res)
       ELSE heap' = free(c.m, c.res.block) /\ task' = NULL
  /\ UNCHANGED <<auto, last, posts>>

AutoStart ==
  /\ auto = NULL /\ task = NULL
  /\ auto' \in [info : {info \in CommandInfo : \A i \in DOMAIN info : info[i].readable}, onChange : BOOLEAN]
  /\ UNCHANGED <<heap, task, last, posts, tasks, polls>>

AutoBegin ==
  /\ Begun /\ auto # NULL
  /\ LET c == Calloc(heap, Len(auto.info)) IN
     heap' = c.m /\ task' = Task("auto", "driver", auto.info, c.res)
  /\ UNCHANGED <<auto, last, posts>>

(* One poll of random_get_handler finds a reply: of another device, or one *)
(* of which the value at bad cannot be parsed, or a good one (bad = 0).    *)
user_repget_event_read ==
  /\ task # NULL /\ task.pc = "driver" /\ polls < MaxPolls /\ polls' = polls + 1
  /\ LET n == Len(task.info)
         t == takeEvent(heap, n) IN
     \/ heap' = freeEvent(Touched(t.m, {t.ev.name}), t.ev) /\ UNCHANGED task
     \/ \E bad \in {0} \cup {i \in 1..n : MayFail(task.info[i].type)} :
          LET p == Populated(t.m, task.res, task.info, IF bad = 0 THEN n ELSE bad) IN
          /\ heap' = freeEvent(Touched(p.m, {t.ev.name} \cup Range(t.ev.value)), t.ev)
          /\ task' = [task EXCEPT !.res = p.res, !.pc = IF bad = 0 THEN "read" ELSE @]
  /\ UNCHANGED <<auto, last, posts, tasks>>

DriverFails ==
  /\ task # NULL /\ task.pc = "driver" /\ Finished(heap, task.res)
  /\ UNCHANGED <<auto, last, posts, tasks, polls>>

runget ==
  /\ task # NULL /\ task.pc = "read" /\ task.kind = "get"
  /\ \E changed \in Changes(task.info), fails \in Failures(task.info) :
       LET e == edgex_data_process_event(heap, task.res, task.info, changed, fails)
           m == edgex_device_commandresult_free(e.m, [task.res EXCEPT !.items = e.items]) IN
       /\ heap' = IF e.event = NULL THEN m ELSE Touched(m, {e.event.block, e.event.body})
       /\ task' = IF e.event = NULL THEN NULL
                  ELSE [task EXCEPT !.pc = "reply", !.res = NULL, !.event = e.event]
  /\ UNCHANGED <<auto, last, posts, tasks, polls>>

(* The reply is copied or, of one command, taken over; in the end the      *)
(* event is freed.                                                         *)
Replied ==
  /\ task # NULL /\ task.pc = "reply"
  /\ heap' = edgex_event_cooked_free(Touched(heap, {task.event.body}), task.event)
  /\ task' = NULL /\ UNCHANGED <<auto, last, posts, tasks, polls>>

(* onChange: the reading is compared with the last one, and copied before  *)
(* it is transformed.                                                      *)
Copied(m) ==
  LET d == edgex_device_commandresult_dup(m, task.res) IN
  heap' = d.m /\ task' = [task EXCEPT !.pc = "changed", !.dup = d.res]

AutoCompare ==
  /\ task # NULL /\ task.pc = "read" /\ task.kind = "auto" /\ auto.onChange
  /\ LET n == Len(task.info) IN
     \/ last = NULL /\ Copied(heap)
     \/ /\ last # NULL /\ MayDifferFirstAt(task.res, last, n + 1)
        /\ Finished(Compared(heap, task.res, last, n), task.res)
     \/ /\ last # NULL
        /\ \E k \in 1..n : MayDifferFirstAt(task.res, last, k) /\ Copied(Compared(heap, task.res, last, k))
  /\ UNCHANGED <<auto, last, posts, tasks, polls>>

AutoAlways ==
  /\ task # NULL /\ task.pc = "read" /\ task.kind = "auto" /\ ~auto.onChange
  /\ task' = [task EXCEPT !.pc = "changed"]
  /\ UNCHANGED <<heap, auto, last, posts, tasks, polls>>

(* The event is made and sent.                                             *)
AutoPost ==
  /\ task # NULL /\ task.pc = "changed"
  /\ \E changed \in Changes(task.info), fails \in Failures(task.info), sent \in BOOLEAN :
       LET e == edgex_data_process_event(heap, task.res, task.info, changed, fails)
           kept == e.event # NULL /\ sent /\ auto.onChange
           m1 == IF kept THEN edgex_device_commandresult_free(e.m, last) ELSE e.m
           m2 == edgex_event_cooked_free(m1, e.event)
           m3 == edgex_device_commandresult_free(m2, IF kept THEN NULL ELSE task.dup) IN
       /\ last' = IF kept THEN task.dup ELSE last
       /\ Finished(m3, [task.res EXCEPT !.items = e.items])
  /\ UNCHANGED <<auto, posts, tasks, polls>>

(* The last reference is given back.                                       *)
AutoEnd ==
  /\ task = NULL /\ auto # NULL
  /\ heap' = edgex_device_commandresult_free(heap, last)
  /\ auto' = NULL /\ last' = NULL /\ UNCHANGED <<task, posts, tasks, polls>>

(* A PUT: the values are taken from the document up to the one at which it *)
(* is refused, as not writable, not given, not parsed or too large.        *)
Refusal(info, at) ==
  {"missing"} \cup (IF info[at].writable THEN {} ELSE {"unwritable"})
             \cup (IF MayFail(info[at].type) THEN {"unparsed"} ELSE {})
             \cup (IF info[at].type = "number" THEN {"overflow"} ELSE {})

Incoming(m, res, changed) ==
  FoldLeft(LAMBDA acc, i :
             LET r == Remapped(acc.m, acc.res.items[i]) IN
             IF i \in changed /\ acc.res.items[i].type = "string"
             THEN [m |-> r.m, res |-> [acc.res EXCEPT !.items[i] = r.item]] ELSE acc,
           [m |-> m, res |-> res], [i \in DOMAIN res.items |-> i])

runput ==
  /\ Begun
  /\ \E info \in CommandInfo :
       \E at \in 0..Len(info), changed \in SUBSET DOMAIN info :
         LET c == Calloc(heap, Len(info))
             writable == IF at = 0 THEN Len(info) ELSE at - 1 IN
         /\ \A i \in 1..writable : info[i].writable
         /\ \E why \in IF at = 0 THEN {"none"} ELSE Refusal(info, at) :
              LET p == Populated(c.m, c.res, info, writable + IF why \in {"unparsed", "overflow"} THEN 1 ELSE 0)
                  t == Incoming(p.m, p.res, changed \cap 1..writable)
                  values == {i.value : i \in {t.res.items[j] : j \in 1..writable}} IN
              Finished(IF at = 0 THEN Touched(t.m, values \ {Bits}) ELSE t.m, t.res)
  /\ UNCHANGED <<auto, last, posts>>

----------------------------------------------------------------------------
(* Readings that the device pushes.  The name of the device is forgotten   *)
(* on the ways out with NULL.                                              *)
PushRefused(m, device, resource, res, ev) ==
  heap' = Forget(freeEvent(edgex_device_commandresult_free(free(m, resource), res), ev), {device})

user_push_event_read ==
  /\ Begun
  /\ \E info \in CommandInfo :
       LET t == takeEvent(heap, Len(info))
           m1 == AllocMany(t.m, 2)        \* the structure and the name of the device
           block == Newest(m1) - 1
           device == Newest(m1)
           m2 == Alloc(m1)                \* the name of the resource
           resource == Newest(m2)
           c == Calloc(m2, Len(info)) IN
       \/ PushRefused(free(m1, block), device, NULL, NULL, t.ev) /\ task' = NULL
       \/ PushRefused(free(m2, block), device, resource, NULL, t.ev) /\ task' = NULL
       \/ \E bad \in {0} \cup {i \in DOMAIN info : MayFail(info[i].type)} :
            LET p == Populated(c.m, c.res, info, IF bad = 0 THEN Len(info) ELSE bad) IN
            IF bad = 0
            THEN /\ heap' = freeEvent(p.m, t.ev)
                 /\ task' = [Task("push", "post", info, p.res) EXCEPT !.device = <<device, resource, block>>]
            ELSE PushRefused(free(p.m, block), device, resource, p.res, t.ev) /\ task' = NULL
  /\ UNCHANGED <<auto, last, posts>>

(* random_discover: a reply leads to a new device or not; the protocols of *)
(* the device are left behind.                                             *)
user_add_new_device ==
  /\ Begun
  /\ LET text == Alloc(heap)
         t == takeDiscovery(text)
         m1 == AllocMany(t.m, 8)
         repDevice == t.m.next
         newprot == repDevice + 1..repDevice + 5
         labels == <<repDevice + 6, repDevice + 7>>
         m2 == Forget(FreeAll(Touched(m1, {t.d, t.d + 1, t.d + 2, t.d + 3}), labels), newprot)
         m3 == Alloc(m2) IN
     \E m \in {m2, free(m3, Newest(m3))} :
       heap' = free(free(freeDiscovery(m, t.d), repDevice), Newest(text))
  /\ UNCHANGED <<task, auto, last, posts>>

user_push_event_free(m, items) ==
  FreeAll(edgex_device_commandresult_free(m, [task.res EXCEPT !.items = items]), task.device)

edgex_device_post_readings ==
  /\ task # NULL /\ task.pc = "post"
  /\ \/ heap' = user_push_event_free(heap, task.res.items) /\ UNCHANGED posts     \* unknown by now
     \/ \E changed \in Changes(task.info), fails \in Failures(task.info) :
          LET e == edgex_data_process_event(heap, task.res, task.info, changed, fails)
              m1 == IF e.event = NULL THEN e.m ELSE Alloc(e.m) IN
          /\ heap' = user_push_event_free(m1, e.items)
          /\ posts' = IF e.event = NULL THEN posts
                     ELSE posts \cup {[block |-> Newest(m1), event |-> e.event]}
  /\ task' = NULL /\ UNCHANGED <<auto, last, tasks, polls>>

doPost ==
  /\ \E pp \in posts :
       /\ heap' = free(edgex_event_cooked_free(Touched(heap, {pp.block, pp.event.body}), pp.event), pp.block)
       /\ posts' = posts \ {pp}
  /\ UNCHANGED <<task, auto, last, tasks, polls>>

ResultsNext ==
  \/ BeginGet \/ AutoStart \/ AutoBegin \/ user_repget_event_read \/ DriverFails \/ runget \/ Replied
  \/ AutoCompare \/ AutoAlways \/ AutoPost \/ AutoEnd
  \/ runput \/ user_add_new_device \/ user_push_event_read \/ edgex_device_post_readings \/ doPost

----------------------------------------------------------------------------
(* data.c, device.c, autoevent.c, user.c: whatever becomes of a reading on *)
(* its way, through transformations that replace its value or its type,    *)
(* copies, failures of the driver and assertions that are not met, its     *)
(* memory is used while it is there and freed once; when nothing is going  *)
(* on any more, all that is left is what the autoevent compares with.      *)
Reachable(res) == IF res = NULL THEN {} ELSE {res.block} \cup {i.value : i \in {j \in Range(res.items) : j.type \in Block}}

ResultsFreedOnce ==
  /\ ~heap.bad
  /\ task = NULL /\ posts = {} => heap.live = Reachable(last)
=============================================================================
