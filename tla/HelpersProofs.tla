---------------------------- MODULE HelpersProofs ----------------------------
(***************************************************************************)
(* Two of the SDK's helpers.  First, that every call to another service    *)
(* carries the correlation id of the request or the autoevent it is made   *)
(* for, and no other, although the id is kept in a variable of the thread  *)
(* and the threads are used again; that it carries the whole body it was   *)
(* given, in whatever pieces libcurl fetches it; and that what is reported *)
(* of it is true.  Then, that the hash map of map.c is a partial function  *)
(* with iteration, whatever the hashes of the keys and whatever memory     *)
(* there is: it implements PartialMap.                                     *)
(***************************************************************************)
EXTENDS Http, StringMap, TLAPS, WellFoundedInduction

----------------------------------------------------------------------------
(* Induction over the natural numbers, for a set.                          *)
LEMMA NatSetInduction ==
  ASSUME NEW S, 0 \in S, \A n \in Nat : n \in S => n + 1 \in S
  PROVE  \A n \in Nat : n \in S
<1> DEFINE T == {n \in Nat : n \notin S}
           Less == {p \in Nat \X Nat : p[1] < p[2]}
<1>1. SUFFICES ASSUME T # {} PROVE FALSE
  OBVIOUS
<1>2. PICK x \in T : \A y \in T : ~(<<y, x>> \in Less)
  <2>1. IsWellFoundedOn(Less, Nat)
    BY NatLessThanWellFounded, Zenon DEF OpToRel
  <2>2. T \subseteq Nat
    OBVIOUS
  <2> HIDE DEF T, Less
  <2>3. QED
    BY <1>1, <2>1, <2>2, WFMin
<1>3. x \in Nat /\ x # 0 /\ x - 1 \in Nat /\ x - 1 < x
  BY <1>2
<1>4. x - 1 \in S
  BY <1>2, <1>3
<1>5. QED
  BY <1>2, <1>3, <1>4

----------------------------------------------------------------------------
(* Invariants                                                              *)

Steps == {"free", "first call", "upload", "handler", "reply"}

(* What the steps of the threads rely on: the handlers are registered      *)
(* ones, and jobs such as have calls.                                      *)
HandlersOK ==
  /\ handlers = NULL \/ handlers \in Seq(ToSet(Registered))
  /\ \A c \in Conn : conn[c].step # "free" => handlers \in Seq(ToSet(Registered))

ConnOK(c) ==
  /\ conn[c].step \in Steps /\ "step" \in DOMAIN conn[c]
  /\ conn[c].step # "free" =>
       /\ {"request", "since"} \subseteq DOMAIN conn[c]
       /\ conn[c].request \in ClientRequest /\ conn[c].since \in 0..uuids
  /\ conn[c].step = "handler" => conn[c].to.handler \in ToSet(Registered)

PoolOK(w) ==
  /\ {"job", "calls"} \subseteq DOMAIN pool[w]
  /\ pool[w].job \in DOMAIN JobCalls \cup {"none"} /\ pool[w].calls \in BOOLEAN
  /\ pool[w].job = "none" => ~pool[w].calls /\ call[w] = NULL
  /\ pool[w].job # "none" => "since" \in DOMAIN pool[w] /\ pool[w].since \in Nat

TypeInv ==
  /\ DOMAIN conn = Conn /\ DOMAIN pool = PoolThread
  /\ DOMAIN localid = Thread /\ DOMAIN call = Thread
  /\ uuids \in Nat /\ jobs \in Seq(DOMAIN JobCalls)
  /\ HandlersOK
  /\ \A c \in Conn : ConnOK(c)
  /\ \A w \in PoolThread : PoolOK(w)

(* A connection has the id of its request from the last call of            *)
(* http_handler until the reply, and calls only in between.                *)
ConnId(c) ==
  IF conn[c].step \in {"handler", "reply"}
  THEN /\ conn[c].step = "handler" => call[c] = NULL
       /\ IF conn[c].request.crlid # NULL THEN localid[c] = conn[c].request.crlid
          ELSE localid[c] \in (conn[c].since + 1)..uuids
  ELSE localid[c] = NULL /\ call[c] = NULL

(* A thread of the pool has an id for an autoevent that was not refused.   *)
PoolId(w) ==
  IF pool[w].job = "ae_runner"
  THEN \/ localid[w] \in (pool[w].since + 1)..uuids
       \/ localid[w] = NULL /\ ~pool[w].calls /\ call[w] = NULL
  ELSE localid[w] = NULL

IdInv ==
  /\ localid[Main] = NULL
  /\ \A c \in Conn : ConnId(c)
  /\ \A w \in PoolThread : PoolId(w)

(* No generated id is with two threads.                                    *)
Distinct ==
  \A t, u \in Thread : t # u /\ localid[t] \in Nat => localid[u] # localid[t]

(* The headers of a call hold the id that its thread still has.            *)
CallIds ==
  \A t \in Thread : call[t] # NULL =>
    IdOf(call[t].headers) = (IF localid[t] = NULL THEN {} ELSE {localid[t]})

IInv == TypeInv /\ IdInv /\ Distinct /\ CallIds

(***************************************************************************)
(* The headers of a call                                                   *)
(***************************************************************************)
LEMMA HdrIds ==
  ASSUME NEW S, NEW slist \in Seq(S), NEW name, NEW value, <<name, value>> \in S
  PROVE  /\ edgex_add_hdr(slist, name, value) \in Seq(S)
         /\ name = "X-Correlation-ID" =>
                IdOf(edgex_add_hdr(slist, name, value)) = IdOf(slist) \cup {value}
         /\ name # "X-Correlation-ID" =>
                IdOf(edgex_add_hdr(slist, name, value)) = IdOf(slist)
<1> DEFINE s == Append(slist, <<name, value>>)
<1>1. s \in Seq(S) /\ Len(s) = Len(slist) + 1 /\ s[Len(slist) + 1] = <<name, value>>
      /\ \A i \in 1..Len(slist) : s[i] = slist[i]
  OBVIOUS
<1>2. ToSet(s) = ToSet(slist) \cup {<<name, value>>}
  <2>1. DOMAIN s = 1..(Len(slist) + 1) /\ DOMAIN slist = 1..Len(slist) /\ Len(slist) \in Nat
    BY <1>1
  <2> HIDE DEF s
  <2>2. ASSUME NEW i \in 1..(Len(slist) + 1) PROVE s[i] \in ToSet(slist) \cup {<<name, value>>}
    <3>1. CASE i \in 1..Len(slist)
      BY <1>1, <2>1, <3>1 DEF ToSet
    <3>2. CASE i = Len(slist) + 1
      BY <1>1, <3>2
    <3>3. QED
      BY <2>1, <3>1, <3>2
  <2>3. ASSUME NEW i \in DOMAIN slist PROVE slist[i] \in ToSet(s)
    <3>1. i \in DOMAIN s /\ slist[i] = s[i]
      BY <1>1, <2>1
    <3>2. QED
      BY <3>1 DEF ToSet
  <2>4. <<name, value>> \in ToSet(s)
    <3>1. Len(slist) + 1 \in DOMAIN s
      BY <2>1
    <3>2. QED
      BY <1>1, <3>1 DEF ToSet
  <2>5. QED
    BY <2>1, <2>2, <2>3, <2>4, Zenon DEF ToSet
<1> HIDE DEF s
<1>3. edgex_add_hdr(slist, name, value) = s
  BY DEF s, edgex_add_hdr
<1>4. name = "X-Correlation-ID" => IdOf(s) = IdOf(slist) \cup {value}
  BY <1>2 DEF IdOf
<1>5. name # "X-Correlation-ID" => IdOf(s) = IdOf(slist)
  BY <1>2 DEF IdOf
<1>6. QED
  BY <1>1, <1>3, <1>4, <1>5

LEMMA OtherHdrIds ==
  ASSUME NEW S, NEW slist \in Seq(S), NEW c \in HttpClients
  PROVE  IdOf(edgex_add_other_hdrs(c, slist)) = IdOf(slist)
<1> DEFINE s == slist \o c.reqhdrs
<1>1. /\ c.reqhdrs \in Seq(STRING \X STRING)
      /\ \A i \in DOMAIN c.reqhdrs : c.reqhdrs[i][1] # "X-Correlation-ID"
  BY HttpAssumptions
<1>2. /\ DOMAIN s = 1..(Len(slist) + Len(c.reqhdrs))
      /\ \A i \in 1..Len(slist) : s[i] = slist[i]
      /\ \A i \in 1..Len(c.reqhdrs) : s[Len(slist) + i] = c.reqhdrs[i]
  <2> DEFINE W == S \cup (STRING \X STRING)
  <2>1. slist \in Seq(W) /\ c.reqhdrs \in Seq(W)
    BY <1>1
  <2> HIDE DEF W
  <2>2. QED
    BY <2>1
<1>3. Len(slist) \in Nat /\ Len(c.reqhdrs) \in Nat /\ DOMAIN slist = 1..Len(slist)
      /\ DOMAIN c.reqhdrs = 1..Len(c.reqhdrs)
  BY <1>1
<1>4. ToSet(s) = ToSet(slist) \cup ToSet(c.reqhdrs)
  <2>1. ASSUME NEW i \in DOMAIN s PROVE s[i] \in ToSet(slist) \cup ToSet(c.reqhdrs)
    <3>1. CASE i \in 1..Len(slist)
      BY <1>2, <1>3, <3>1 DEF ToSet
    <3>2. CASE i \notin 1..Len(slist)
      <4>1. i - Len(slist) \in 1..Len(c.reqhdrs) /\ i = Len(slist) + (i - Len(slist))
        BY <2>1, <1>2, <1>3, <3>2
      <4>2. QED
        BY <1>2, <1>3, <4>1 DEF ToSet
    <3>3. QED
      BY <3>1, <3>2
  <2>2. ASSUME NEW i \in DOMAIN slist PROVE slist[i] \in ToSet(s)
    BY <1>2, <1>3 DEF ToSet
  <2>3. ASSUME NEW i \in DOMAIN c.reqhdrs PROVE c.reqhdrs[i] \in ToSet(s)
    <3>1. Len(slist) + i \in DOMAIN s /\ s[Len(slist) + i] = c.reqhdrs[i]
      BY <1>2, <1>3
    <3> HIDE DEF s
    <3>2. QED
      BY <3>1 DEF ToSet
  <2>4. QED
    BY <2>1, <2>2, <2>3, Zenon DEF ToSet
<1>5. \A h \in ToSet(c.reqhdrs) : h[1] # "X-Correlation-ID"
  BY <1>1 DEF ToSet
<1>6. QED
  BY <1>4, <1>5 DEF edgex_add_other_hdrs, IdOf

(* The headers that a call starts with.                                    *)
LEMMA RunIds ==
  ASSUME TypeInv, NEW t \in Thread, NEW c \in HttpClients, NEW body, NEW slist_in,
         slist_in = <<>> \/ slist_in = ContentType(c),
         edgex_run_curl(t, c, body, slist_in)
  PROVE  /\ DOMAIN call' = Thread
         /\ \A u \in Thread \ {t} : call'[u] = call[u]
         /\ IdOf(call'[t].headers) = (IF localid[t] = NULL THEN {} ELSE {localid[t]})
         /\ call'[t].client = c /\ call'[t].body = body
<1> DEFINE S == {"Content-Type", "Authorization", "X-Correlation-ID"} \X {c.mime, c.token, localid[t]}
           s1 == edgex_add_auth_hdr(c, slist_in)
           s2 == edgex_add_crlid_hdr(t, s1)
           s3 == edgex_add_other_hdrs(c, s2)
<1>1. slist_in \in Seq(S) /\ IdOf(slist_in) = {}
  <2>1. IdOf(<<>>) = {} /\ <<>> \in Seq(S)
    BY DEF IdOf, ToSet
  <2>2. IdOf(ContentType(c)) = {} /\ ContentType(c) \in Seq(S)
    <3>1. <<"Content-Type", c.mime>> \in S
      OBVIOUS
    <3> DEFINE none == <<>>
    <3>2. none \in Seq(S) /\ IdOf(none) = {} /\ ContentType(c) = edgex_add_hdr(none, "Content-Type", c.mime)
      BY <2>1 DEF ContentType
    <3> HIDE DEF S, none
    <3>3. QED
      BY <3>1, <3>2, HdrIds
  <2>3. QED
    BY <2>1, <2>2
<1>2. s1 \in Seq(S) /\ IdOf(s1) = {}
  <2>1. <<"Authorization", c.token>> \in S
    OBVIOUS
  <2> HIDE DEF S
  <2>2. QED
    BY <1>1, <2>1, HdrIds DEF edgex_add_auth_hdr
<1>3. s2 \in Seq(S) /\ IdOf(s2) = (IF localid[t] = NULL THEN {} ELSE {localid[t]})
  <2>1. <<"X-Correlation-ID", localid[t]>> \in S
    OBVIOUS
  <2> HIDE DEF S, s1
  <2>2. CASE localid[t] = NULL
    BY <1>2, <2>2 DEF edgex_add_crlid_hdr, edgex_device_get_crlid
  <2>3. CASE localid[t] # NULL
    <3>1. s2 = edgex_add_hdr(s1, "X-Correlation-ID", localid[t])
      BY <2>3 DEF edgex_add_crlid_hdr, edgex_device_get_crlid
    <3>2. /\ edgex_add_hdr(s1, "X-Correlation-ID", localid[t]) \in Seq(S)
          /\ IdOf(edgex_add_hdr(s1, "X-Correlation-ID", localid[t])) = IdOf(s1) \cup {localid[t]}
      BY <1>2, <2>1, HdrIds
    <3> HIDE DEF s2
    <3>3. QED
      BY <1>2, <2>3, <3>1, <3>2
  <2>4. QED
    BY <2>2, <2>3
<1>4. IdOf(s3) = (IF localid[t] = NULL THEN {} ELSE {localid[t]})
  <2> HIDE DEF S, s2
  <2>1. QED
    BY <1>3, OtherHdrIds
<1>5. call' = [call EXCEPT ![t] = [client |-> c, body |-> body, headers |-> s3]]
  BY DEF edgex_run_curl
<1> HIDE DEF s3
<1>6. QED
  BY <1>4, <1>5 DEF TypeInv

LEMMA CallMade ==
  ASSUME TypeInv, NEW t \in Thread, NEW c \in HttpClients, Call(t, c)
  PROVE  /\ call[t] = NULL /\ DOMAIN call' = Thread
         /\ \A u \in Thread \ {t} : call'[u] = call[u]
         /\ IdOf(call'[t].headers) = (IF localid[t] = NULL THEN {} ELSE {localid[t]})
<1>1. call[t] = NULL
  BY DEF Call
<1>2. PICK body, slist_in : /\ slist_in = <<>> \/ slist_in = ContentType(c)
                            /\ edgex_run_curl(t, c, body, slist_in)
  BY DEF Call, edgex_http_get, edgex_http_delete, edgex_http_put, edgex_http_post, edgex_http_postbin,
         edgex_http_postfile
<1>3. QED
  BY <1>1, <1>2, RunIds

(***************************************************************************)
(* The steps of one thread                                                 *)
(***************************************************************************)

(* What the others have is the same.                                       *)
Others(t) ==
  /\ DOMAIN conn' = Conn /\ DOMAIN pool' = PoolThread
  /\ DOMAIN localid' = Thread /\ DOMAIN call' = Thread
  /\ \A c \in Conn \ {t} : conn'[c] = conn[c]
  /\ \A w \in PoolThread \ {t} : pool'[w] = pool[w]
  /\ \A u \in Thread \ {t} : localid'[u] = localid[u] /\ call'[u] = call[u]

(* The id of t is as it was, gone, the client's, or a new one.             *)
IdStep(t) ==
  \/ localid'[t] \in {localid[t], NULL} /\ uuids' = uuids
  \/ localid'[t] \in {r.crlid : r \in ClientRequest} /\ uuids' = uuids
  \/ localid'[t] = uuids + 1 /\ uuids' = uuids + 1

(* Ids that are numbers have been generated.                               *)
LEMMA IdsGenerated ==
  ASSUME IInv, NEW t \in Thread, localid[t] \in Nat
  PROVE  localid[t] <= uuids
<1>1. CASE t \in Conn
  <2>1. CASE conn[t].step \in {"handler", "reply"}
    <3>1. conn[t].request \in ClientRequest /\ conn[t].request.crlid \notin Nat
      BY <1>1, <2>1, HttpAssumptions DEF IInv, TypeInv, ConnOK
    <3>2. QED
      BY <1>1, <2>1, <3>1 DEF IInv, TypeInv, IdInv, ConnId, ConnOK
  <2>2. CASE conn[t].step \notin {"handler", "reply"}
    BY <1>1, <2>2, HttpAssumptions DEF IInv, IdInv, ConnId
  <2>3. QED
    BY <2>1, <2>2
<1>2. CASE t \in PoolThread
  BY <1>2, HttpAssumptions DEF IInv, TypeInv, PoolOK, IdInv, PoolId
<1>3. CASE t = Main
  BY <1>3, HttpAssumptions DEF IInv, IdInv
<1>4. QED
  BY <1>1, <1>2, <1>3 DEF Thread

(* So no two threads come to have the same generated id.                   *)
LEMMA StaysDistinct ==
  ASSUME IInv, NEW t \in Thread, Others(t), IdStep(t)
  PROVE  Distinct'
<1>1. uuids \in Nat /\ uuids + 1 \in Nat /\ \A r \in ClientRequest : r.crlid \notin Nat
  BY HttpAssumptions DEF IInv, TypeInv
<1>2. ASSUME NEW a \in Thread, NEW b \in Thread, a # b, localid'[a] \in Nat
      PROVE  localid'[b] # localid'[a]
  <2>1. CASE a # t /\ b # t
    BY <1>2, <2>1 DEF IInv, Distinct, Others
  <2>2. ASSUME NEW u \in Thread, u # t, localid'[u] \in Nat PROVE localid'[t] # localid'[u]
    <3>1. localid'[u] = localid[u] /\ localid[u] \in Nat /\ localid[u] <= uuids
      BY <2>2, IdsGenerated DEF Others
    <3>2. CASE localid'[t] = localid[t]
      BY <2>2, <3>1, <3>2 DEF IInv, Distinct
    <3>3. CASE localid'[t] = NULL
      BY <3>1, <3>3, HttpAssumptions
    <3>4. CASE localid'[t] \in {r.crlid : r \in ClientRequest}
      BY <1>1, <3>1, <3>4
    <3>5. CASE localid'[t] = uuids + 1
      BY <1>1, <3>1, <3>5
    <3>6. QED
      BY <3>2, <3>3, <3>4, <3>5 DEF IdStep
  <2>3. CASE a = t
    BY <1>2, <2>2, <2>3
  <2>4. CASE b = t
    BY <1>2, <2>2, <2>4
  <2>5. QED
    BY <2>1, <2>3, <2>4
<1>3. QED
  BY <1>2 DEF Distinct

(* What is to be shown of a step of t, and of t alone.                     *)
LEMMA OneThread ==
  ASSUME IInv, NEW t \in Thread, Others(t), IdStep(t),
         uuids' \in Nat, jobs' \in Seq(DOMAIN JobCalls), HandlersOK',
         t \in Conn => ConnOK(t)' /\ ConnId(t)',
         t \in PoolThread => PoolOK(t)' /\ PoolId(t)',
         t = Main => localid'[t] = NULL,
         call'[t] # NULL =>
           IdOf(call'[t].headers) = (IF localid'[t] = NULL THEN {} ELSE {localid'[t]})
  PROVE  IInv'
<1>1. uuids <= uuids' /\ uuids \in Nat
  BY DEF IdStep, IInv, TypeInv
<1>2. ASSUME NEW c \in Conn PROVE ConnOK(c)' /\ ConnId(c)'
  <2>1. CASE c = t
    BY <2>1
  <2>2. CASE c # t
    <3>1. conn'[c] = conn[c] /\ localid'[c] = localid[c] /\ call'[c] = call[c]
      BY <2>2 DEF Others, Thread
    <3>2. ConnOK(c) /\ ConnId(c)
      BY DEF IInv, TypeInv, IdInv
    <3>3. ConnOK(c)'
      BY <1>1, <3>1, <3>2 DEF ConnOK
    <3>4. QED
      BY <1>1, <3>1, <3>2, <3>3 DEF ConnId, ConnOK
  <2>3. QED
    BY <2>1, <2>2
<1>3. ASSUME NEW w \in PoolThread PROVE PoolOK(w)' /\ PoolId(w)'
  <2>1. CASE w = t
    BY <2>1
  <2>2. CASE w # t
    <3>1. pool'[w] = pool[w] /\ localid'[w] = localid[w] /\ call'[w] = call[w]
      BY <2>2 DEF Others, Thread
    <3>2. PoolOK(w) /\ PoolId(w)
      BY DEF IInv, TypeInv, IdInv
    <3>3. PoolOK(w)'
      BY <3>1, <3>2 DEF PoolOK
    <3>4. QED
      BY <1>1, <3>1, <3>2, <3>3 DEF PoolId, PoolOK
  <2>3. QED
    BY <2>1, <2>2
<1>4. localid'[Main] = NULL
  BY DEF Others, Thread, IInv, IdInv
<1>5. CallIds'
  BY DEF CallIds, Others, IInv
<1>6. Distinct'
  BY StaysDistinct
<1>7. QED
  BY <1>2, <1>3, <1>4, <1>5, <1>6 DEF IInv, TypeInv, IdInv, Others

(***************************************************************************)
(* The steps of a connection                                               *)
(***************************************************************************)

(* What its steps have in common.                                          *)
LEMMA ConnThread ==
  ASSUME IInv, NEW c \in Conn
  PROVE  /\ c \in Thread /\ c # Main /\ c \notin PoolThread
         /\ ConnOK(c) /\ ConnId(c) /\ uuids \in Nat /\ jobs \in Seq(DOMAIN JobCalls)
         /\ DOMAIN conn = Conn /\ DOMAIN pool = PoolThread
         /\ DOMAIN localid = Thread /\ DOMAIN call = Thread
         /\ handlers # NULL \/ conn[c].step # "free" => handlers \in Seq(ToSet(Registered))
         /\ call[c] # NULL => IdOf(call[c].headers) = (IF localid[c] = NULL THEN {} ELSE {localid[c]})
BY HttpAssumptions DEF IInv, TypeInv, HandlersOK, IdInv, CallIds, Thread

LEMMA ConnHandlers ==
  ASSUME IInv, NEW c \in Conn, handlers' = handlers, Others(c),
         conn'[c].step # "free" => handlers \in Seq(ToSet(Registered))
  PROVE  HandlersOK'
BY DEF IInv, TypeInv, HandlersOK, Others

(* Steps that leave the ids and the calls as they are.                     *)
LEMMA ConnQuiet ==
  ASSUME IInv, NEW c \in Conn, NEW v, conn' = [conn EXCEPT ![c] = v],
         UNCHANGED <<handlers, pool, localid, call, jobs, uuids>>,
         v.step # "free" => handlers \in Seq(ToSet(Registered)),
         ConnOK(c)', ConnId(c)'
  PROVE  IInv'
<1>1. Others(c)
  BY ConnThread DEF Others
<1>2. conn'[c] = v
  BY ConnThread
<1>3. HandlersOK'
  BY <1>1, <1>2, ConnHandlers
<1>4. IdStep(c)
  BY DEF IdStep
<1>5. QED
  BY <1>1, <1>3, <1>4, ConnThread, OneThread

LEMMA ArriveInv ==
  ASSUME IInv, NEW c \in Conn, Arrive(c)
  PROVE  IInv'
<1>1. PICK r \in ClientRequest :
        conn' = [conn EXCEPT ![c] = [request |-> r, left |-> r.body, m_data |-> NULL,
                                     step |-> "first call", known |-> handlers, since |-> uuids]]
  BY DEF Arrive
<1> DEFINE v == [request |-> r, left |-> r.body, m_data |-> NULL,
                 step |-> "first call", known |-> handlers, since |-> uuids]
<1>2. conn'[c] = v /\ DOMAIN v = {"request", "left", "m_data", "step", "known", "since"}
      /\ v.step = "first call" /\ v.request = r /\ v.since = uuids
  BY <1>1, ConnThread
<1>3. conn' = [conn EXCEPT ![c] = v] /\ UNCHANGED <<handlers, pool, localid, call, jobs, uuids>>
      /\ handlers # NULL /\ conn[c].step = "free"
  BY <1>1 DEF Arrive
<1> HIDE DEF v
<1>4. ConnOK(c)'
  <2>1. uuids \in Nat
    BY ConnThread
  <2>2. uuids \in 0..uuids'
    BY <1>3, <2>1
  <2>3. QED
    BY <1>2, <2>1, <2>2 DEF ConnOK, Steps
<1>5. ConnId(c)'
  BY <1>2, <1>3, ConnThread DEF ConnId
<1>6. QED
  BY <1>3, <1>4, <1>5, ConnThread, ConnQuiet

LEMMA ClientGoneInv ==
  ASSUME IInv, NEW c \in Conn, ClientGone(c)
  PROVE  IInv'
<1>1. conn' = [conn EXCEPT ![c] = Free] /\ UNCHANGED <<handlers, pool, localid, call, jobs, uuids>>
      /\ conn[c].step \in {"first call", "upload"}
  BY DEF ClientGone
<1>2. conn'[c] = Free /\ Free.step = "free" /\ DOMAIN Free = {"step"}
  BY <1>1, ConnThread DEF Free
<1>3. ConnOK(c)'
  BY <1>2 DEF ConnOK, Steps
<1>4. ConnId(c)'
  BY <1>1, <1>2, ConnThread DEF ConnId
<1>5. QED
  BY <1>1, <1>2, <1>3, <1>4, ConnQuiet

(* The calls of http_handler before the last.                              *)
LEMMA UploadInv ==
  ASSUME IInv, NEW c \in Conn, FirstCall(c) \/ UploadCall(c)
  PROVE  IInv'
<1>1. PICK v : /\ conn' = [conn EXCEPT ![c] = v]
               /\ DOMAIN v = DOMAIN conn[c] /\ v.request = conn[c].request /\ v.since = conn[c].since
               /\ v.step = "upload"
  <2>1. CASE FirstCall(c)
    <3> DEFINE v == [[conn[c] EXCEPT !.m_data = <<>>] EXCEPT !.step = "upload"]
    <3>1. conn' = [conn EXCEPT ![c] = v]
      BY <2>1, ConnThread DEF FirstCall
    <3>2. DOMAIN v = DOMAIN conn[c] /\ v.request = conn[c].request /\ v.since = conn[c].since
          /\ v.step = "upload"
      BY <2>1, ConnThread DEF FirstCall, ConnOK
    <3> HIDE DEF v
    <3>3. QED
      BY <3>1, <3>2
  <2>2. CASE UploadCall(c)
    <3> DEFINE v == [conn[c] EXCEPT !.m_data = @ \o Head(conn[c].left), !.left = Tail(@)]
    <3>1. conn' = [conn EXCEPT ![c] = v]
      BY <2>2, ConnThread DEF UploadCall
    <3>2. DOMAIN v = DOMAIN conn[c] /\ v.request = conn[c].request /\ v.since = conn[c].since
          /\ v.step = "upload"
      BY <2>2, ConnThread DEF UploadCall, ConnOK
    <3> HIDE DEF v
    <3>3. QED
      BY <3>1, <3>2
  <2>3. QED
    BY <2>1, <2>2
<1>2. conn[c].step \in {"first call", "upload"} /\ UNCHANGED <<handlers, pool, localid, call, jobs, uuids>>
  BY DEF FirstCall, UploadCall
<1>3. conn'[c] = v
  BY <1>1, ConnThread
<1>4. ConnOK(c)'
  BY <1>1, <1>2, <1>3, ConnThread DEF ConnOK, Steps
<1>5. ConnId(c)'
  BY <1>1, <1>2, <1>3, ConnThread DEF ConnId
<1>6. QED
  BY <1>1, <1>2, <1>4, <1>5, ConnThread, ConnQuiet

(* The handler that is called is a registered one.                         *)
LEMMA DispatchHandler ==
  ASSUME handlers \in Seq(ToSet(Registered)), NEW r, NEW m_data,
         NEW to \in Dispatch(r, m_data), to.handler # NULL
  PROVE  to.handler \in ToSet(Registered)
<1>1. \A h \in Chosen(normalizeUrl(r.url)) : h \in ToSet(Registered)
  <2>1. \A i \in DOMAIN handlers : handlers[i] \in ToSet(Registered)
    OBVIOUS
  <2>2. QED
    BY <2>1 DEF Chosen
<1>2. r.url \notin {<<>>, <<"/">>} /\ Chosen(normalizeUrl(r.url)) # {}
  <2>1. ASSUME r.url \in {<<>>, <<"/">>} PROVE FALSE
    <3>1. \E status : to = [status |-> status, handler |-> NULL]
      BY <2>1, ZenonT(40) DEF Dispatch
    <3>2. QED
      BY <3>1
  <2>2. ASSUME r.url \notin {<<>>, <<"/">>}, Chosen(normalizeUrl(r.url)) = {} PROVE FALSE
    <3>1. to = [status |-> 404, handler |-> NULL]
      BY <2>2, Zenon DEF Dispatch
    <3>2. QED
      BY <3>1
  <2>3. QED
    BY <2>1, <2>2
<1>3. PICK h \in Chosen(normalizeUrl(r.url)) :
        to = IF method_from_string(r.method) \in h.methods
             THEN [status |-> "the handler's", handler |-> h, method |-> method_from_string(r.method),
                   data |-> m_data,
                   rest |-> SubSeq(normalizeUrl(r.url), Len(h.url) + 1, Len(normalizeUrl(r.url)))]
             ELSE [status |-> 405, handler |-> NULL]
  BY <1>2 DEF Dispatch
<1>4. to.handler = h
  BY <1>3
<1>5. QED
  BY <1>1, <1>4

LEMMA LastCallInv ==
  ASSUME IInv, NEW c \in Conn, LastCall(c)
  PROVE  IInv'
<1>1. conn[c].step = "upload" /\ UNCHANGED <<handlers, jobs, pool, call>>
      /\ edgex_device_alloc_crlid(c, conn[c].request.crlid)
  BY DEF LastCall
<1> DEFINE r == conn[c].request
<1>2. PICK to \in Dispatch(r, conn[c].m_data) :
        conn' = [conn EXCEPT ![c] =
                   [request |-> r, known |-> conn[c].known, since |-> conn[c].since,
                    step |-> IF to.handler = NULL THEN "reply" ELSE "handler", to |-> to]]
  BY DEF LastCall
<1>3. /\ handlers \in Seq(ToSet(Registered)) /\ r \in ClientRequest /\ r.crlid \notin Nat
      /\ conn[c].since \in Nat /\ conn[c].since <= uuids /\ uuids \in Nat
      /\ localid[c] = NULL /\ call[c] = NULL
  <2>1. ConnOK(c) /\ ConnId(c) /\ handlers \in Seq(ToSet(Registered)) /\ uuids \in Nat
    BY <1>1, ConnThread
  <2>2. r \in ClientRequest /\ conn[c].since \in 0..uuids
    BY <1>1, <2>1 DEF ConnOK
  <2>3. localid[c] = NULL /\ call[c] = NULL
    BY <1>1, <2>1 DEF ConnId
  <2> HIDE DEF r
  <2>4. QED
    BY <2>1, <2>2, <2>3, HttpAssumptions
<1> DEFINE v == [request |-> r, known |-> conn[c].known, since |-> conn[c].since,
                 step |-> IF to.handler = NULL THEN "reply" ELSE "handler", to |-> to]
<1>4. conn' = [conn EXCEPT ![c] = v] /\ conn'[c] = v
  BY <1>2, ConnThread
<1>5. DOMAIN v = {"request", "known", "since", "step", "to"} /\ v.request = r /\ v.since = conn[c].since
      /\ v.to = to /\ v.step = IF to.handler = NULL THEN "reply" ELSE "handler"
  OBVIOUS
<1>6. to.handler # NULL => to.handler \in ToSet(Registered)
  BY <1>3, DispatchHandler
<1> HIDE DEF v
<1>7. /\ DOMAIN localid' = Thread /\ \A u \in Thread \ {c} : localid'[u] = localid[u]
      /\ IF r.crlid # NULL THEN localid'[c] = r.crlid /\ uuids' = uuids
         ELSE localid'[c] = uuids + 1 /\ uuids' = uuids + 1
  BY <1>1, ConnThread DEF edgex_device_alloc_crlid
<1>8. uuids' \in Nat /\ conn[c].since \in 0..uuids'
  BY <1>3, <1>7
<1> HIDE DEF r
<1>9. ConnOK(c)'
  BY <1>3, <1>4, <1>5, <1>6, <1>8 DEF ConnOK, Steps
<1>10. ConnId(c)'
  BY <1>1, <1>3, <1>4, <1>5, <1>7 DEF ConnId
<1>11. Others(c)
  BY <1>1, <1>4, <1>7, ConnThread DEF Others
<1>12. IdStep(c)
  BY <1>3, <1>7 DEF IdStep
<1>13. HandlersOK'
  BY <1>1, <1>3, <1>11, ConnHandlers
<1>14. jobs' \in Seq(DOMAIN JobCalls) /\ call'[c] = NULL /\ c \in Thread /\ c \notin PoolThread /\ c # Main
  BY <1>1, <1>3, ConnThread
<1>15. QED
  BY <1>8, <1>9, <1>10, <1>11, <1>12, <1>13, <1>14, OneThread

(* The handler's call, or the job it adds.                                 *)
LEMMA HandlerCallsInv ==
  ASSUME IInv, NEW c \in Conn, HandlerCalls(c)
  PROVE  IInv'
<1>1. conn[c].step = "handler" /\ UNCHANGED <<handlers, pool, localid, uuids>>
      /\ conn' = [conn EXCEPT ![c].step = "reply"]
  BY DEF HandlerCalls
<1>2. conn[c].to.handler \in ToSet(Registered) /\ call[c] = NULL /\ handlers \in Seq(ToSet(Registered))
  BY <1>1, ConnThread DEF ConnOK, ConnId
<1>3. /\ conn' = [conn EXCEPT ![c] = conn'[c]] /\ DOMAIN conn'[c] = DOMAIN conn[c]
      /\ conn'[c].step = "reply" /\ conn'[c].request = conn[c].request /\ conn'[c].since = conn[c].since
  BY <1>1, ConnThread DEF ConnOK
<1>4. /\ DOMAIN call' = Thread /\ \A u \in Thread \ {c} : call'[u] = call[u]
      /\ call'[c] # NULL =>
           IdOf(call'[c].headers) = (IF localid[c] = NULL THEN {} ELSE {localid[c]})
      /\ jobs' \in Seq(DOMAIN JobCalls)
  <2>1. CASE /\ \E client \in conn[c].to.handler.calls : Call(c, client)
             /\ jobs' = jobs
    <3>1. PICK client \in conn[c].to.handler.calls : Call(c, client)
      BY <2>1
    <3>2. client \in HttpClients
      BY <1>2, <3>1 DEF HttpClients
    <3>3. QED
      BY <2>1, <3>1, <3>2, ConnThread, CallMade DEF IInv
  <2>2. CASE /\ conn[c].to.handler.job # NULL /\ jobs' = Append(jobs, conn[c].to.handler.job)
             /\ call' = call
    <3>1. conn[c].to.handler.job \in DOMAIN JobCalls
      BY <1>2, <2>2, HttpAssumptions
    <3>2. jobs \in Seq(DOMAIN JobCalls) /\ DOMAIN call = Thread
      BY ConnThread
    <3> DEFINE J == DOMAIN JobCalls
               job == conn[c].to.handler.job
    <3>3. job \in J /\ jobs \in Seq(J) /\ jobs' = Append(jobs, job)
      BY <2>2, <3>1, <3>2
    <3> HIDE DEF J, job
    <3>4. jobs' \in Seq(J)
      BY <3>3
    <3>5. QED
      BY <1>2, <2>2, <3>2, <3>4 DEF J
  <2>3. CASE call' = call /\ jobs' = jobs
    BY <1>2, <2>3, ConnThread
  <2>4. QED
    BY <2>1, <2>2, <2>3 DEF HandlerCalls
<1>5. ConnOK(c)'
  BY <1>1, <1>3, ConnThread DEF ConnOK, Steps
<1>6. ConnId(c)'
  BY <1>1, <1>3, ConnThread DEF ConnId
<1>7. Others(c)
  BY <1>1, <1>3, <1>4, ConnThread DEF Others
<1>8. IdStep(c) /\ HandlersOK'
  BY <1>1, <1>2, <1>7, ConnHandlers DEF IdStep
<1>9. QED
  BY <1>1, <1>4, <1>5, <1>6, <1>7, <1>8, ConnThread, OneThread

LEMMA ReplyInv ==
  ASSUME IInv, NEW c \in Conn, Reply(c)
  PROVE  IInv'
<1>1. conn' = [conn EXCEPT ![c] = Free] /\ localid' = [localid EXCEPT ![c] = NULL] /\ call[c] = NULL
      /\ UNCHANGED <<handlers, pool, call, jobs, uuids>>
  BY DEF Reply, edgex_device_free_crlid
<1>2. conn'[c] = Free /\ Free.step = "free" /\ DOMAIN Free = {"step"} /\ localid'[c] = NULL
  BY <1>1, ConnThread DEF Free
<1>3. ConnOK(c)'
  BY <1>2 DEF ConnOK, Steps
<1>4. ConnId(c)'
  BY <1>1, <1>2 DEF ConnId
<1>5. Others(c)
  BY <1>1, ConnThread DEF Others
<1>6. IdStep(c) /\ HandlersOK'
  BY <1>1, <1>2, <1>5, ConnHandlers DEF IdStep
<1>7. QED
  BY <1>1, <1>2, <1>3, <1>4, <1>5, <1>6, ConnThread, OneThread

(***************************************************************************)
(* The steps of the pool and of the main thread                            *)
(***************************************************************************)

LEMMA PoolThreadOf ==
  ASSUME IInv, NEW w \in PoolThread
  PROVE  /\ w \in Thread /\ w # Main /\ w \notin Conn
         /\ PoolOK(w) /\ PoolId(w) /\ uuids \in Nat /\ jobs \in Seq(DOMAIN JobCalls)
         /\ DOMAIN conn = Conn /\ DOMAIN pool = PoolThread
         /\ DOMAIN localid = Thread /\ DOMAIN call = Thread
         /\ call[w] # NULL => IdOf(call[w].headers) = (IF localid[w] = NULL THEN {} ELSE {localid[w]})
BY HttpAssumptions DEF IInv, TypeInv, IdInv, CallIds, Thread

(* The handlers stay as they are, and so do the connections.               *)
LEMMA SameHandlers ==
  ASSUME IInv, handlers' = handlers, conn' = conn
  PROVE  HandlersOK'
BY DEF IInv, TypeInv, HandlersOK

LEMMA TakeJobInv ==
  ASSUME IInv, NEW w \in PoolThread, TakeJob(w)
  PROVE  IInv'
<1>1. pool[w].job = "none" /\ jobs # <<>> /\ jobs' = Tail(jobs) /\ UNCHANGED <<handlers, conn, call>>
  BY DEF TakeJob
<1> DEFINE job == Head(jobs)
<1>2. PICK calls \in BOOLEAN :
        /\ pool' = [pool EXCEPT ![w] = [job |-> job, calls |-> calls, since |-> uuids]]
        /\ IF job = "ae_runner" /\ calls THEN edgex_device_alloc_crlid(w, NULL)
           ELSE UNCHANGED <<localid, uuids>>
  BY DEF TakeJob
<1>3. job \in DOMAIN JobCalls /\ jobs' \in Seq(DOMAIN JobCalls)
  <2> DEFINE J == DOMAIN JobCalls
  <2>1. jobs \in Seq(J)
    BY PoolThreadOf
  <2> HIDE DEF J
  <2>2. Head(jobs) \in J /\ Tail(jobs) \in Seq(J)
    BY <1>1, <2>1
  <2>3. QED
    BY <1>1, <2>2 DEF J
<1> HIDE DEF job
<1>4. job # "none"
  BY <1>3, HttpAssumptions
<1>5. localid[w] = NULL /\ call[w] = NULL
  BY <1>1, PoolThreadOf DEF PoolOK, PoolId
<1>6. /\ DOMAIN pool' = PoolThread /\ \A x \in PoolThread \ {w} : pool'[x] = pool[x]
      /\ DOMAIN pool'[w] = {"job", "calls", "since"}
      /\ pool'[w].job = job /\ pool'[w].calls = calls /\ pool'[w].since = uuids
  BY <1>2, PoolThreadOf
<1>7. /\ DOMAIN localid' = Thread /\ \A u \in Thread \ {w} : localid'[u] = localid[u]
      /\ IF job = "ae_runner" /\ calls THEN localid'[w] = uuids + 1 /\ uuids' = uuids + 1
         ELSE localid'[w] = NULL /\ uuids' = uuids
  BY <1>2, <1>5, PoolThreadOf DEF edgex_device_alloc_crlid
<1>8. uuids \in Nat /\ uuids' \in Nat
  <2>1. uuids \in Nat
    BY PoolThreadOf
  <2>2. QED
    BY <1>7, <2>1
<1>9. PoolOK(w)'
  BY <1>3, <1>4, <1>6, <1>8 DEF PoolOK
<1>10. PoolId(w)'
  BY <1>1, <1>5, <1>6, <1>7, <1>8 DEF PoolId
<1>11. Others(w)
  BY <1>1, <1>6, <1>7, PoolThreadOf DEF Others
<1>12. IdStep(w) /\ HandlersOK'
  BY <1>1, <1>7, SameHandlers DEF IdStep
<1>13. call'[w] = NULL
  BY <1>1, <1>5
<1>14. QED
  BY <1>3, <1>8, <1>9, <1>10, <1>11, <1>12, <1>13, PoolThreadOf, OneThread

LEMMA JobCallsOutInv ==
  ASSUME IInv, NEW w \in PoolThread, JobCallsOut(w)
  PROVE  IInv'
<1>1. pool[w].calls /\ pool' = [pool EXCEPT ![w].calls = FALSE]
      /\ UNCHANGED <<handlers, conn, jobs, localid, uuids>>
  BY DEF JobCallsOut
<1>2. pool[w].job \in DOMAIN JobCalls /\ pool[w].job # "none"
  BY <1>1, PoolThreadOf DEF PoolOK
<1>3. PICK client \in JobCalls[pool[w].job] : Call(w, client)
  BY DEF JobCallsOut
<1>4. client \in HttpClients
  <2> DEFINE job == pool[w].job
  <2>1. client \in JobCalls[job] /\ job \in DOMAIN JobCalls
    BY <1>2, <1>3
  <2> HIDE DEF job
  <2>2. client \in UNION {JobCalls[j] : j \in DOMAIN JobCalls}
    BY <2>1
  <2>3. QED
    BY <2>2 DEF HttpClients
<1>5. /\ DOMAIN call' = Thread /\ \A u \in Thread \ {w} : call'[u] = call[u]
      /\ IdOf(call'[w].headers) = (IF localid[w] = NULL THEN {} ELSE {localid[w]})
  BY <1>3, <1>4, PoolThreadOf, CallMade DEF IInv
<1>6. /\ DOMAIN pool' = PoolThread /\ \A x \in PoolThread \ {w} : pool'[x] = pool[x]
      /\ DOMAIN pool'[w] = DOMAIN pool[w] /\ pool'[w].calls = FALSE
      /\ pool'[w].job = pool[w].job /\ pool'[w].since = pool[w].since
  BY <1>1, PoolThreadOf DEF PoolOK
<1>7. PoolOK(w)'
  BY <1>2, <1>6, PoolThreadOf DEF PoolOK
<1>8. PoolId(w)'
  BY <1>1, <1>6, PoolThreadOf DEF PoolId, PoolOK
<1>9. Others(w)
  BY <1>1, <1>5, <1>6, PoolThreadOf DEF Others
<1>10. IdStep(w) /\ HandlersOK'
  BY <1>1, SameHandlers DEF IdStep
<1>11. QED
  BY <1>1, <1>5, <1>7, <1>8, <1>9, <1>10, PoolThreadOf, OneThread

LEMMA EndJobInv ==
  ASSUME IInv, NEW w \in PoolThread, EndJob(w)
  PROVE  IInv'
<1>1. pool' = [pool EXCEPT ![w] = NoJob] /\ call[w] = NULL /\ UNCHANGED <<handlers, conn, jobs, call, uuids>>
      /\ IF localid[w] # NULL /\ pool[w].job = "ae_runner" THEN localid' = [localid EXCEPT ![w] = NULL]
         ELSE localid' = localid
  BY DEF EndJob, edgex_device_free_crlid
<1>2. localid'[w] = NULL /\ DOMAIN localid' = Thread /\ \A u \in Thread \ {w} : localid'[u] = localid[u]
  BY <1>1, PoolThreadOf DEF PoolId
<1>3. /\ DOMAIN pool' = PoolThread /\ \A x \in PoolThread \ {w} : pool'[x] = pool[x]
      /\ DOMAIN pool'[w] = {"job", "calls"} /\ pool'[w].job = "none" /\ pool'[w].calls = FALSE
  BY <1>1, PoolThreadOf DEF NoJob
<1>4. PoolOK(w)'
  BY <1>1, <1>3 DEF PoolOK
<1>5. PoolId(w)'
  BY <1>2, <1>3 DEF PoolId
<1>6. Others(w)
  BY <1>1, <1>2, <1>3, PoolThreadOf DEF Others
<1>7. IdStep(w) /\ HandlersOK'
  BY <1>1, <1>2, SameHandlers DEF IdStep
<1>8. QED
  BY <1>1, <1>2, <1>4, <1>5, <1>6, <1>7, PoolThreadOf, OneThread

LEMMA MainThread ==
  ASSUME IInv
  PROVE  /\ Main \in Thread /\ Main \notin Conn /\ Main \notin PoolThread
         /\ DOMAIN conn = Conn /\ DOMAIN pool = PoolThread
         /\ DOMAIN localid = Thread /\ DOMAIN call = Thread
         /\ localid[Main] = NULL /\ uuids \in Nat /\ jobs \in Seq(DOMAIN JobCalls)
         /\ call[Main] # NULL => IdOf(call[Main].headers) = {}
BY HttpAssumptions DEF IInv, TypeInv, IdInv, CallIds, Thread

LEMMA MainCallsOutInv ==
  ASSUME IInv, MainCallsOut
  PROVE  IInv'
<1>1. PICK client \in HttpClients : Call(Main, client)
  <2>1. PICK client \in IF handlers = NULL THEN StartCalls ELSE AppCalls \cup SpareCalls : Call(Main, client)
    BY DEF MainCallsOut
  <2>2. client \in HttpClients
    BY <2>1 DEF HttpClients
  <2>3. QED
    BY <2>1, <2>2
<1>2. UNCHANGED <<handlers, conn, jobs, pool, localid, uuids>>
  BY DEF MainCallsOut
<1>3. /\ DOMAIN call' = Thread /\ \A u \in Thread \ {Main} : call'[u] = call[u]
      /\ IdOf(call'[Main].headers) = (IF localid[Main] = NULL THEN {} ELSE {localid[Main]})
  BY <1>1, MainThread, CallMade DEF IInv
<1>4. Others(Main)
  BY <1>2, <1>3, MainThread DEF Others
<1>5. IdStep(Main) /\ HandlersOK'
  BY <1>2, SameHandlers DEF IdStep
<1>6. QED
  BY <1>2, <1>3, <1>4, <1>5, MainThread, OneThread

(***************************************************************************)
(* Steps that give no thread anything to do                                *)
(***************************************************************************)

LEMMA NoThread ==
  ASSUME IInv, UNCHANGED <<conn, pool, localid, call, uuids>>,
         jobs' \in Seq(DOMAIN JobCalls), HandlersOK'
  PROVE  IInv'
<1>1. Others(Main) /\ IdStep(Main)
  BY MainThread DEF Others, IdStep
<1>2. QED
  BY <1>1, MainThread, OneThread

LEMMA ServerInv ==
  ASSUME IInv, edgex_rest_server_create \/ edgex_rest_server_register_handler
  PROVE  IInv'
<1>1. UNCHANGED <<conn, pool, localid, call, uuids, jobs>>
  BY DEF edgex_rest_server_create, edgex_rest_server_register_handler
<1>2. handlers' \in Seq(ToSet(Registered))
  <2> DEFINE R == ToSet(Registered)
  <2>1. CASE edgex_rest_server_create
    BY <2>1 DEF edgex_rest_server_create
  <2>2. CASE edgex_rest_server_register_handler
    <3>1. handlers \in Seq(R) /\ Registered \in Seq(R) /\ Len(handlers) < Len(Registered)
          /\ handlers' = <<Registered[Len(handlers) + 1]>> \o handlers
      BY <2>2, HttpAssumptions DEF IInv, TypeInv, HandlersOK, edgex_rest_server_register_handler
    <3> HIDE DEF R
    <3>2. Registered[Len(handlers) + 1] \in R
      BY <3>1
    <3>3. handlers' \in Seq(R)
      BY <3>1, <3>2
    <3>4. QED
      BY <3>3 DEF R
  <2>3. QED
    BY <2>1, <2>2
<1>3. HandlersOK'
  BY <1>2 DEF HandlersOK
<1>4. QED
  BY <1>1, <1>3, MainThread, NoThread

(* Jobs that come from elsewhere.                                          *)
LEMMA JobsInv ==
  ASSUME IInv, edgex_device_post_readings \/ Fire
  PROVE  IInv'
<1>1. UNCHANGED <<handlers, conn, pool, localid, call, uuids>>
      /\ (jobs' = jobs \/ jobs' = Append(jobs, "doPost") \/ jobs' = Append(jobs, "ae_runner"))
  BY DEF edgex_device_post_readings, Fire
<1>2. jobs' \in Seq(DOMAIN JobCalls)
  <2> DEFINE J == DOMAIN JobCalls
  <2>1. jobs \in Seq(J) /\ "doPost" \in J /\ "ae_runner" \in J
    BY MainThread, HttpAssumptions
  <2> HIDE DEF J
  <2>2. jobs' \in Seq(J)
    BY <1>1, <2>1
  <2>3. QED
    BY <2>2 DEF J
<1>3. HandlersOK'
  BY <1>1, SameHandlers
<1>4. QED
  BY <1>1, <1>2, <1>3, NoThread

(***************************************************************************)
(* The end of a call, on any thread                                        *)
(***************************************************************************)
LEMMA PerformInv ==
  ASSUME IInv, NEW t \in Thread, curl_easy_perform(t)
  PROVE  IInv'
<1>1. call' = [call EXCEPT ![t] = NULL] /\ UNCHANGED <<handlers, conn, jobs, pool, localid, uuids>>
  BY DEF curl_easy_perform
<1>2. DOMAIN call' = Thread /\ call'[t] = NULL /\ \A u \in Thread \ {t} : call'[u] = call[u]
  BY <1>1, MainThread
<1>3. Others(t) /\ IdStep(t) /\ HandlersOK'
  BY <1>1, <1>2, MainThread, SameHandlers DEF Others, IdStep
<1>4. ASSUME t \in Conn PROVE ConnOK(t)' /\ ConnId(t)'
  <2>1. ConnOK(t) /\ ConnId(t)
    BY <1>4, ConnThread
  <2>2. QED
    BY <1>1, <1>2, <2>1 DEF ConnOK, ConnId
<1>5. ASSUME t \in PoolThread PROVE PoolOK(t)' /\ PoolId(t)'
  <2>1. PoolOK(t) /\ PoolId(t)
    BY <1>5, PoolThreadOf
  <2>2. QED
    BY <1>1, <1>2, <2>1 DEF PoolOK, PoolId
<1>6. QED
  BY <1>1, <1>2, <1>3, <1>4, <1>5, MainThread, OneThread

(***************************************************************************)
(* All steps                                                               *)
(***************************************************************************)
LEMMA InitInv == HttpInit => IInv
<1> SUFFICES ASSUME HttpInit PROVE IInv
  OBVIOUS
<1>1. /\ handlers = NULL /\ jobs = <<>> /\ uuids = 0
      /\ DOMAIN conn = Conn /\ \A c \in Conn : conn[c] = Free
      /\ DOMAIN pool = PoolThread /\ \A w \in PoolThread : pool[w] = NoJob
      /\ DOMAIN localid = Thread /\ \A t \in Thread : localid[t] = NULL
      /\ DOMAIN call = Thread /\ \A t \in Thread : call[t] = NULL
  BY DEF HttpInit
<1>2. Free.step = "free" /\ DOMAIN Free = {"step"}
  BY DEF Free
<1>3. NoJob.job = "none" /\ NoJob.calls = FALSE /\ DOMAIN NoJob = {"job", "calls"}
  BY DEF NoJob
<1>4. \A c \in Conn : c \in Thread /\ ConnOK(c) /\ ConnId(c)
  BY <1>1, <1>2 DEF ConnOK, ConnId, Steps, Thread
<1>5. \A w \in PoolThread : w \in Thread /\ PoolOK(w) /\ PoolId(w)
  BY <1>1, <1>3 DEF PoolOK, PoolId, Thread
<1>6. HandlersOK
  BY <1>1, <1>2 DEF HandlersOK
<1>7. TypeInv
  BY <1>1, <1>4, <1>5, <1>6 DEF TypeInv
<1>8. IdInv /\ Distinct /\ CallIds
  BY <1>1, <1>4, <1>5, HttpAssumptions DEF IdInv, Distinct, CallIds, Thread
<1>9. QED
  BY <1>7, <1>8 DEF IInv

LEMMA NextInv == IInv /\ [HttpNext]_httpVars => IInv'
<1> SUFFICES ASSUME IInv, [HttpNext]_httpVars PROVE IInv'
  OBVIOUS
<1>1. CASE edgex_rest_server_create \/ edgex_rest_server_register_handler
  BY <1>1, ServerInv
<1>2. CASE edgex_device_post_readings \/ Fire
  BY <1>2, JobsInv
<1>3. CASE MainCallsOut
  BY <1>3, MainCallsOutInv
<1>4. ASSUME NEW c \in Conn, Arrive(c) \/ ClientGone(c)
      PROVE  IInv'
  BY <1>4, ArriveInv, ClientGoneInv
<1>5. ASSUME NEW c \in Conn, FirstCall(c) \/ UploadCall(c) \/ LastCall(c)
      PROVE  IInv'
  BY <1>5, UploadInv, LastCallInv
<1>6. ASSUME NEW c \in Conn, HandlerCalls(c) \/ Reply(c)
      PROVE  IInv'
  BY <1>6, HandlerCallsInv, ReplyInv
<1>7. ASSUME NEW w \in PoolThread, TakeJob(w) \/ JobCallsOut(w) \/ EndJob(w)
      PROVE  IInv'
  BY <1>7, TakeJobInv, JobCallsOutInv, EndJobInv
<1>8. ASSUME NEW t \in Thread, curl_easy_perform(t)
      PROVE  IInv'
  BY <1>8, PerformInv
<1>9. CASE UNCHANGED httpVars
  BY <1>9 DEF httpVars, IInv, TypeInv, HandlersOK, ConnOK, PoolOK, IdInv, ConnId, PoolId, Distinct, CallIds
<1>10. QED
  BY <1>1, <1>2, <1>3, <1>4, <1>5, <1>6, <1>7, <1>8, <1>9 DEF HttpNext

(***************************************************************************)
(* The body of a call, and what is reported of it                          *)
(***************************************************************************)

(* The assumption on the clients is what their constructors see to.        *)
LEMMA ClientsAreWellMade ==
  ASSUME NEW S, NEW data \in Seq(S), NEW name, NEW id, NEW state, NEW encoding,
         \A path : NULL \notin {Document(path), <<Document(path)[1]>>},
         NEW c \in
           {edgex_metadata_client_get_deviceprofile(name),
            edgex_metadata_client_set_device_opstate(id, state),
            edgex_metadata_client_set_device_adminstate(id, state),
            edgex_metadata_client_create_deviceprofile(name, data),
            edgex_metadata_client_create_deviceprofile_file(name, data),
            edgex_metadata_client_get_deviceservice(name),
            edgex_metadata_client_create_deviceservice(name, data),
            edgex_metadata_client_get_devices(name), edgex_metadata_client_add_device(name, data),
            edgex_metadata_client_get_device(id), edgex_metadata_client_get_device_byname(name),
            edgex_metadata_client_update_device(name, data),
            edgex_metadata_client_delete_device(id), edgex_metadata_client_delete_device_byname(name),
            edgex_metadata_client_get_addressable(name),
            edgex_metadata_client_create_addressable(name, data),
            edgex_metadata_client_update_addressable(name, data),
            edgex_metadata_client_delete_addressable(name), edgex_metadata_client_ping,
            edgex_data_client_ping, edgex_data_client_add_event(data, encoding),
            edgex_data_client_add_valuedescriptor(name, data), edgex_log_torest(data)}
  PROVE  WellMade(c)
<1>1. data \in Seq(ToSet(data))
  BY DEF ToSet
<1> DEFINE Fits(x) == /\ x.verb \in {"GET", "DELETE"} => x.data = NULL
                      /\ x.data \in {NULL, data}
                      /\ x.none404 => x.gives = "document"
                      /\ x.gives = "document" => x.keeps
<1>2. ASSUME NEW verb, NEW path, NEW d \in {NULL, data}, NEW gives, verb \in {"GET", "DELETE"} => d = NULL
      PROVE  Fits(Client(verb, path, d, gives))
  BY <1>2 DEF Client
<1>3. ASSUME NEW gives, NEW path, NEW mime, NEW keeps \in BOOLEAN, gives = "document" => keeps
      PROVE  Fits([[Client("POST", path, data, gives) EXCEPT !.mime = mime] EXCEPT !.keeps = keeps])
  BY <1>3 DEF Client
<1>4. ASSUME NEW path
      PROVE  /\ Fits([Client("GET", path, NULL, "document") EXCEPT !.none404 = TRUE])
             /\ Fits([Client("GET", path, NULL, "good") EXCEPT !.keeps = FALSE])
             /\ Fits([Client("POST", path, data, "good") EXCEPT !.keeps = FALSE])
             /\ Fits([Client("POST", path, data, "text") EXCEPT !.mime = NULL])
  BY DEF Client
<1> HIDE DEF Fits
<1>5. Fits(edgex_data_client_add_event(data, encoding))
  BY <1>3 DEF edgex_data_client_add_event
<1>6. /\ Fits(edgex_metadata_client_get_deviceservice(name)) /\ Fits(edgex_metadata_client_get_addressable(name))
      /\ Fits(edgex_metadata_client_ping) /\ Fits(edgex_data_client_ping) /\ Fits(edgex_log_torest(data))
      /\ Fits(edgex_metadata_client_create_deviceprofile_file(name, data))
  BY <1>4 DEF edgex_metadata_client_get_deviceservice, edgex_metadata_client_get_addressable,
              edgex_metadata_client_ping, edgex_data_client_ping, edgex_log_torest,
              edgex_metadata_client_create_deviceprofile_file
<1>7. Fits(c)
  BY <1>2, <1>5, <1>6
     DEF edgex_metadata_client_get_deviceprofile, edgex_metadata_client_set_device_opstate,
         edgex_metadata_client_set_device_adminstate, edgex_metadata_client_create_deviceprofile,
         edgex_metadata_client_create_deviceservice, edgex_metadata_client_get_devices,
         edgex_metadata_client_add_device, edgex_metadata_client_get_device,
         edgex_metadata_client_get_device_byname, edgex_metadata_client_update_device,
         edgex_metadata_client_delete_device, edgex_metadata_client_delete_device_byname,
         edgex_metadata_client_create_addressable, edgex_metadata_client_update_addressable,
         edgex_metadata_client_delete_addressable, edgex_data_client_add_valuedescriptor
<1>8. QED
  BY <1>1, <1>7 DEF Fits, WellMade

(* Whatever libcurl asks for at once, it gets the whole body.              *)
LEMMA PutWhole ==
  ASSUME NEW S, NEW data \in Seq(S)
  PROVE  PutBody(data) = data
<1> DEFINE L == Len(data)
           Rest(offset) == SubSeq(data, offset + 1, L)
           P(offset) == read_callback(data, offset)
           From(f) == [offset \in 0..L |-> IF P(offset) = <<>> THEN <<>>
                                           ELSE P(offset) \o f[offset + Len(P(offset))]]
           g == [offset \in 0..L |-> Rest(offset)]
<1>1. L \in Nat
  OBVIOUS
<1>2. ASSUME NEW offset \in 0..L, offset < L
      PROVE  /\ P(offset) # <<>> /\ Len(P(offset)) \in 1..(L - offset)
             /\ P(offset) \o Rest(offset + Len(P(offset))) = Rest(offset)
  <2> DEFINE k == IF L - offset < BufferSize THEN L - offset ELSE BufferSize
  <2>1. k \in 1..(L - offset) /\ P(offset) = SubSeq(data, offset + 1, offset + k)
    BY <1>1, <1>2, ClientAssumptions DEF read_callback
  <2> HIDE DEF k, L, P
  <2>2. P(offset) \in Seq(S) /\ Len(P(offset)) = k /\ \A i \in 1..k : P(offset)[i] = data[offset + i]
    BY <1>1, <2>1 DEF L
  <2>3. Rest(offset + k) \in Seq(S) /\ Len(Rest(offset + k)) = L - offset - k
        /\ \A i \in 1..(L - offset - k) : Rest(offset + k)[i] = data[offset + k + i]
    BY <1>1, <2>1 DEF L
  <2>4. Rest(offset) \in Seq(S) /\ Len(Rest(offset)) = L - offset
        /\ \A i \in 1..(L - offset) : Rest(offset)[i] = data[offset + i]
    BY <1>1 DEF L
  <2>5. P(offset) \o Rest(offset + k) = Rest(offset)
    <3> DEFINE p == P(offset)
               q == Rest(offset + k)
               r == Rest(offset)
    <3> HIDE DEF p, q, r
    <3>1. L \in Nat /\ offset \in Nat /\ offset < L /\ k \in 1..(L - offset)
      BY <1>1, <1>2, <2>1
    <3>2. p \in Seq(S) /\ Len(p) = k /\ q \in Seq(S) /\ Len(q) = L - offset - k
          /\ r \in Seq(S) /\ Len(r) = L - offset
      BY <2>2, <2>3, <2>4 DEF p, q, r
    <3>3. p \o q \in Seq(S) /\ Len(p \o q) = Len(r)
      BY <3>1, <3>2
    <3>4. ASSUME NEW i \in 1..Len(r) PROVE (p \o q)[i] = r[i]
      <4>1. i \in 1..(L - offset) /\ r[i] = data[offset + i]
        BY <2>4, <3>2, <3>4 DEF r
      <4>2. CASE i <= k
        <5>1. i \in 1..k /\ p[i] = data[offset + i]
          BY <2>2, <3>1, <4>1, <4>2 DEF p
        <5>2. (p \o q)[i] = p[i]
          BY <3>1, <3>2, <4>1, <4>2
        <5>3. QED
          BY <4>1, <5>1, <5>2
      <4>3. CASE i > k
        <5>1. i - k \in 1..(L - offset - k) /\ offset + k + (i - k) = offset + i
          BY <3>1, <4>1, <4>3
        <5>2. q[i - k] = data[offset + i]
          BY <2>3, <5>1 DEF q
        <5>3. (p \o q)[i] = q[i - k]
          BY <3>1, <3>2, <4>1, <4>3
        <5>4. QED
          BY <4>1, <5>2, <5>3
      <4>4. i <= k \/ i > k
        BY <3>1, <4>1
      <4>5. QED
        BY <4>2, <4>3, <4>4
    <3>5. p \o q = r
      <4> DEFINE pq == p \o q
      <4> HIDE DEF pq
      <4>1. pq \in Seq(S) /\ r \in Seq(S) /\ Len(pq) = Len(r)
        BY <3>2, <3>3 DEF pq
      <4>2. \A i \in 1..Len(r) : pq[i] = r[i]
        BY <3>4, Zenon DEF pq
      <4>3. pq = r
        BY <4>1, <4>2
      <4>4. QED
        BY <4>3 DEF pq
    <3>6. QED
      BY <3>5 DEF p, q, r
  <2>6. Len(P(offset)) \in 1..(L - offset)
    BY <2>1, <2>2
  <2>7. P(offset) # <<>>
    <3>1. Len(P(offset)) > 0
      BY <1>1, <2>6
    <3>2. QED
      BY <3>1
  <2>8. P(offset) \o Rest(offset + Len(P(offset))) = Rest(offset)
    BY <2>2, <2>5
  <2>9. QED
    BY <2>6, <2>7, <2>8
<1>3. P(L) = <<>> /\ Rest(L) = <<>>
  BY <1>1, ClientAssumptions DEF read_callback
<1>4. g = From(g)
  <2> HIDE DEF Rest, P, L
  <2>1. ASSUME NEW offset \in 0..L PROVE g[offset] = From(g)[offset]
    <3>1. CASE offset = L
      BY <1>1, <1>3, <3>1
    <3>2. CASE offset < L
      <4>1. P(offset) # <<>> /\ offset + Len(P(offset)) \in 0..L
        BY <1>1, <1>2, <3>2
      <4>2. QED
        BY <1>2, <3>2, <4>1
    <3>3. QED
      BY <1>1, <3>1, <3>2
  <2>2. QED
    BY <2>1
<1>5. ASSUME NEW f, f = From(f) PROVE f[0] = g[0]
  <2> HIDE DEF Rest, P, L
  <2> DEFINE N == {n \in Nat : \A offset \in 0..L : L - offset <= n => f[offset] = g[offset]}
  <2>1. 0 \in N
    <3>1. f[L] = g[L]
      BY <1>1, <1>3, <1>5
    <3>2. QED
      BY <1>1, <3>1
  <2>2. ASSUME NEW n \in Nat, n \in N PROVE n + 1 \in N
    <3> SUFFICES ASSUME NEW offset \in 0..L, L - offset <= n + 1 PROVE f[offset] = g[offset]
      OBVIOUS
    <3>1. CASE offset = L
      BY <1>1, <1>3, <1>5, <3>1
    <3>2. CASE offset < L
      <4> DEFINE next == offset + Len(P(offset))
      <4>1. P(offset) # <<>> /\ next \in 0..L /\ L - next <= n
        BY <1>1, <1>2, <3>2
      <4>2. f[next] = g[next]
        BY <2>2, <4>1
      <4>3. f[offset] = P(offset) \o f[next] /\ g[offset] = P(offset) \o g[next]
        BY <1>4, <1>5, <4>1
      <4>4. QED
        BY <4>2, <4>3
    <3>3. QED
      BY <1>1, <3>1, <3>2
  <2>3. \A n \in Nat : n \in N
    <3> HIDE DEF N
    <3>1. QED
      BY <2>1, <2>2, NatSetInduction
  <2>4. QED
    BY <1>1, <2>3
<1>6. PutBody(data) = (CHOOSE f : f = From(f))[0]
  BY Zenon DEF PutBody
<1>7. (CHOOSE f : f = From(f)) = From(CHOOSE f : f = From(f))
  <2> HIDE DEF g, From
  <2>1. QED
    BY <1>4
<1>8. g[0] = data
  BY <1>1
<1>9. QED
  <2> HIDE DEF g, From
  <2>1. QED
    BY <1>5, <1>6, <1>7, <1>8

(* The two sets that a fold over one piece passes.                         *)
LEMMA ReceivedNone == Received(<<>>) = NULL
<1> DEFINE e == <<>>
           Step(f) == [s \in SUBSET (DOMAIN e) |-> IF s = {} THEN NULL ELSE
             LET x == Max(s) IN edgex_http_write_cb(f[s \ {x}], e[x])]
           g == [s \in SUBSET (DOMAIN e) |-> NULL]
<1>1. Received(e) = (CHOOSE f : f = Step(f))[DOMAIN e]
  BY DEF Received, FoldLeft, MapThenFoldSet
<1>2. DOMAIN e = {}
  OBVIOUS
<1> HIDE DEF e
<1>3. g = Step(g)
  BY <1>2
<1>4. (CHOOSE f : f = Step(f)) = Step(CHOOSE f : f = Step(f))
  <2> HIDE DEF g, Step
  <2>1. QED
    BY <1>3
<1>5. Received(e) = NULL
  BY <1>1, <1>2, <1>4
<1>6. QED
  BY <1>5 DEF e

LEMMA ReceivedOne == ASSUME NEW p PROVE Received(<<p>>) = p
<1> DEFINE Step(f) == [s \in SUBSET {1} |-> IF s = {} THEN NULL ELSE
             LET x == Max(s) IN edgex_http_write_cb(f[s \ {x}], <<p>>[x])]
           g == [s \in SUBSET {1} |-> IF s = {} THEN NULL ELSE p]
<1>1. Max({1}) = 1
  BY DEF Max
<1>0. SUBSET {1} = {{}, {1}} /\ {1} # {} /\ {1} \ {1} = {} /\ <<p>>[1] = p
  OBVIOUS
<1>2. g = Step(g)
  <2>1. g[{}] = Step(g)[{}]
    BY <1>0
  <2>2. g[{1}] = p /\ g[{}] = NULL
    BY <1>0
  <2>3. Step(g)[{1}] = edgex_http_write_cb(g[{1} \ {1}], <<p>>[1])
    <3> HIDE DEF g
    <3>1. QED
      BY <1>0, <1>1
  <2>4. Step(g)[{1}] = p
    BY <1>0, <2>2, <2>3, Zenon DEF edgex_http_write_cb
  <2>5. DOMAIN g = SUBSET {1} /\ DOMAIN Step(g) = SUBSET {1} /\ g = [s \in DOMAIN g |-> g[s]]
        /\ Step(g) = [s \in SUBSET {1} |-> Step(g)[s]]
    OBVIOUS
  <2> HIDE DEF g, Step
  <2>6. QED
    BY <1>0, <2>1, <2>2, <2>4, <2>5, ZenonT(60)
<1>3. (CHOOSE f : f = Step(f)) = Step(CHOOSE f : f = Step(f))
  <2> HIDE DEF g, Step
  <2>1. QED
    BY <1>2
<1>4. Received(<<p>>) = (CHOOSE f : f = Step(f))[{1}]
  BY DEF Received, FoldLeft, MapThenFoldSet
<1> DEFINE h == CHOOSE f : f = Step(f)
<1>5. h = Step(h)
  BY <1>3
<1> HIDE DEF h
<1>6. Step(h)[{1}] = edgex_http_write_cb(h[{1} \ {1}], <<p>>[1]) /\ Step(h)[{}] = NULL
  BY <1>0, <1>1
<1>7. Received(<<p>>) = h[{1}]
  BY <1>4 DEF h
<1> HIDE DEF Step
<1>8. QED
  BY <1>0, <1>5, <1>6, <1>7, Zenon DEF edgex_http_write_cb

LEMMA ReceivedTwo == ASSUME NEW p, NEW q PROVE Received(<<p, q>>) = edgex_http_write_cb(p, q)
<1> DEFINE e == <<p, q>>
           D == {1, 2}
           Step(f) == [s \in SUBSET D |-> IF s = {} THEN NULL ELSE
             LET x == Max(s) IN edgex_http_write_cb(f[s \ {x}], e[x])]
           g == [s \in SUBSET D |-> IF s = {} THEN NULL ELSE IF s = {1} THEN p ELSE IF s = {2} THEN q
                                    ELSE edgex_http_write_cb(p, q)]
<1>1. Received(e) = (CHOOSE f : f = Step(f))[D]
  <2>1. DOMAIN e = D
    OBVIOUS
  <2>2. Received(e) = (CHOOSE f : f = [s \in SUBSET (DOMAIN e) |-> IF s = {} THEN NULL ELSE
             LET x == Max(s) IN edgex_http_write_cb(f[s \ {x}], e[x])])[DOMAIN e]
    <3> HIDE DEF e
    <3>1. QED
      BY DEF Received, FoldLeft, MapThenFoldSet
  <2> HIDE DEF e, D
  <2>3. QED
    BY <2>1, <2>2
<1>2. Max({1}) = 1 /\ Max({2}) = 2 /\ Max(D) = 2
  BY DEF Max
<1>3. /\ SUBSET D = {{}, {1}, {2}, D} /\ {1} # {} /\ {2} # {} /\ D # {} /\ {1} # {2} /\ {1} # D /\ {2} # D
      /\ {1} \ {1} = {} /\ {2} \ {2} = {} /\ D \ {2} = {1} /\ e[1] = p /\ e[2] = q
  OBVIOUS
<1> HIDE DEF e, D
<1>4. \A f : /\ Step(f)[{}] = NULL
             /\ Step(f)[{1}] = edgex_http_write_cb(f[{}], p)
             /\ Step(f)[{2}] = edgex_http_write_cb(f[{}], q)
             /\ Step(f)[D] = edgex_http_write_cb(f[{1}], q)
             /\ DOMAIN Step(f) = SUBSET D /\ Step(f) = [s \in SUBSET D |-> Step(f)[s]]
  <2> SUFFICES ASSUME NEW f
               PROVE  /\ Step(f)[{}] = NULL
                      /\ Step(f)[{1}] = edgex_http_write_cb(f[{}], p)
                      /\ Step(f)[{2}] = edgex_http_write_cb(f[{}], q)
                      /\ Step(f)[D] = edgex_http_write_cb(f[{1}], q)
                      /\ DOMAIN Step(f) = SUBSET D /\ Step(f) = [s \in SUBSET D |-> Step(f)[s]]
    BY Zenon
  <2>1. Step(f)[{}] = NULL
    BY <1>3
  <2>2. Step(f)[{1}] = edgex_http_write_cb(f[{1} \ {Max({1})}], e[Max({1})])
    BY <1>3
  <2>3. Step(f)[{2}] = edgex_http_write_cb(f[{2} \ {Max({2})}], e[Max({2})])
    BY <1>3
  <2>4. Step(f)[D] = edgex_http_write_cb(f[D \ {Max(D)}], e[Max(D)])
    BY <1>3
  <2>5. DOMAIN Step(f) = SUBSET D /\ Step(f) = [s \in SUBSET D |-> Step(f)[s]]
    OBVIOUS
  <2> HIDE DEF Step
  <2>6. QED
    <3>1. {1} \ {Max({1})} = {} /\ {2} \ {Max({2})} = {} /\ D \ {Max(D)} = {1}
          /\ e[Max({1})] = p /\ e[Max({2})] = q /\ e[Max(D)] = q
      BY <1>2, <1>3
    <3> HIDE DEF Max
    <3>2. QED
      BY <2>1, <2>2, <2>3, <2>4, <2>5, <3>1, Zenon
<1>5. g[{}] = NULL /\ g[{1}] = p /\ g[{2}] = q /\ g[D] = edgex_http_write_cb(p, q)
      /\ g = [s \in SUBSET D |-> g[s]]
  BY <1>3
<1>6. \A b : edgex_http_write_cb(NULL, b) = b
  BY DEF edgex_http_write_cb
<1> HIDE DEF g, Step
<1>7. g = Step(g)
  <2>1. Step(g)[{}] = g[{}] /\ Step(g)[{1}] = g[{1}] /\ Step(g)[{2}] = g[{2}] /\ Step(g)[D] = g[D]
    BY <1>4, <1>5, <1>6, Zenon
  <2>2. \A s \in SUBSET D : Step(g)[s] = g[s]
    BY <1>3, <2>1, Zenon
  <2>3. QED
    BY <1>4, <1>5, <2>2, Zenon
<1>8. (CHOOSE f : f = Step(f)) = Step(CHOOSE f : f = Step(f))
  BY <1>7
<1> DEFINE h == CHOOSE f : f = Step(f)
<1> HIDE DEF h
<1>9. h = Step(h) /\ Received(e) = h[D]
  BY <1>1, <1>8 DEF h
<1>10. h[{}] = NULL /\ h[{1}] = p /\ h[D] = edgex_http_write_cb(p, q)
  <2>1. h[{}] = Step(h)[{}] /\ h[{1}] = Step(h)[{1}] /\ h[D] = Step(h)[D]
    BY <1>9
  <2>2. h[{}] = NULL
    BY <1>4, <2>1
  <2>3. h[{1}] = p
    BY <1>4, <1>6, <2>1, <2>2, Zenon
  <2>4. h[D] = edgex_http_write_cb(h[{1}], q)
    BY <1>4, <2>1, Zenon
  <2>5. QED
    BY <2>2, <2>3, <2>4, Zenon
<1>11. Received(e) = edgex_http_write_cb(p, q)
  BY <1>9, <1>10, Zenon
<1>12. QED
  BY <1>11 DEF e

(* Every call has the body that its client was given.                      *)
BodyInv ==
  \A t \in Thread : call[t] # NULL => call[t].client \in HttpClients /\ call[t].body = call[t].client.data

ReportInv == reported # NULL => Truthful(reported.client, reported.rc, reported.done, reported.report)

LEMMA CallBody ==
  ASSUME TypeInv, NEW t \in Thread, NEW c \in HttpClients, Call(t, c)
  PROVE  /\ \A u \in Thread \ {t} : call'[u] = call[u]
         /\ call'[t].client = c /\ call'[t].body = c.data
<1>1. WellMade(c)
  BY ClientAssumptions
<1>2. PICK body, slist_in : /\ slist_in = <<>> \/ slist_in = ContentType(c)
                            /\ edgex_run_curl(t, c, body, slist_in) /\ body = c.data
  <2>1. CASE edgex_http_get(t, c) \/ edgex_http_delete(t, c)
    BY <1>1, <2>1 DEF WellMade, edgex_http_get, edgex_http_delete
  <2>2. CASE edgex_http_put(t, c)
    <3>1. c.data # NULL => PutBody(c.data) = c.data
      BY <1>1, <2>2, PutWhole DEF WellMade, edgex_http_put
    <3>2. QED
      BY <2>2, <3>1 DEF edgex_http_put
  <2>3. CASE edgex_http_post(t, c) \/ edgex_http_postbin(t, c) \/ edgex_http_postfile(t, c)
    BY <2>3 DEF edgex_http_post, edgex_http_postbin, edgex_http_postfile
  <2>4. QED
    BY <2>1, <2>2, <2>3 DEF Call
<1>3. QED
  BY <1>2, RunIds, ZenonT(60)

(* A step makes a call for one of the clients, ends one, or does neither;  *)
(* and only the end of a call is reported.                                 *)
LEMMA CallSteps ==
  ASSUME IInv, [HttpNext]_httpVars
  PROVE  \/ call' = call /\ reported' \in {NULL, reported}
         \/ (\E t \in Thread, c \in HttpClients : Call(t, c)) /\ reported' = NULL
         \/ \E t \in Thread : curl_easy_perform(t)
<1>1. CASE edgex_rest_server_create \/ edgex_rest_server_register_handler
  BY <1>1 DEF edgex_rest_server_create, edgex_rest_server_register_handler, Silent
<1>2. CASE edgex_device_post_readings \/ Fire
  BY <1>2 DEF edgex_device_post_readings, Fire, Silent
<1>3. CASE MainCallsOut
  <2>1. PICK client \in IF handlers = NULL THEN StartCalls ELSE AppCalls \cup SpareCalls : Call(Main, client)
    BY <1>3 DEF MainCallsOut
  <2>2. client \in HttpClients /\ Main \in Thread /\ reported' = NULL
    BY <1>3, <2>1 DEF HttpClients, Thread, MainCallsOut, Silent
  <2>3. QED
    BY <2>1, <2>2
<1>4. ASSUME NEW c \in Conn, Arrive(c) \/ ClientGone(c) \/ FirstCall(c) \/ UploadCall(c) \/ LastCall(c) \/ Reply(c)
      PROVE  call' = call /\ reported' = NULL
  BY <1>4 DEF Arrive, ClientGone, FirstCall, UploadCall, LastCall, Reply, Silent
<1>5. ASSUME NEW c \in Conn, HandlerCalls(c)
      PROVE  reported' = NULL /\ (call' = call \/ \E t \in Thread, cl \in HttpClients : Call(t, cl))
  <2>1. reported' = NULL /\ conn[c].step = "handler"
    BY <1>5 DEF HandlerCalls, Silent
  <2>2. CASE call' = call
    BY <2>1, <2>2
  <2>3. CASE \E client \in conn[c].to.handler.calls : Call(c, client)
    <3>1. PICK client \in conn[c].to.handler.calls : Call(c, client)
      BY <2>3
    <3>2. conn[c].to.handler \in ToSet(Registered) /\ c \in Thread
      BY <2>1, ConnThread DEF ConnOK
    <3>3. client \in HttpClients
      BY <3>1, <3>2 DEF HttpClients
    <3>4. QED
      BY <2>1, <3>1, <3>2, <3>3
  <2>4. QED
    BY <1>5, <2>2, <2>3 DEF HandlerCalls
<1>6. ASSUME NEW w \in PoolThread, TakeJob(w) \/ EndJob(w)
      PROVE  call' = call /\ reported' = NULL
  BY <1>6 DEF TakeJob, EndJob, Silent
<1>7. ASSUME NEW w \in PoolThread, JobCallsOut(w)
      PROVE  reported' = NULL /\ \E t \in Thread, c \in HttpClients : Call(t, c)
  <2>1. PICK client \in JobCalls[pool[w].job] : Call(w, client)
    BY <1>7 DEF JobCallsOut
  <2>2. pool[w].job \in DOMAIN JobCalls /\ w \in Thread
    BY <1>7, PoolThreadOf DEF PoolOK, JobCallsOut
  <2>3. client \in HttpClients
    <3> DEFINE job == pool[w].job
    <3>1. client \in JobCalls[job] /\ job \in DOMAIN JobCalls
      BY <2>1, <2>2
    <3> HIDE DEF job
    <3>2. client \in UNION {JobCalls[j] : j \in DOMAIN JobCalls}
      BY <3>1
    <3>3. QED
      BY <3>2 DEF HttpClients
  <2>4. QED
    BY <1>7, <2>1, <2>2, <2>3 DEF JobCallsOut, Silent
<1>8. CASE UNCHANGED httpVars
  BY <1>8 DEF httpVars
<1>9. QED
  BY <1>1, <1>2, <1>3, <1>4, <1>5, <1>6, <1>7, <1>8 DEF HttpNext

LEMMA NextBody == IInv /\ BodyInv /\ [HttpNext]_httpVars => BodyInv'
<1> SUFFICES ASSUME IInv, BodyInv, [HttpNext]_httpVars, NEW t \in Thread, call'[t] # NULL
             PROVE  call'[t].client \in HttpClients /\ call'[t].body = call'[t].client.data
  BY DEF BodyInv
<1>1. CASE call'[t] = call[t]
  BY <1>1 DEF BodyInv
<1>2. CASE \E u \in Thread, c \in HttpClients : Call(u, c)
  <2>1. PICK u \in Thread, c \in HttpClients : Call(u, c)
    BY <1>2
  <2>2. CASE t = u
    BY <2>1, <2>2, CallBody DEF IInv
  <2>3. CASE t # u
    BY <1>1, <2>1, <2>3, CallBody DEF IInv
  <2>4. QED
    BY <2>2, <2>3
<1>3. CASE \E u \in Thread : curl_easy_perform(u)
  BY <1>1, <1>3, MainThread DEF curl_easy_perform
<1>4. QED
  BY <1>1, <1>2, <1>3, CallSteps

(* The statuses that count as success, and the others.                     *)
LEMMA Statuses ==
  /\ Err(200) = "ok" /\ Err(202) = "ok" /\ Err(404) = "error" /\ Err(409) = "conflict"
  /\ Err(500) = "error" /\ Err(0) = "error"
BY DEF Err

(* An answer that came whole is the document of the path.                  *)
LEMMA WholeDocument ==
  ASSUME NEW c \in HttpClients, NEW pieces \in Pieces(c), Done(c)
  PROVE  Received(pieces) = Document(c.path) /\ Document(c.path) # NULL
<1> DEFINE b == Document(c.path)[1]
           e == Document(c.path)[2]
<1>1. Document(c.path) = <<b, e>>
  BY DEF Document
<1>a. WellMade(c)
  BY ClientAssumptions
<1>b. Document(c.path) # NULL /\ <<b>> # NULL
  BY <1>a DEF WellMade
<1>c. \A x, y : <<x>> \o <<y>> = <<x, y>>
  <2> SUFFICES ASSUME NEW x, NEW y PROVE <<x>> \o <<y>> = <<x, y>>
    OBVIOUS
  <2> DEFINE s == <<x>> \o <<y>>
             u == <<x, y>>
  <2>1. s \in Seq({x, y}) /\ Len(s) = 2 /\ s[1] = x /\ s[2] = y
    OBVIOUS
  <2>2. u \in Seq({x, y}) /\ Len(u) = 2 /\ u[1] = x /\ u[2] = y
    OBVIOUS
  <2> HIDE DEF s, u
  <2>3. s = u
    BY <2>1, <2>2
  <2>4. QED
    BY <2>3 DEF s, u
<1>2. pieces \in {<<<<b, e>>>>, <<<<b>>, <<e>>>>}
  BY <1>1 DEF Pieces
<1> HIDE DEF b, e
<1>3. Received(<<<<b, e>>>>) = <<b, e>>
  BY ReceivedOne
<1>4. Received(<<<<b>>, <<e>>>>) = <<b, e>>
  BY <1>b, <1>c, ReceivedTwo DEF edgex_http_write_cb
<1>5. QED
  BY <1>1, <1>b, <1>2, <1>3, <1>4

LEMMA ReportTrue ==
  ASSUME NEW c \in HttpClients, NEW rc, NEW pieces, NEW done,
         \/ rc = StatusOf(c) /\ pieces \in Pieces(c) /\ done = Done(c)
         \/ rc \in {0, 500}
  PROVE  Truthful(c, rc, done, Report(c, rc, pieces))
<1> DEFINE buff == IF c.keeps THEN Received(pieces) ELSE NULL
           err == IF c.none404 /\ rc = 404 THEN "ok" ELSE Err(rc)
           report == Report(c, rc, pieces)
<1>1. /\ report.err = err
      /\ report.result = CASE c.gives = "document" /\ Err(rc) = "ok" -> buff
                           [] c.gives = "text" \/ (c.gives = "id" /\ err = "ok") -> buff
                           [] c.gives = "good" -> err = "ok" /\ (c.path = <<"logs">> => rc = 202)
                           [] OTHER -> NULL
  BY DEF Report
<1>2. (c.none404 => c.gives = "document") /\ (c.gives = "document" => c.keeps)
  BY ClientAssumptions DEF WellMade
<1>3. CASE rc \in {200, 202} /\ done /\ Received(pieces) = Document(c.path) /\ Document(c.path) # NULL
  BY <1>1, <1>2, <1>3, Statuses DEF Truthful
<1> HIDE DEF buff, report
<1>4. ASSUME Err(rc) # "ok"
      PROVE  /\ c.gives = "document" => report.result = NULL
             /\ c.gives = "good" => report.result = FALSE
             /\ c.none404 => report.result = NULL
  <2>1. c.gives = "document" => report.result = NULL
    BY <1>1, <1>4
  <2>2. ASSUME c.gives = "good" PROVE report.result = FALSE
    <3>1. ~c.none404 /\ err # "ok"
      BY <1>2, <1>4, <2>2
    <3> HIDE DEF err
    <3>2. report.result = (err = "ok" /\ (c.path = <<"logs">> => rc = 202))
      BY <1>1, <2>2
    <3>3. QED
      BY <3>1, <3>2
  <2>3. QED
    BY <1>2, <2>1, <2>2
<1>5. CASE rc \in {404, 409} /\ ~done
  <2>1. Err(rc) # "ok"
    BY <1>5, Statuses
  <2>2. report.err = "ok" => rc = 404 /\ c.none404
    BY <1>1, <2>1
  <2>3. report.err = "conflict" => ~done
    BY <1>5
  <2> HIDE DEF err
  <2>4. QED
    BY <1>4, <1>5, <2>1, <2>2, <2>3, ZenonT(60) DEF Truthful, report
<1>6. CASE rc \in {0, 500}
  <2>1. Err(rc) = "error"
    BY <1>6, Statuses
  <2>2. report.err = "error"
    BY <1>1, <1>6, <2>1
  <2> HIDE DEF err
  <2>4. QED
    BY <1>4, <2>1, <2>2 DEF Truthful, report
<1>7. QED
  BY <1>3, <1>5, <1>6, WholeDocument DEF StatusOf, report

LEMMA NextReport == IInv /\ BodyInv /\ ReportInv /\ [HttpNext]_httpVars => ReportInv'
<1> SUFFICES ASSUME IInv, BodyInv, ReportInv, [HttpNext]_httpVars, reported' # NULL
             PROVE  Truthful(reported'.client, reported'.rc, reported'.done, reported'.report)
  BY DEF ReportInv
<1>1. CASE reported' = reported
  BY <1>1 DEF ReportInv
<1>2. ASSUME NEW t \in Thread, curl_easy_perform(t)
      PROVE  Truthful(reported'.client, reported'.rc, reported'.done, reported'.report)
  <2> DEFINE c == call[t].client
  <2>1. c \in HttpClients
    BY <1>2 DEF BodyInv, curl_easy_perform
  <2>2. PICK rc, pieces, done :
          /\ reported' = [client |-> c, rc |-> rc, done |-> done, report |-> Report(c, rc, pieces)]
          /\ \/ rc = StatusOf(c) /\ pieces \in Pieces(c) /\ done = Done(c)
             \/ rc \in {0, 500}
    <3> DEFINE A(rc, pieces, done) ==
                 reported' = [client |-> c, rc |-> rc, done |-> done, report |-> Report(c, rc, pieces)]
    <3>1. \/ \E pieces \in Pieces(c) : A(StatusOf(c), pieces, Done(c))
          \/ A(0, <<>>, Done(c))
          \/ A(500, <<<<"error">>>>, FALSE) \/ A(0, <<>>, FALSE)
      BY <1>2 DEF curl_easy_perform
    <3>2. QED
      BY <3>1
  <2> HIDE DEF c
  <2>3. QED
    BY <2>1, <2>2, ReportTrue
<1>3. QED
  BY <1>1, <1>2, CallSteps

(* The thread's id is that of its task, and a generated one is on no call  *)
(* of another thread.                                                      *)
LEMMA InvCorrelated == IInv => CallsCorrelated
<1> SUFFICES ASSUME IInv, NEW t \in Thread, call[t] # NULL PROVE Correlated(t)
  BY DEF CallsCorrelated
<1> DEFINE ids == IdOf(call[t].headers)
<1>1. ids = (IF localid[t] = NULL THEN {} ELSE {localid[t]})
  BY DEF IInv, CallIds
<1>2. ASSUME NEW since \in Nat, localid[t] \in (since + 1)..uuids
      PROVE  \E id \in (since + 1)..uuids :
               ids = {id} /\ \A u \in Thread \ {t} : call[u] # NULL => id \notin IdOf(call[u].headers)
  <2>1. localid[t] \in Nat /\ localid[t] # NULL
    BY <1>2, HttpAssumptions DEF IInv, TypeInv
  <2>2. ASSUME NEW u \in Thread \ {t}, call[u] # NULL
        PROVE  localid[t] \notin IdOf(call[u].headers)
    <3>1. localid[u] # localid[t]
      BY <2>1, <2>2 DEF IInv, Distinct
    <3>2. IdOf(call[u].headers) = (IF localid[u] = NULL THEN {} ELSE {localid[u]})
      BY <2>2 DEF IInv, CallIds
    <3>3. QED
      BY <3>1, <3>2
  <2>3. ids = {localid[t]}
    BY <1>1, <2>1
  <2> HIDE DEF ids
  <2>4. QED
    BY <1>2, <2>2, <2>3
<1>3. CASE t \in Conn
  <2>1. ConnOK(t) /\ ConnId(t)
    BY <1>3, ConnThread
  <2>2. conn[t].step \in {"handler", "reply"}
    BY <2>1 DEF ConnId
  <2>3. conn[t].since \in Nat /\ conn[t].request \in ClientRequest
    BY <2>1, <2>2 DEF ConnOK
  <2>4. CASE conn[t].request.crlid # NULL
    BY <1>1, <1>3, <2>1, <2>2, <2>4 DEF ConnId, Correlated
  <2>5. CASE conn[t].request.crlid = NULL
    <3>1. localid[t] \in (conn[t].since + 1)..uuids
      BY <2>1, <2>2, <2>5 DEF ConnId
    <3>2. QED
      BY <1>2, <1>3, <2>3, <2>5, <3>1 DEF Correlated
  <2>6. QED
    BY <2>4, <2>5
<1>4. CASE t \in PoolThread /\ pool[t].job = "ae_runner"
  <2>1. PoolOK(t) /\ PoolId(t) /\ t \notin Conn
    BY <1>4, PoolThreadOf
  <2>2. localid[t] \in (pool[t].since + 1)..uuids /\ pool[t].since \in Nat
    BY <1>4, <2>1 DEF PoolOK, PoolId
  <2>3. QED
    BY <1>2, <1>4, <2>1, <2>2 DEF Correlated
<1>5. CASE t \notin Conn /\ ~(t \in PoolThread /\ pool[t].job = "ae_runner")
  <2>1. localid[t] = NULL
    <3>1. CASE t \in PoolThread
      BY <1>5, <3>1, PoolThreadOf DEF PoolId
    <3>2. CASE t = Main
      BY <3>2, MainThread
    <3>3. QED
      BY <1>5, <3>1, <3>2 DEF Thread
  <2>2. QED
    BY <1>1, <1>5, <2>1 DEF Correlated
<1>6. QED
  BY <1>3, <1>4, <1>5

----------------------------------------------------------------------------

LEMMA AlwaysIInv == HttpSpec => []IInv
<1>1. QED
  BY InitInv, NextInv, PTL DEF HttpSpec

(* The threads are used for one request or job after the other, and each   *)
(* of them is always at a known step of one: http_handler called handlers  *)
(* that were registered, and the jobs are such as the SDK adds.            *)
THEOREM ThreadsInStep == HttpSpec => []TypeInv
<1>1. IInv => TypeInv
  BY DEF IInv
<1>2. QED
  BY AlwaysIInv, <1>1, PTL

(* The correlation id (correlation.c, rest-server.c, rest.c): whatever the *)
(* number of threads and however their steps interleave, a call that is    *)
(* made for a request carries the id that came with it, one for a request  *)
(* without id or for an autoevent an id that was made for it and is on no  *)
(* call of another thread, and every other call none: no id of an earlier  *)
(* task of the thread is left.                                             *)
THEOREM CallsCarryTheirIds == HttpSpec => []CallsCorrelated
<1>1. QED
  BY AlwaysIInv, InvCorrelated, PTL

(* The calls that the SDK makes (rest.c, metadata.c, data.c, rest-logger): *)
(* each one has the id of its task and the whole body it was given, in     *)
(* whatever pieces libcurl fetches it; and its client reports a success, a *)
(* conflict, a document or that there is none only when that is so, though *)
(* the connection may break before or after the server did what it was     *)
(* asked.                                                                  *)
THEOREM CallsAreSound == HttpSpec => []CallsSound
<1>1. HttpInit => BodyInv /\ ReportInv
  BY DEF HttpInit, BodyInv, ReportInv
<1>2. HttpSpec => [](BodyInv /\ ReportInv)
  BY <1>1, AlwaysIInv, NextBody, NextReport, PTL DEF HttpSpec
<1>3. IInv /\ BodyInv /\ ReportInv => CallsSound
  BY InvCorrelated DEF BodyInv, ReportInv, CallsSound
<1>4. QED
  BY AlwaysIInv, <1>2, <1>3, PTL

----------------------------------------------------------------------------
(* Sequences, and the folds of the model                                   *)

(* A set of positions has a last one.                                      *)
LEMMA MaxOf ==
  ASSUME NEW n \in Nat, NEW s \in SUBSET (1..n), s # {}
  PROVE  Max(s) \in s /\ \A i \in s : i <= Max(s)
<1> DEFINE P(x) == x \in s /\ \A y \in s : x >= y
           T == {k \in Nat : n - k \in s}
           Less == {p \in Nat \X Nat : p[1] < p[2]}
<1>1. T # {} /\ T \subseteq Nat
  <2>1. PICK i \in s : TRUE
    OBVIOUS
  <2>2. n - i \in Nat /\ n - (n - i) = i
    BY <2>1
  <2>3. n - i \in T
    BY <2>1, <2>2
  <2>4. QED
    BY <2>3
<1>2. PICK k \in T : \A y \in T : ~(<<y, k>> \in Less)
  <2>1. IsWellFoundedOn(Less, Nat)
    BY NatLessThanWellFounded, Zenon DEF OpToRel
  <2> HIDE DEF T, Less
  <2>2. QED
    BY <1>1, <2>1, WFMin
<1>3. P(n - k)
  <2>1. k \in Nat /\ n - k \in s
    BY <1>2
  <2>2. ASSUME NEW y \in s PROVE n - k >= y
    <3>1. y \in 1..n /\ n - y \in Nat /\ n - (n - y) = y
      OBVIOUS
    <3>2. n - y \in T
      BY <3>1
    <3>3. ~(n - y < k)
      BY <1>2, <2>1, <3>1, <3>2
    <3>4. QED
      BY <2>1, <3>1, <3>3
  <2>3. QED
    BY <2>1, <2>2
<1>4. P(Max(s))
  <2>1. Max(s) = CHOOSE x : P(x)
    BY Zenon DEF Max
  <2> HIDE DEF P
  <2>2. QED
    BY <1>3, <2>1, Zenon
<1>5. QED
  BY <1>4

(* The values that FoldLeft goes through with edgex_map_addnode.           *)
LEMMA FoldOfAddNode ==
  ASSUME NEW S, NEW seq \in Seq(S), NEW base
  PROVE  \E g : /\ g[0] = base
                /\ \A i \in 1..Len(seq) : g[i] = edgex_map_addnode(g[i - 1], seq[i])
                /\ FoldLeft(edgex_map_addnode, base, seq) = g[Len(seq)]
<1> DEFINE Step(n, f) == [s \in SUBSET (1..n) |->
                            IF s = {} THEN base
                            ELSE LET x == Max(s) IN edgex_map_addnode(f[s \ {x}], seq[x])]
           T == {n \in Nat : \E f : f = Step(n, f)}
<1>1. 0 \in T
  <2> DEFINE f == [s \in SUBSET (1..0) |-> base]
  <2>1. f = Step(0, f)
    OBVIOUS
  <2> HIDE DEF f, Step
  <2>2. QED
    BY <2>1
<1>2. ASSUME NEW n \in Nat, n \in T PROVE n + 1 \in T
  <2>1. PICK f : f = Step(n, f)
    BY <1>2
  <2> DEFINE g == Step(n + 1, f)
  <2>2. ASSUME NEW s \in SUBSET (1..n) PROVE g[s] = f[s]
    <3>1. s \in SUBSET (1..(n + 1))
      OBVIOUS
    <3>2. g[s] = IF s = {} THEN base ELSE edgex_map_addnode(f[s \ {Max(s)}], seq[Max(s)])
      BY <3>1
    <3>3. Step(n, f)[s] = IF s = {} THEN base ELSE edgex_map_addnode(f[s \ {Max(s)}], seq[Max(s)])
      OBVIOUS
    <3> HIDE DEF g, Step
    <3>4. QED
      BY <2>1, <3>2, <3>3, Zenon
  <2>3. ASSUME NEW s \in SUBSET (1..(n + 1)) PROVE g[s] = Step(n + 1, g)[s]
    <3>1. CASE s = {}
      BY <3>1
    <3>2. CASE s # {}
      <4>1. s \ {Max(s)} \in SUBSET (1..n)
        <5> DEFINE x == Max(s)
        <5>1. n + 1 \in Nat
          OBVIOUS
        <5>2. x \in s /\ \A i \in s : i <= x
          BY <3>2, <5>1, MaxOf
        <5> HIDE DEF x
        <5>3. s \ {x} \in SUBSET (1..n)
          BY <5>2
        <5>4. QED
          BY <5>3 DEF x
      <4>2. g[s \ {Max(s)}] = f[s \ {Max(s)}]
        BY <2>2, <4>1
      <4>3. g[s] = edgex_map_addnode(f[s \ {Max(s)}], seq[Max(s)])
        BY <3>2
      <4>4. Step(n + 1, g)[s] = edgex_map_addnode(g[s \ {Max(s)}], seq[Max(s)])
        <5> HIDE DEF g
        <5>1. QED
          BY <3>2
      <4> HIDE DEF g, Step
      <4>5. QED
        BY <4>2, <4>3, <4>4, Zenon
    <3>3. QED
      BY <3>1, <3>2
  <2>4. g = Step(n + 1, g)
    <3>1. g = [s \in SUBSET (1..(n + 1)) |-> g[s]]
      OBVIOUS
    <3>2. Step(n + 1, g) = [s \in SUBSET (1..(n + 1)) |-> Step(n + 1, g)[s]]
      <4> HIDE DEF g
      <4>1. QED
        OBVIOUS
    <3> HIDE DEF g, Step
    <3>3. QED
      BY <2>3, <3>1, <3>2
  <2> HIDE DEF g, Step
  <2>5. QED
    BY <2>4
<1> DEFINE N == Len(seq)
           h == CHOOSE f : f = Step(N, f)
<1>3. N \in Nat /\ DOMAIN seq = 1..N
  OBVIOUS
<1>4. h = Step(N, h)
  <2> HIDE DEF N
  <2>1. N \in T
    <3> HIDE DEF T
    <3>1. QED
      BY <1>1, <1>2, <1>3, NatSetInduction
  <2> HIDE DEF Step
  <2>2. QED
    BY <2>1
<1>5. FoldLeft(edgex_map_addnode, base, seq) = h[1..N]
  <2> HIDE DEF N
  <2>1. QED
    BY <1>3 DEF FoldLeft, MapThenFoldSet
<1> HIDE DEF h
<1> DEFINE g == [i \in 0..N |-> h[1..i]]
<1>6. g[0] = base
  <2>1. {} \in SUBSET (1..N) /\ 1..0 = {}
    OBVIOUS
  <2>2. Step(N, h)[{}] = base
    BY <2>1
  <2> HIDE DEF Step
  <2>3. QED
    BY <1>3, <1>4, <2>1, <2>2
<1>7. ASSUME NEW i \in 1..N PROVE g[i] = edgex_map_addnode(g[i - 1], seq[i])
  <2>1. 1..i \in SUBSET (1..N) /\ 1..i # {} /\ i \in Nat /\ 1..i \in SUBSET (1..i)
    <3> HIDE DEF N
    <3>1. i \in Nat /\ i <= N /\ i \in 1..i
      BY <1>3
    <3>2. QED
      BY <1>3, <3>1
  <2>2. Max(1..i) = i
    <3> DEFINE s == 1..i
    <3>0. s \in SUBSET (1..i) /\ s # {} /\ i \in Nat /\ i \in s
      BY <2>1
    <3>1. Max(1..i) \in 1..i /\ i <= Max(1..i)
      <4> HIDE DEF s
      <4>1. Max(s) \in s /\ i <= Max(s)
        BY <3>0, MaxOf
      <4>2. QED
        BY <4>1 DEF s
    <3>2. QED
      BY <2>1, <3>1
  <2>3. (1..i) \ {i} = 1..(i - 1)
    BY <2>1
  <2>4. Step(N, h)[1..i] = edgex_map_addnode(h[(1..i) \ {Max(1..i)}], seq[Max(1..i)])
    BY <2>1
  <2>5. g[i] = h[1..i] /\ g[i - 1] = h[1..(i - 1)]
    BY <1>3
  <2> HIDE DEF Step, g
  <2>6. QED
    BY <1>4, <2>2, <2>3, <2>4, <2>5
<1>8. FoldLeft(edgex_map_addnode, base, seq) = g[N]
  BY <1>3, <1>5
<1> HIDE DEF g
<1>9. QED
  BY <1>6, <1>7, <1>8

(* Two sequences after each other.                                         *)
LEMMA ConcatElements ==
  ASSUME NEW S, NEW s \in Seq(S), NEW t \in Seq(S)
  PROVE  /\ s \o t \in Seq(S) /\ Len(s \o t) = Len(s) + Len(t)
         /\ \A i \in 1..Len(s) : (s \o t)[i] = s[i]
         /\ \A i \in 1..Len(t) : (s \o t)[Len(s) + i] = t[i]
         /\ ToSet(s \o t) = ToSet(s) \cup ToSet(t)
<1> DEFINE c == s \o t
<1>1. /\ c \in Seq(S) /\ Len(c) = Len(s) + Len(t)
      /\ \A i \in 1..Len(s) : c[i] = s[i]
      /\ \A i \in 1..Len(t) : c[Len(s) + i] = t[i]
  OBVIOUS
<1>2. Len(s) \in Nat /\ Len(t) \in Nat /\ DOMAIN s = 1..Len(s) /\ DOMAIN t = 1..Len(t)
      /\ DOMAIN c = 1..(Len(s) + Len(t))
  BY <1>1
<1> HIDE DEF c
<1>3. ASSUME NEW i \in DOMAIN c PROVE c[i] \in ToSet(s) \cup ToSet(t)
  <2>1. CASE i <= Len(s)
    BY <1>1, <1>2, <2>1 DEF ToSet
  <2>2. CASE i > Len(s)
    <3>1. i - Len(s) \in 1..Len(t) /\ i = Len(s) + (i - Len(s))
      BY <1>2, <2>2
    <3>2. QED
      BY <1>1, <1>2, <3>1 DEF ToSet
  <2>3. QED
    BY <1>2, <2>1, <2>2
<1>4. ASSUME NEW i \in DOMAIN s PROVE s[i] \in ToSet(c)
  BY <1>1, <1>2 DEF ToSet
<1>5. ASSUME NEW i \in DOMAIN t PROVE t[i] \in ToSet(c)
  <2>1. Len(s) + i \in DOMAIN c /\ c[Len(s) + i] = t[i]
    BY <1>1, <1>2
  <2>2. QED
    BY <2>1 DEF ToSet
<1>6. ToSet(c) = ToSet(s) \cup ToSet(t)
  BY <1>3, <1>4, <1>5, Zenon DEF ToSet
<1>7. QED
  BY <1>1, <1>6 DEF c

(* No two nodes of a sequence have the same key.                           *)
NoDup(s) == \A i, j \in DOMAIN s : s[i].key = s[j].key => i = j

LEMMA ConcatNoDup ==
  ASSUME NEW S, NEW s \in Seq(S), NEW t \in Seq(S), NoDup(s), NoDup(t),
         \A x \in ToSet(s), y \in ToSet(t) : x.key # y.key
  PROVE  NoDup(s \o t)
<1> DEFINE c == s \o t
<1>1. /\ Len(c) = Len(s) + Len(t) /\ DOMAIN c = 1..(Len(s) + Len(t))
      /\ \A i \in 1..Len(s) : c[i] = s[i]
      /\ \A i \in 1..Len(t) : c[Len(s) + i] = t[i]
  BY ConcatElements
<1>2. Len(s) \in Nat /\ Len(t) \in Nat /\ DOMAIN s = 1..Len(s) /\ DOMAIN t = 1..Len(t)
  OBVIOUS
<1> HIDE DEF c
<1>3. ASSUME NEW i \in DOMAIN c
      PROVE  \/ i \in DOMAIN s /\ c[i] = s[i]
             \/ i - Len(s) \in DOMAIN t /\ c[i] = t[i - Len(s)]
  <2>1. CASE i <= Len(s)
    BY <1>1, <1>2, <2>1
  <2>2. CASE i > Len(s)
    <3>1. i - Len(s) \in 1..Len(t) /\ i = Len(s) + (i - Len(s))
      BY <1>1, <1>2, <2>2
    <3>2. QED
      BY <1>1, <1>2, <3>1
  <2>3. QED
    BY <1>1, <1>2, <2>1, <2>2
<1>4. ASSUME NEW i \in DOMAIN c, NEW j \in DOMAIN c, c[i].key = c[j].key PROVE i = j
  <2>1. CASE i \in DOMAIN s /\ c[i] = s[i] /\ j \in DOMAIN s /\ c[j] = s[j]
    BY <1>4, <2>1 DEF NoDup
  <2>2. CASE /\ i - Len(s) \in DOMAIN t /\ c[i] = t[i - Len(s)]
             /\ j - Len(s) \in DOMAIN t /\ c[j] = t[j - Len(s)]
    <3>1. i - Len(s) = j - Len(s)
      BY <1>4, <2>2 DEF NoDup
    <3>2. QED
      BY <1>1, <1>2, <3>1
  <2>3. ASSUME NEW a \in DOMAIN s, NEW b \in DOMAIN t PROVE s[a].key # t[b].key
    BY DEF ToSet
  <2>4. QED
    BY <1>3, <1>4, <2>1, <2>2, <2>3
<1>5. QED
  BY <1>4 DEF NoDup, c

(* All sequences after each other.                                         *)
LEMMA FlattenElements ==
  ASSUME NEW S, NEW seqs \in Seq(Seq(S)),
         \A i \in DOMAIN seqs : NoDup(seqs[i]),
         \A i, j \in DOMAIN seqs : i # j => \A x \in ToSet(seqs[i]), y \in ToSet(seqs[j]) : x.key # y.key
  PROVE  /\ FlattenSeq(seqs) \in Seq(S) /\ NoDup(FlattenSeq(seqs))
         /\ ToSet(FlattenSeq(seqs)) = UNION {ToSet(seqs[i]) : i \in DOMAIN seqs}
<1> DEFINE N == Len(seqs)
           Step(n, f) == [i \in 1..n |-> IF i = 1 THEN seqs[i] ELSE f[i - 1] \o seqs[i]]
           T == {n \in Nat : \E f : f = Step(n, f)}
<1>1. N \in Nat /\ DOMAIN seqs = 1..N /\ \A i \in 1..N : seqs[i] \in Seq(S)
  OBVIOUS
<1>2. CASE N = 0
  <2>1. FlattenSeq(seqs) = seqs /\ seqs = <<>>
    BY <1>2 DEF FlattenSeq
  <2>2. QED
    BY <2>1 DEF ToSet, NoDup
<1>3. CASE N # 0
  <2>1. 0 \in T
    <3> DEFINE f == [i \in 1..0 |-> 0]
    <3>1. f = Step(0, f)
      OBVIOUS
    <3> HIDE DEF f, Step
    <3>2. QED
      BY <3>1
  <2>2. ASSUME NEW n \in Nat, n \in T PROVE n + 1 \in T
    <3>1. PICK f : f = Step(n, f)
      BY <2>2
    <3> DEFINE g == Step(n + 1, f)
    <3>2. ASSUME NEW i \in 1..n PROVE g[i] = f[i]
      <4>1. i \in 1..(n + 1)
        OBVIOUS
      <4>2. g[i] = Step(n, f)[i]
        BY <4>1
      <4> HIDE DEF g, Step
      <4>3. QED
        BY <3>1, <4>2
    <3>3. ASSUME NEW i \in 1..(n + 1) PROVE g[i] = Step(n + 1, g)[i]
      <4>1. CASE i = 1
        BY <4>1
      <4>2. CASE i # 1
        <5>1. i - 1 \in 1..n
          BY <4>2
        <5>2. g[i - 1] = f[i - 1]
          BY <3>2, <5>1
        <5>3. g[i] = f[i - 1] \o seqs[i]
          BY <4>2
        <5>4. Step(n + 1, g)[i] = g[i - 1] \o seqs[i]
          <6> HIDE DEF g
          <6>1. QED
            BY <4>2
        <5> HIDE DEF g, Step
        <5>5. QED
          BY <5>2, <5>3, <5>4
      <4>3. QED
        BY <4>1, <4>2
    <3>4. g = [i \in 1..(n + 1) |-> g[i]]
      OBVIOUS
    <3>5. Step(n + 1, g) = [i \in 1..(n + 1) |-> Step(n + 1, g)[i]]
      <4> HIDE DEF g
      <4>1. QED
        OBVIOUS
    <3>6. g = Step(n + 1, g)
      <4> HIDE DEF g, Step
      <4>1. QED
        BY <3>3, <3>4, <3>5
    <3> HIDE DEF g, Step
    <3>7. QED
      BY <3>6
  <2>3. N \in T
    <3> HIDE DEF T, N
    <3>1. QED
      BY <1>1, <2>1, <2>2, NatSetInduction
  <2> DEFINE h == CHOOSE f : f = Step(N, f)
  <2>4. h = Step(N, h)
    <3> HIDE DEF Step, N
    <3>1. QED
      BY <2>3
  <2>5. FlattenSeq(seqs) = h[N]
    BY <1>3 DEF FlattenSeq
  <2> HIDE DEF h, T
  <2> DEFINE U(n) == UNION {ToSet(seqs[i]) : i \in 1..n}
             Good(n) == h[n] \in Seq(S) /\ NoDup(h[n]) /\ ToSet(h[n]) = U(n)
             G == {n \in Nat : n + 1 <= N => Good(n + 1)}
  <2>6. 0 \in G
    <3>1. 1 \in 1..N /\ h[1] = seqs[1]
      <4>1. 1 \in 1..N
        BY <1>1, <1>3
      <4>2. Step(N, h)[1] = seqs[1]
        BY <4>1
      <4> HIDE DEF Step, N
      <4>3. QED
        BY <2>4, <4>1, <4>2
    <3>2. U(1) = ToSet(seqs[1])
      OBVIOUS
    <3> HIDE DEF U, N
    <3>3. QED
      BY <1>1, <3>1, <3>2
  <2>7. ASSUME NEW n \in Nat, n \in G PROVE n + 1 \in G
    <3>0. (n + 1) + 1 = n + 2 /\ n + 1 \in Nat
      <4> HIDE DEF U, N, G
      <4> QED
        OBVIOUS
    <3> SUFFICES ASSUME n + 2 <= N PROVE Good(n + 2)
      BY <3>0, ZenonT(30)
    <3>1. n + 1 \in 1..N /\ n + 2 \in 1..N /\ n + 2 # 1 /\ (n + 2) - 1 = n + 1
      BY <1>1
    <3>2. h[n + 2] = h[n + 1] \o seqs[n + 2]
      <4>1. Step(N, h)[n + 2] = h[n + 1] \o seqs[n + 2]
        BY <3>1
      <4> HIDE DEF Step, N
      <4>2. QED
        BY <2>4, <4>1
    <3>3. h[n + 1] \in Seq(S) /\ NoDup(h[n + 1]) /\ ToSet(h[n + 1]) = U(n + 1)
      BY <2>7, <3>1
    <3>4. U(n + 2) = U(n + 1) \cup ToSet(seqs[n + 2])
      <4>1. 1..(n + 2) = 1..(n + 1) \cup {n + 2}
        OBVIOUS
      <4>2. QED
        BY <4>1
    <3>5. \A x \in U(n + 1), y \in ToSet(seqs[n + 2]) : x.key # y.key
      <4>1. ASSUME NEW i \in 1..(n + 1), NEW x \in ToSet(seqs[i]), NEW y \in ToSet(seqs[n + 2])
            PROVE  x.key # y.key
        <5>1. i \in 1..N /\ i # n + 2
          BY <3>1
        <5> HIDE DEF N
        <5>2. QED
          BY <1>1, <3>1, <5>1
      <4>2. QED
        BY <4>1
    <3> HIDE DEF U, N, G
    <3>6. seqs[n + 2] \in Seq(S) /\ NoDup(seqs[n + 2])
      BY <1>1, <3>1
    <3>7. h[n + 2] \in Seq(S) /\ ToSet(h[n + 2]) = U(n + 2)
      <4> DEFINE a == h[n + 1]
                 b == seqs[n + 2]
      <4>1. a \in Seq(S) /\ b \in Seq(S)
        BY <3>3, <3>6
      <4> HIDE DEF a, b
      <4>2. a \o b \in Seq(S) /\ ToSet(a \o b) = ToSet(a) \cup ToSet(b)
        BY <4>1, ConcatElements
      <4>3. QED
        BY <3>2, <3>3, <3>4, <4>2 DEF a, b
    <3>8. NoDup(h[n + 2])
      BY <3>2, <3>3, <3>5, <3>6, ConcatNoDup
    <3>9. QED
      BY <3>7, <3>8
  <2>8. N - 1 \in G
    <3>1. N - 1 \in Nat
      BY <1>1, <1>3
    <3> HIDE DEF G, N
    <3>2. QED
      BY <2>6, <2>7, <3>1, NatSetInduction
  <2>9. Good(N)
    <3>1. N - 1 + 1 = N /\ N - 1 + 1 <= N
      BY <1>1
    <3> HIDE DEF N, U
    <3>2. QED
      BY <2>8, <3>1
  <2> HIDE DEF N
  <2>10. QED
    BY <1>1, <2>5, <2>9
<1>4. QED
  BY <1>2, <1>3

----------------------------------------------------------------------------
(* The buckets                                                             *)

Node == [key : Key, value : Value]

NodesOf(mm) == UNION {ToSet(mm.buckets[b]) : b \in 0 .. mm.nbuckets - 1}

(* Every node is in the bucket of its key, and no bucket has two nodes     *)
(* with one key.                                                           *)
BucketFits(mm, b) ==
  /\ mm.buckets[b] \in Seq(Node) /\ NoDup(mm.buckets[b])
  /\ \A x \in ToSet(mm.buckets[b]) : edgex_map_bucketidx(mm.nbuckets, x.key) = b

Fits(mm) ==
  /\ DOMAIN mm = {"nbuckets", "nnodes", "buckets"} /\ mm = [f \in DOMAIN mm |-> mm[f]]
  /\ mm.nbuckets \in Nat /\ mm.nnodes \in Int
  /\ DOMAIN mm.buckets = 0 .. mm.nbuckets - 1 /\ mm.buckets = [b \in DOMAIN mm.buckets |-> mm.buckets[b]]
  /\ \A b \in 0 .. mm.nbuckets - 1 : BucketFits(mm, b)

LEMMA BucketOf ==
  ASSUME NEW n \in Nat, n # 0, NEW key \in Key
  PROVE  edgex_map_bucketidx(n, key) \in 0 .. n - 1
<1>1. Hash[key] \in Nat
  BY HashAssumption
<1>2. Hash[key] % n \in 0 .. n - 1
  BY <1>1
<1>3. QED
  BY <1>2 DEF edgex_map_bucketidx

(* A key has one node at most.                                             *)
LEMMA KeysUnique ==
  ASSUME NEW mm, Fits(mm), NEW x \in NodesOf(mm), NEW y \in NodesOf(mm), x.key = y.key
  PROVE  x = y
<1>1. PICK b \in 0 .. mm.nbuckets - 1 : x \in ToSet(mm.buckets[b])
  BY DEF NodesOf
<1>2. PICK c \in 0 .. mm.nbuckets - 1 : y \in ToSet(mm.buckets[c])
  BY DEF NodesOf
<1>3. b = c
  BY <1>1, <1>2 DEF Fits, BucketFits
<1>4. PICK i \in DOMAIN mm.buckets[b] : x = mm.buckets[b][i]
  BY <1>1 DEF ToSet
<1>5. PICK j \in DOMAIN mm.buckets[b] : y = mm.buckets[b][j]
  BY <1>2, <1>3 DEF ToSet
<1>6. i = j
  BY <1>4, <1>5 DEF Fits, BucketFits, NoDup
<1>7. QED
  BY <1>4, <1>5, <1>6

LEMMA NodesFit ==
  ASSUME NEW mm, Fits(mm), NEW x \in NodesOf(mm)
  PROVE  /\ x \in Node /\ mm.nbuckets # 0
         /\ x \in ToSet(mm.buckets[edgex_map_bucketidx(mm.nbuckets, x.key)])
<1>1. PICK b \in 0 .. mm.nbuckets - 1 : x \in ToSet(mm.buckets[b])
  BY DEF NodesOf
<1>2. BucketFits(mm, b) /\ mm.nbuckets \in Nat
  BY DEF Fits
<1>3. x \in Node
  BY <1>1, <1>2 DEF BucketFits, ToSet
<1>4. QED
  BY <1>1, <1>2, <1>3 DEF BucketFits

(* What edgex_map_getref finds.                                            *)
LEMMA GetRef ==
  ASSUME NEW mm, Fits(mm), NEW key \in Key
  PROVE  \/ /\ edgex_map_getref(mm, key) = 0
            /\ \A x \in NodesOf(mm) : x.key # key
         \/ /\ edgex_map_getref(mm, key) \in DOMAIN Bucket(mm, key)
            /\ Bucket(mm, key)[edgex_map_getref(mm, key)].key = key
            /\ Bucket(mm, key)[edgex_map_getref(mm, key)] \in NodesOf(mm)
            /\ mm.nbuckets # 0 /\ edgex_map_getref(mm, key) # 0
<1>1. CASE mm.nbuckets = 0
  <2>1. 0 .. mm.nbuckets - 1 = {}
    BY <1>1
  <2>2. NodesOf(mm) = {}
    BY <2>1, Zenon DEF NodesOf
  <2>3. QED
    BY <1>1, <2>2 DEF edgex_map_getref
<1>2. CASE mm.nbuckets # 0
  <2> DEFINE idx == edgex_map_bucketidx(mm.nbuckets, key)
             bucket == mm.buckets[idx]
             at == CHOOSE i \in DOMAIN bucket : bucket[i].key = key
  <2>1. idx \in 0 .. mm.nbuckets - 1
    BY <1>2, BucketOf DEF Fits
  <2>2. bucket \in Seq(Node) /\ \A x \in ToSet(bucket) : x \in NodesOf(mm)
    BY <2>1 DEF Fits, BucketFits, NodesOf
  <2>3. CASE \E i \in DOMAIN bucket : bucket[i].key = key
    <3>1. at \in DOMAIN bucket /\ bucket[at].key = key
      BY <2>3
    <3>2. at # 0
      <4>1. DOMAIN bucket = 1 .. Len(bucket) /\ Len(bucket) \in Nat
        BY <2>2
      <4> HIDE DEF at, bucket
      <4>2. QED
        BY <3>1, <4>1
    <3>3. bucket[at] \in NodesOf(mm)
      BY <2>2, <3>1 DEF ToSet
    <3>4. edgex_map_getref(mm, key) = at /\ Bucket(mm, key) = bucket
      BY <1>2, <2>3 DEF edgex_map_getref, Bucket
    <3> HIDE DEF at, bucket
    <3>5. QED
      BY <1>2, <3>1, <3>2, <3>3, <3>4
  <2>4. CASE ~ \E i \in DOMAIN bucket : bucket[i].key = key
    <3>1. edgex_map_getref(mm, key) = 0
      BY <1>2, <2>4 DEF edgex_map_getref
    <3>2. ASSUME NEW x \in NodesOf(mm), x.key = key PROVE FALSE
      <4>1. x \in ToSet(bucket)
        BY <3>2, NodesFit
      <4>2. QED
        BY <2>4, <3>2, <4>1 DEF ToSet
    <3>3. QED
      BY <3>1, <3>2
  <2>5. QED
    BY <2>3, <2>4
<1>3. QED
  BY <1>1, <1>2

(* A bucket is given other nodes.                                          *)
LEMMA BucketSet ==
  ASSUME NEW mm, Fits(mm), NEW b \in 0 .. mm.nbuckets - 1, NEW s \in Seq(Node), NoDup(s),
         \A x \in ToSet(s) : edgex_map_bucketidx(mm.nbuckets, x.key) = b
  PROVE  LET new == [mm EXCEPT !.buckets[b] = s] IN
         /\ Fits(new) /\ new.nbuckets = mm.nbuckets /\ new.nnodes = mm.nnodes
         /\ NodesOf(new) = (NodesOf(mm) \ ToSet(mm.buckets[b])) \cup ToSet(s)
<1> DEFINE new == [mm EXCEPT !.buckets[b] = s]
<1>1. /\ DOMAIN new = DOMAIN mm /\ new = [f \in DOMAIN new |-> new[f]]
      /\ new.nbuckets = mm.nbuckets /\ new.nnodes = mm.nnodes
      /\ new.buckets = [mm.buckets EXCEPT ![b] = s]
  BY DEF Fits
<1>2. /\ DOMAIN new.buckets = DOMAIN mm.buckets
      /\ new.buckets = [c \in DOMAIN new.buckets |-> new.buckets[c]]
      /\ new.buckets[b] = s /\ \A c \in 0 .. mm.nbuckets - 1 : c # b => new.buckets[c] = mm.buckets[c]
  BY <1>1 DEF Fits
<1> HIDE DEF new
<1>3. Fits(new)
  BY <1>1, <1>2 DEF Fits, BucketFits
<1>4. ASSUME NEW x \in NodesOf(new) PROVE x \in (NodesOf(mm) \ ToSet(mm.buckets[b])) \cup ToSet(s)
  <2>1. PICK c \in 0 .. mm.nbuckets - 1 : x \in ToSet(new.buckets[c])
    BY <1>1 DEF NodesOf
  <2>2. CASE c = b
    BY <1>2, <2>1, <2>2
  <2>3. CASE c # b
    <3>1. x \in ToSet(mm.buckets[c])
      BY <1>2, <2>1, <2>3
    <3>2. x \notin ToSet(mm.buckets[b])
      BY <2>3, <3>1, ZenonT(40) DEF Fits, BucketFits
    <3>3. QED
      BY <3>1, <3>2 DEF NodesOf
  <2>4. QED
    BY <2>2, <2>3
<1>5. ASSUME NEW x \in NodesOf(mm), x \notin ToSet(mm.buckets[b]) PROVE x \in NodesOf(new)
  <2>1. PICK c \in 0 .. mm.nbuckets - 1 : x \in ToSet(mm.buckets[c])
    BY DEF NodesOf
  <2>2. x \in ToSet(new.buckets[c])
    BY <1>2, <1>5, <2>1
  <2>3. QED
    BY <1>1, <2>2 DEF NodesOf
<1>6. ASSUME NEW x \in ToSet(s) PROVE x \in NodesOf(new)
  BY <1>1, <1>2 DEF NodesOf
<1>7. NodesOf(new) = (NodesOf(mm) \ ToSet(mm.buckets[b])) \cup ToSet(s)
  BY <1>4, <1>5, <1>6, Zenon
<1>8. QED
  BY <1>1, <1>3, <1>7 DEF new

LEMMA AddNode ==
  ASSUME NEW mm, Fits(mm), mm.nbuckets # 0, NEW node \in Node,
         \A x \in NodesOf(mm) : x.key # node.key
  PROVE  LET new == edgex_map_addnode(mm, node) IN
         /\ Fits(new) /\ new.nbuckets = mm.nbuckets /\ new.nnodes = mm.nnodes
         /\ NodesOf(new) = NodesOf(mm) \cup {node}
<1> DEFINE new == edgex_map_addnode(mm, node)
           b == edgex_map_bucketidx(mm.nbuckets, node.key)
           old == mm.buckets[b]
           one == <<node>>
           s == one \o old
<1>1. b \in 0 .. mm.nbuckets - 1
  BY BucketOf DEF Fits, Node
<1>2. old \in Seq(Node) /\ NoDup(old) /\ \A x \in ToSet(old) : edgex_map_bucketidx(mm.nbuckets, x.key) = b
      /\ \A y \in ToSet(old) : y \in NodesOf(mm)
  BY <1>1 DEF Fits, BucketFits, NodesOf
<1>3. one \in Seq(Node) /\ NoDup(one) /\ ToSet(one) = {node}
  BY DEF NoDup, ToSet
<1>4. new = [mm EXCEPT !.buckets[b] = s]
  BY DEF edgex_map_addnode
<1>5. ToSet(mm.buckets[b]) = ToSet(old)
  OBVIOUS
<1>6. edgex_map_bucketidx(mm.nbuckets, node.key) = b
  OBVIOUS
<1> HIDE DEF new, b, old, one
<1>7. s \in Seq(Node) /\ ToSet(s) = {node} \cup ToSet(old)
  BY <1>2, <1>3, ConcatElements
<1>8. NoDup(s)
  BY <1>2, <1>3, ConcatNoDup
<1> HIDE DEF s
<1>9. /\ Fits(new) /\ new.nbuckets = mm.nbuckets /\ new.nnodes = mm.nnodes
      /\ NodesOf(new) = (NodesOf(mm) \ ToSet(mm.buckets[b])) \cup ToSet(s)
  <2>1. \A x \in ToSet(s) : edgex_map_bucketidx(mm.nbuckets, x.key) = b
    BY <1>2, <1>6, <1>7
  <2>2. QED
    BY <1>1, <1>4, <1>7, <1>8, <2>1, BucketSet, ZenonT(60)
<1>10. NodesOf(new) = NodesOf(mm) \cup {node}
  BY <1>2, <1>5, <1>7, <1>9
<1>11. QED
  BY <1>9, <1>10 DEF new

(* All nodes of a map, each once.                                          *)
LEMMA ChainedNodes ==
  ASSUME NEW mm, Fits(mm)
  PROVE  Chained(mm) \in Seq(Node) /\ NoDup(Chained(mm)) /\ ToSet(Chained(mm)) = NodesOf(mm)
<1> DEFINE seqs == [i \in 1 .. mm.nbuckets |-> Reverse(mm.buckets[i - 1])]
<1>1. mm.nbuckets \in Nat /\ DOMAIN seqs = 1 .. mm.nbuckets
  BY DEF Fits
<1>2. ASSUME NEW s \in Seq(Node), NoDup(s)
      PROVE  Reverse(s) \in Seq(Node) /\ NoDup(Reverse(s)) /\ ToSet(Reverse(s)) = ToSet(s)
  <2> DEFINE r == Reverse(s)
             n == Len(s)
  <2>1. n \in Nat /\ DOMAIN s = 1 .. n /\ DOMAIN r = 1 .. n
        /\ \A i \in 1 .. n : (n - i) + 1 \in 1 .. n /\ r[i] = s[(n - i) + 1] /\ s[i] = r[(n - i) + 1]
    <3>1. n \in Nat /\ DOMAIN s = 1 .. n
      OBVIOUS
    <3>2. r = [i \in 1 .. n |-> s[(n - i) + 1]]
      BY DEF Reverse
    <3> HIDE DEF n, r
    <3>3. ASSUME NEW i \in 1 .. n
          PROVE  (n - i) + 1 \in 1 .. n /\ r[i] = s[(n - i) + 1] /\ s[i] = r[(n - i) + 1]
      <4>1. (n - i) + 1 \in 1 .. n /\ (n - ((n - i) + 1)) + 1 = i
        BY <3>1
      <4>2. QED
        BY <3>2, <4>1
    <3>4. QED
      BY <3>1, <3>2, <3>3
  <2>2. r \in Seq(Node)
    <3>1. r = [i \in 1 .. n |-> s[(n - i) + 1]]
      BY DEF Reverse
    <3>2. \A i \in 1 .. n : s[(n - i) + 1] \in Node
      <4>1. \A i \in 1 .. n : s[i] \in Node
        OBVIOUS
      <4> HIDE DEF n, r
      <4>2. QED
        BY <2>1, <4>1
    <3> HIDE DEF n, r
    <3>3. QED
      BY <2>1, <3>1, <3>2
  <2> HIDE DEF n, r
  <2>3. NoDup(r)
    <3> SUFFICES ASSUME NEW i \in DOMAIN r, NEW j \in DOMAIN r, r[i].key = r[j].key PROVE i = j
      BY DEF NoDup
    <3>1. (n - i) + 1 = (n - j) + 1
      BY <1>2, <2>1 DEF NoDup
    <3>2. QED
      BY <2>1, <3>1
  <2>4. ToSet(r) = ToSet(s)
    <3>1. \A i \in DOMAIN r : r[i] \in ToSet(s)
      BY <2>1 DEF ToSet
    <3>2. \A i \in DOMAIN s : s[i] \in ToSet(r)
      BY <2>1 DEF ToSet
    <3>3. QED
      BY <3>1, <3>2, Zenon DEF ToSet
  <2>5. QED
    BY <2>2, <2>3, <2>4 DEF r
<1>3. ASSUME NEW i \in 1 .. mm.nbuckets
      PROVE  /\ i - 1 \in 0 .. mm.nbuckets - 1 /\ BucketFits(mm, i - 1)
             /\ seqs[i] \in Seq(Node) /\ NoDup(seqs[i]) /\ ToSet(seqs[i]) = ToSet(mm.buckets[i - 1])
  <2>1. i - 1 \in 0 .. mm.nbuckets - 1
    BY <1>1
  <2>2. BucketFits(mm, i - 1)
    BY <2>1 DEF Fits
  <2>3. QED
    BY <1>2, <2>1, <2>2 DEF BucketFits
<1>4. seqs \in Seq(Seq(Node))
  <2>1. \A i \in 1 .. mm.nbuckets : seqs[i] \in Seq(Node)
    BY <1>3, Zenon
  <2>2. seqs = [i \in 1 .. mm.nbuckets |-> seqs[i]]
    BY <1>1, Zenon
  <2> HIDE DEF seqs
  <2>3. seqs \in [1 .. mm.nbuckets -> Seq(Node)]
    BY <2>1, <2>2, Zenon
  <2>4. QED
    BY <1>1, <2>3
<1> HIDE DEF seqs
<1>5. \A i, j \in DOMAIN seqs : i # j => \A x \in ToSet(seqs[i]), y \in ToSet(seqs[j]) : x.key # y.key
  <2> SUFFICES ASSUME NEW i \in DOMAIN seqs, NEW j \in DOMAIN seqs, i # j,
                      NEW x \in ToSet(seqs[i]), NEW y \in ToSet(seqs[j])
               PROVE  x.key # y.key
    OBVIOUS
  <2>1. edgex_map_bucketidx(mm.nbuckets, x.key) = i - 1 /\ edgex_map_bucketidx(mm.nbuckets, y.key) = j - 1
    BY <1>1, <1>3 DEF BucketFits
  <2>2. i - 1 # j - 1
    BY <1>1
  <2>3. QED
    BY <2>1, <2>2
<1>6. /\ FlattenSeq(seqs) \in Seq(Node) /\ NoDup(FlattenSeq(seqs))
      /\ ToSet(FlattenSeq(seqs)) = UNION {ToSet(seqs[i]) : i \in DOMAIN seqs}
  <2>1. \A i \in DOMAIN seqs : NoDup(seqs[i])
    BY <1>1, <1>3
  <2>2. QED
    BY <1>4, <1>5, <2>1, FlattenElements
<1>7. UNION {ToSet(seqs[i]) : i \in DOMAIN seqs} = NodesOf(mm)
  <2>1. ASSUME NEW i \in DOMAIN seqs, NEW x \in ToSet(seqs[i]) PROVE x \in NodesOf(mm)
    BY <1>1, <1>3 DEF NodesOf
  <2>2. ASSUME NEW x \in NodesOf(mm) PROVE \E i \in DOMAIN seqs : x \in ToSet(seqs[i])
    <3>1. PICK b \in 0 .. mm.nbuckets - 1 : x \in ToSet(mm.buckets[b])
      BY DEF NodesOf
    <3>2. b + 1 \in 1 .. mm.nbuckets /\ (b + 1) - 1 = b
      BY <1>1
    <3>3. ToSet(seqs[b + 1]) = ToSet(mm.buckets[(b + 1) - 1])
      BY <1>3, <3>2
    <3>4. QED
      BY <1>1, <3>1, <3>2, <3>3
  <2>3. QED
    BY <2>1, <2>2, Zenon
<1>8. Chained(mm) = FlattenSeq(seqs)
  BY DEF Chained, seqs
<1>9. QED
  BY <1>6, <1>7, <1>8

(* The nodes are spread over other buckets, and are the same.              *)
LEMMA Resize ==
  ASSUME NEW mm, Fits(mm), NEW n \in Nat, n # 0 \/ n = mm.nbuckets
  PROVE  LET new == edgex_map_resize(mm, n) IN
         /\ Fits(new) /\ new.nbuckets = n /\ new.nnodes = mm.nnodes /\ NodesOf(new) = NodesOf(mm)
<1> DEFINE new == edgex_map_resize(mm, n)
           base == [mm EXCEPT !.nbuckets = n, !.buckets = Emptied(n)]
           chain == Chained(mm)
           L == Len(chain)
<1>1. chain \in Seq(Node) /\ NoDup(chain) /\ ToSet(chain) = NodesOf(mm)
  BY ChainedNodes
<1>2. L \in Nat /\ DOMAIN chain = 1 .. L /\ \A i \in 1 .. L : chain[i] \in Node
  BY <1>1
<1>3. /\ base.nbuckets = n /\ base.nnodes = mm.nnodes /\ base.buckets = [i \in 0 .. n - 1 |-> <<>>]
      /\ DOMAIN base = DOMAIN mm /\ base = [f \in DOMAIN base |-> base[f]]
  BY DEF Fits, Emptied
<1>4. Fits(base) /\ NodesOf(base) = {}
  <2> DEFINE none == <<>>
  <2>1. none \in Seq(Node) /\ NoDup(none) /\ ToSet(none) = {}
    BY DEF NoDup, ToSet
  <2>2. \A b \in 0 .. n - 1 : base.buckets[b] = none
    BY <1>3
  <2>3. DOMAIN base.buckets = 0 .. n - 1 /\ base.buckets = [b \in DOMAIN base.buckets |-> base.buckets[b]]
    BY <1>3
  <2> HIDE DEF none, base
  <2>4. QED
    BY <1>3, <2>1, <2>2, <2>3 DEF Fits, BucketFits, NodesOf
<1>5. \E g : /\ g[0] = base
             /\ \A i \in 1 .. Len(chain) : g[i] = edgex_map_addnode(g[i - 1], chain[i])
             /\ FoldLeft(edgex_map_addnode, base, chain) = g[Len(chain)]
  <2> HIDE DEF base, chain
  <2>1. QED
    BY <1>1, FoldOfAddNode
<1>6. PICK g : /\ g[0] = base
               /\ \A i \in 1 .. L : g[i] = edgex_map_addnode(g[i - 1], chain[i])
               /\ new = g[L]
  BY <1>5, Zenon DEF edgex_map_resize
<1> HIDE DEF new, base, chain, L
<1>7. n # 0 \/ L = 0
  <2>1. CASE n = mm.nbuckets /\ n = 0
    <3>1. 0 .. mm.nbuckets - 1 = {}
      BY <2>1
    <3>2. NodesOf(mm) = {}
      BY <3>1, Zenon DEF NodesOf
    <3>3. L # 0 => 1 \in DOMAIN chain
      BY <1>2
    <3>4. QED
      BY <1>1, <3>2, <3>3 DEF ToSet
  <2>2. QED
    BY <2>1
<1> DEFINE Good(i) == /\ Fits(g[i]) /\ g[i].nbuckets = n /\ g[i].nnodes = mm.nnodes
                      /\ NodesOf(g[i]) = {chain[j] : j \in 1 .. i}
           G == {i \in Nat : i <= L => Good(i)}
<1>8. 0 \in G
  <2>1. {chain[j] : j \in 1 .. 0} = {}
    OBVIOUS
  <2>2. QED
    BY <1>3, <1>4, <1>6, <2>1
<1>9. ASSUME NEW i \in Nat, i \in G PROVE i + 1 \in G
  <2> SUFFICES ASSUME i + 1 <= L PROVE Good(i + 1)
    OBVIOUS
  <2>1. i + 1 \in 1 .. L /\ (i + 1) - 1 = i /\ i <= L /\ n # 0
    BY <1>2, <1>7
  <2>2. Good(i)
    BY <1>9, <2>1
  <2>3. g[i + 1] = edgex_map_addnode(g[i], chain[i + 1]) /\ chain[i + 1] \in Node
    BY <1>2, <1>6, <2>1
  <2>4. \A x \in NodesOf(g[i]) : x.key # chain[i + 1].key
    <3> SUFFICES ASSUME NEW j \in 1 .. i PROVE chain[j].key # chain[i + 1].key
      BY <2>2
    <3>1. j \in 1 .. L /\ j # i + 1
      BY <1>2, <2>1
    <3>2. QED
      BY <1>1, <1>2, <2>1, <3>1 DEF NoDup
  <2>5. /\ Fits(g[i + 1]) /\ g[i + 1].nbuckets = n /\ g[i + 1].nnodes = mm.nnodes
        /\ NodesOf(g[i + 1]) = NodesOf(g[i]) \cup {chain[i + 1]}
    <3> DEFINE old == g[i]
               node == chain[i + 1]
    <3>1. Fits(old) /\ old.nbuckets # 0 /\ node \in Node /\ \A x \in NodesOf(old) : x.key # node.key
      BY <2>1, <2>2, <2>3, <2>4
    <3> HIDE DEF old, node
    <3>2. /\ Fits(edgex_map_addnode(old, node)) /\ edgex_map_addnode(old, node).nbuckets = old.nbuckets
          /\ edgex_map_addnode(old, node).nnodes = old.nnodes
          /\ NodesOf(edgex_map_addnode(old, node)) = NodesOf(old) \cup {node}
      BY <3>1, AddNode
    <3>3. QED
      BY <2>2, <2>3, <3>2 DEF old, node
  <2>6. {chain[j] : j \in 1 .. (i + 1)} = {chain[j] : j \in 1 .. i} \cup {chain[i + 1]}
    <3>1. 1 .. (i + 1) = 1 .. i \cup {i + 1}
      OBVIOUS
    <3>2. QED
      BY <3>1
  <2>7. QED
    BY <2>2, <2>5, <2>6
<1>10. Good(L)
  <2>1. L \in G
    <3> HIDE DEF G
    <3>1. QED
      BY <1>2, <1>8, <1>9, NatSetInduction
  <2>2. QED
    BY <1>2, <2>1
<1>11. {chain[j] : j \in 1 .. L} = NodesOf(mm)
  BY <1>1, <1>2 DEF ToSet
<1>12. QED
  BY <1>6, <1>10, <1>11 DEF new

----------------------------------------------------------------------------
(* What the map holds                                                      *)

ContentsOf(nodes) ==
  [key \in {n.key : n \in nodes} |-> (CHOOSE n \in nodes : n.key = key).value]

LEMMA ContentsAt ==
  ASSUME NEW mm, Fits(mm), NEW x \in NodesOf(mm)
  PROVE  x.key \in DOMAIN ContentsOf(NodesOf(mm)) /\ ContentsOf(NodesOf(mm))[x.key] = x.value
<1> DEFINE y == CHOOSE n \in NodesOf(mm) : n.key = x.key
<1>1. y \in NodesOf(mm) /\ y.key = x.key
  OBVIOUS
<1>2. y = x
  <2> HIDE DEF y
  <2>1. QED
    BY <1>1, KeysUnique
<1>3. x.key \in {n.key : n \in NodesOf(mm)}
  OBVIOUS
<1>4. ContentsOf(NodesOf(mm))[x.key] = y.value
  BY <1>3 DEF ContentsOf
<1>5. QED
  BY <1>2, <1>3, <1>4 DEF ContentsOf

(* A key that has been given a value.                                      *)
Gives(mm, new, key, value) ==
  /\ Fits(mm) /\ Fits(new)
  /\ NodesOf(new) = {x \in NodesOf(mm) : x.key # key} \cup {[key |-> key, value |-> value]}

LEMMA GivenKeys ==
  ASSUME NEW mm, NEW new, NEW key, NEW value, Gives(mm, new, key, value)
  PROVE  /\ DOMAIN ContentsOf(NodesOf(new)) = DOMAIN ContentsOf(NodesOf(mm)) \cup {key}
         /\ ContentsOf(NodesOf(new))[key] = value
<1> DEFINE old == ContentsOf(NodesOf(mm))
           now == ContentsOf(NodesOf(new))
           node == [key |-> key, value |-> value]
<1>1. Fits(mm) /\ Fits(new) /\ NodesOf(new) = {x \in NodesOf(mm) : x.key # key} \cup {node}
  BY DEF Gives
<1>2. DOMAIN old = {x.key : x \in NodesOf(mm)} /\ DOMAIN now = {x.key : x \in NodesOf(new)}
  BY DEF ContentsOf
<1>3. node.key = key /\ node.value = value /\ node \in NodesOf(new)
  BY <1>1
<1>4. ASSUME NEW k \in {key} \cup DOMAIN old PROVE k \in DOMAIN now
  <2>1. CASE k = key
    BY <1>2, <1>3, <2>1
  <2>2. CASE k # key
    <3>1. PICK x \in NodesOf(mm) : x.key = k
      BY <1>2, <1>4, <2>2
    <3>2. x \in NodesOf(new)
      BY <1>1, <2>2, <3>1
    <3>3. QED
      BY <1>2, <3>1, <3>2
  <2>3. QED
    BY <2>1, <2>2
<1>5. \A k \in DOMAIN now : k \in {key} \cup DOMAIN old
  BY <1>1, <1>2
<1>6. now[key] = value
  BY <1>1, <1>3, ContentsAt
<1>7. QED
  BY <1>4, <1>5, <1>6

LEMMA OtherKeys ==
  ASSUME NEW mm, NEW new, NEW key, NEW value, Gives(mm, new, key, value),
         NEW k \in DOMAIN ContentsOf(NodesOf(mm)), k # key
  PROVE  ContentsOf(NodesOf(new))[k] = ContentsOf(NodesOf(mm))[k]
<1> DEFINE node == [key |-> key, value |-> value]
<1>1. Fits(mm) /\ Fits(new) /\ NodesOf(new) = {x \in NodesOf(mm) : x.key # key} \cup {node}
  BY DEF Gives
<1>2. PICK x \in NodesOf(mm) : x.key = k
  BY DEF ContentsOf
<1>3. x \in NodesOf(new)
  BY <1>1, <1>2
<1>4. QED
  BY <1>1, <1>2, <1>3, ContentsAt

(* A key that has been removed.                                            *)
Loses(mm, new, key) ==
  Fits(mm) /\ Fits(new) /\ NodesOf(new) = {x \in NodesOf(mm) : x.key # key}

LEMMA KeysLeft ==
  ASSUME NEW mm, NEW new, NEW key, Loses(mm, new, key)
  PROVE  DOMAIN ContentsOf(NodesOf(new)) = DOMAIN ContentsOf(NodesOf(mm)) \ {key}
<1> DEFINE old == ContentsOf(NodesOf(mm))
           now == ContentsOf(NodesOf(new))
<1>1. Fits(mm) /\ Fits(new) /\ NodesOf(new) = {x \in NodesOf(mm) : x.key # key}
  BY DEF Loses
<1>2. DOMAIN old = {x.key : x \in NodesOf(mm)} /\ DOMAIN now = {x.key : x \in NodesOf(new)}
  BY DEF ContentsOf
<1>3. \A k \in DOMAIN now : k \in DOMAIN old \ {key}
  BY <1>1, <1>2
<1>4. ASSUME NEW k \in DOMAIN old \ {key} PROVE k \in DOMAIN now
  <2>1. PICK x \in NodesOf(mm) : x.key = k
    BY <1>2
  <2>2. x \in NodesOf(new)
    BY <1>1, <1>4, <2>1
  <2>3. QED
    BY <1>2, <2>1, <2>2
<1>5. QED
  BY <1>3, <1>4

LEMMA ValuesLeft ==
  ASSUME NEW mm, NEW new, NEW key, Loses(mm, new, key), NEW k \in DOMAIN ContentsOf(NodesOf(new))
  PROVE  ContentsOf(NodesOf(new))[k] = ContentsOf(NodesOf(mm))[k]
<1>1. Fits(mm) /\ Fits(new) /\ NodesOf(new) = {x \in NodesOf(mm) : x.key # key}
  BY DEF Loses
<1>2. PICK x \in NodesOf(new) : x.key = k
  BY DEF ContentsOf
<1>3. x \in NodesOf(mm)
  BY <1>1, <1>2
<1>4. QED
  BY <1>1, <1>2, <1>3, ContentsAt

----------------------------------------------------------------------------
(* How far an iteration is                                                 *)

RemainingIn(mm, it) ==
  IF it.node = NULL THEN <<>>
  ELSE LET bucket == mm.buckets[it.bucketidx]
       IN  SubSeq(bucket, 1 + (CHOOSE i \in DOMAIN bucket : bucket[i].key = it.node), Len(bucket))

LaterIn(mm, it) == {i \in it.bucketidx + 1 .. mm.nbuckets - 1 : mm.buckets[i] # <<>>}

LaterKeys(mm, b) ==
  UNION {{mm.buckets[i][j].key : j \in DOMAIN mm.buckets[i]} : i \in {i \in b + 1 .. mm.nbuckets - 1 : mm.buckets[i] # <<>>}}

UnvisitedIn(mm, it) ==
  {RemainingIn(mm, it)[i].key : i \in DOMAIN RemainingIn(mm, it)}
    \cup UNION {{mm.buckets[i][j].key : j \in DOMAIN mm.buckets[i]} : i \in LaterIn(mm, it)}

(* The iteration it is at place p of its bucket; at place 0 it has not     *)
(* begun.                                                                  *)
Place(mm, it, p) ==
  /\ DOMAIN it = {"bucketidx", "node"} /\ it = [f \in DOMAIN it |-> it[f]]
  /\ it \in [bucketidx : Int, node : Key \cup {NULL}]
  /\ IF p = 0 THEN it.node = NULL /\ it.bucketidx = -1
     ELSE /\ it.node \in Key /\ it.bucketidx \in 0 .. mm.nbuckets - 1
          /\ p \in DOMAIN mm.buckets[it.bucketidx] /\ mm.buckets[it.bucketidx][p].key = it.node

KeysAfter(s, p) == {s[i].key : i \in p + 1 .. Len(s)}

(* The nodes of a bucket after the one at p.                               *)
LEMMA AfterPlace ==
  ASSUME NEW s \in Seq(Node), NoDup(s), NEW p \in DOMAIN s
  PROVE  LET rest == SubSeq(s, 1 + (CHOOSE i \in DOMAIN s : s[i].key = s[p].key), Len(s)) IN
         /\ {rest[i].key : i \in DOMAIN rest} = KeysAfter(s, p)
         /\ rest = <<>> <=> p = Len(s)
         /\ p < Len(s) => Head(rest) = s[p + 1]
<1> DEFINE at == CHOOSE i \in DOMAIN s : s[i].key = s[p].key
           rest == SubSeq(s, 1 + p, Len(s))
           L == Len(s)
<1>1. at = p
  <2>1. at \in DOMAIN s /\ s[at].key = s[p].key
    OBVIOUS
  <2> HIDE DEF at
  <2>2. QED
    BY <2>1 DEF NoDup
<1>2. L \in Nat /\ DOMAIN s = 1 .. L /\ p \in 1 .. L
  OBVIOUS
<1>3. rest \in Seq(Node) /\ Len(rest) = L - p /\ DOMAIN rest = 1 .. (L - p)
      /\ \A i \in 1 .. (L - p) : rest[i] = s[p + i]
  BY <1>2
<1>4. rest = <<>> <=> p = L
  <2>1. rest = <<>> <=> Len(rest) = 0
    <3> HIDE DEF rest
    <3>1. QED
      BY <1>3
  <2> HIDE DEF L, rest
  <2>2. QED
    BY <1>2, <1>3, <2>1
<1>5. p < L => Head(rest) = s[p + 1]
  <2> HIDE DEF rest, L
  <2>1. p < L => rest[1] = s[p + 1]
    BY <1>2, <1>3
  <2>2. QED
    BY <1>3, <2>1
<1>6. {rest[i].key : i \in DOMAIN rest} = KeysAfter(s, p)
  <2> HIDE DEF rest
  <2>1. ASSUME NEW i \in DOMAIN rest PROVE rest[i].key \in KeysAfter(s, p)
    <3>1. p + i \in p + 1 .. L /\ rest[i] = s[p + i]
      BY <1>2, <1>3
    <3>2. QED
      BY <3>1 DEF KeysAfter, L
  <2>2. ASSUME NEW i \in p + 1 .. L PROVE s[i].key \in {rest[j].key : j \in DOMAIN rest}
    <3>1. i - p \in DOMAIN rest /\ p + (i - p) = i
      BY <1>2, <1>3
    <3>2. QED
      BY <1>3, <3>1
  <2>3. QED
    BY <2>1, <2>2, Zenon DEF KeysAfter, L
<1> HIDE DEF at, rest
<1>7. SubSeq(s, 1 + at, Len(s)) = rest
  BY <1>1 DEF rest
<1>8. QED
  BY <1>4, <1>5, <1>6, <1>7 DEF L, at

LEMMA UnvisitedAt ==
  ASSUME NEW mm, Fits(mm), NEW it, NEW p \in Nat, Place(mm, it, p)
  PROVE  /\ UnvisitedIn(mm, it) = (IF p = 0 THEN {} ELSE KeysAfter(mm.buckets[it.bucketidx], p))
                                    \cup LaterKeys(mm, it.bucketidx)
         /\ RemainingIn(mm, it) = <<>> <=> p = 0 \/ p = Len(mm.buckets[it.bucketidx])
         /\ p # 0 /\ p < Len(mm.buckets[it.bucketidx])
              => Head(RemainingIn(mm, it)) = mm.buckets[it.bucketidx][p + 1]
<1>1. CASE p = 0
  <2>1. RemainingIn(mm, it) = <<>>
    BY <1>1, Zenon DEF Place, RemainingIn
  <2>2. {RemainingIn(mm, it)[i].key : i \in DOMAIN RemainingIn(mm, it)} = {}
    <3> DEFINE none == RemainingIn(mm, it)
    <3>1. DOMAIN none = {}
      BY <2>1
    <3> HIDE DEF none
    <3>2. {none[i].key : i \in DOMAIN none} = {}
      BY <3>1
    <3>3. QED
      BY <3>2 DEF none
  <2>3. UnvisitedIn(mm, it) = LaterKeys(mm, it.bucketidx)
    BY <2>2 DEF UnvisitedIn, LaterIn, LaterKeys
  <2>4. QED
    BY <1>1, <2>1, <2>3
<1>2. CASE p # 0
  <2> DEFINE s == mm.buckets[it.bucketidx]
  <2>1. s \in Seq(Node) /\ NoDup(s) /\ p \in DOMAIN s /\ s[p].key = it.node /\ it.node # NULL
    BY <1>2, HashAssumption DEF Place, Fits, BucketFits
  <2> DEFINE rest == SubSeq(s, 1 + (CHOOSE i \in DOMAIN s : s[i].key = s[p].key), Len(s))
  <2>2. /\ {rest[i].key : i \in DOMAIN rest} = KeysAfter(s, p)
        /\ rest = <<>> <=> p = Len(s)
        /\ p < Len(s) => Head(rest) = s[p + 1]
    <3> HIDE DEF s
    <3>1. QED
      BY <2>1, AfterPlace
  <2>3. RemainingIn(mm, it) = rest
    BY <2>1 DEF RemainingIn
  <2> HIDE DEF rest
  <2>4. QED
    BY <1>2, <2>2, <2>3 DEF UnvisitedIn, LaterIn, LaterKeys
<1>3. QED
  BY <1>1, <1>2

----------------------------------------------------------------------------
(* A bucket that loses a node, or whose node gets another value            *)

LEMMA WithoutNode ==
  ASSUME NEW s \in Seq(Node), NoDup(s), NEW p \in DOMAIN s
  PROVE  LET r == RemoveAt(s, p) IN
         /\ r \in Seq(Node) /\ NoDup(r) /\ Len(r) = Len(s) - 1
         /\ \A i \in 1 .. Len(s) - 1 : r[i] = s[IF i < p THEN i ELSE i + 1]
         /\ ToSet(r) = {x \in ToSet(s) : x.key # s[p].key}
<1> DEFINE r == RemoveAt(s, p)
           L == Len(s)
           front == SubSeq(s, 1, p - 1)
           back == SubSeq(s, p + 1, L)
           from == [i \in 1 .. L - 1 |-> IF i < p THEN i ELSE i + 1]
<1>1. L \in Nat /\ DOMAIN s = 1 .. L /\ p \in 1 .. L
  OBVIOUS
<1>2. front \in Seq(Node) /\ Len(front) = p - 1 /\ \A i \in 1 .. p - 1 : front[i] = s[i]
  BY <1>1
<1>3. back \in Seq(Node) /\ Len(back) = L - p /\ \A i \in 1 .. (L - p) : back[i] = s[p + i]
  BY <1>1
<1>4. r = front \o back
  BY DEF RemoveAt
<1> HIDE DEF r, front, back, L
<1>5. r \in Seq(Node) /\ Len(r) = L - 1 /\ DOMAIN r = 1 .. L - 1
      /\ \A i \in 1 .. L - 1 : r[i] = IF i <= p - 1 THEN front[i] ELSE back[i - (p - 1)]
  <2>1. /\ r \in Seq(Node) /\ Len(r) = Len(front) + Len(back)
        /\ \A i \in 1 .. Len(front) : r[i] = front[i]
        /\ \A i \in 1 .. Len(back) : r[Len(front) + i] = back[i]
    <3>1. front \in Seq(Node) /\ back \in Seq(Node)
      BY <1>2, <1>3
    <3>2. /\ front \o back \in Seq(Node) /\ Len(front \o back) = Len(front) + Len(back)
          /\ \A i \in 1 .. Len(front) : (front \o back)[i] = front[i]
          /\ \A i \in 1 .. Len(back) : (front \o back)[Len(front) + i] = back[i]
      BY <3>1, ConcatElements
    <3>3. QED
      BY <1>4, <3>2, Zenon
  <2>2. Len(r) = L - 1 /\ DOMAIN r = 1 .. L - 1
    BY <1>1, <1>2, <1>3, <2>1
  <2>3. ASSUME NEW i \in 1 .. L - 1 PROVE r[i] = IF i <= p - 1 THEN front[i] ELSE back[i - (p - 1)]
    <3>1. CASE i <= p - 1
      BY <1>1, <1>2, <2>1, <3>1
    <3>2. CASE ~(i <= p - 1)
      <4>1. i - (p - 1) \in 1 .. Len(back) /\ Len(front) + (i - (p - 1)) = i
        BY <1>1, <1>2, <1>3, <3>2, SMTT(40)
      <4>2. r[Len(front) + (i - (p - 1))] = back[i - (p - 1)]
        BY <2>1, <4>1
      <4>3. QED
        BY <3>2, <4>1, <4>2
    <3>3. QED
      BY <3>1, <3>2
  <2>4. QED
    BY <2>1, <2>2, <2>3
<1>6. \A i \in 1 .. L - 1 : from[i] \in 1 .. L /\ from[i] # p
  BY <1>1
<1>7. ASSUME NEW i \in 1 .. L - 1 PROVE r[i] = s[from[i]]
  <2>1. CASE i < p
    <3>1. i <= p - 1 /\ i \in 1 .. p - 1
      BY <1>1, <2>1
    <3>2. QED
      BY <1>2, <1>5, <2>1, <3>1
  <2>2. CASE ~(i < p)
    <3>1. ~(i <= p - 1) /\ i - (p - 1) \in 1 .. (L - p) /\ p + (i - (p - 1)) = i + 1
      BY <1>1, <2>2
    <3>2. QED
      BY <1>3, <1>5, <2>2, <3>1
  <2>3. QED
    BY <2>1, <2>2
<1>8. \A i, j \in 1 .. L - 1 : from[i] = from[j] => i = j
  BY <1>1
<1>9. \A j \in 1 .. L : j # p => \E i \in 1 .. L - 1 : from[i] = j
  <2> SUFFICES ASSUME NEW j \in 1 .. L, j # p PROVE \E i \in 1 .. L - 1 : from[i] = j
    OBVIOUS
  <2>1. CASE j < p
    <3>1. j \in 1 .. L - 1 /\ from[j] = j
      BY <1>1, <2>1
    <3>2. QED
      BY <3>1
  <2>2. CASE j > p
    <3>1. j - 1 \in 1 .. L - 1 /\ from[j - 1] = j
      BY <1>1, <2>2
    <3>2. QED
      BY <3>1
  <2>3. QED
    BY <1>1, <2>1, <2>2
<1>10. \A i \in 1 .. L - 1 : r[i] = s[IF i < p THEN i ELSE i + 1]
  BY <1>7
<1> HIDE DEF from
<1>11. NoDup(r)
  <2> SUFFICES ASSUME NEW i \in DOMAIN r, NEW j \in DOMAIN r, r[i].key = r[j].key PROVE i = j
    BY DEF NoDup
  <2>1. from[i] = from[j]
    BY <1>1, <1>5, <1>6, <1>7 DEF NoDup
  <2>2. QED
    BY <1>5, <1>8, <2>1
<1>12. ToSet(r) = {x \in ToSet(s) : x.key # s[p].key}
  <2>1. ASSUME NEW i \in DOMAIN r PROVE r[i] \in ToSet(s) /\ r[i].key # s[p].key
    <3>1. r[i] = s[from[i]] /\ from[i] \in DOMAIN s /\ from[i] # p
      BY <1>1, <1>5, <1>6, <1>7
    <3>2. QED
      BY <3>1 DEF NoDup, ToSet
  <2>2. ASSUME NEW x \in ToSet(s), x.key # s[p].key PROVE x \in ToSet(r)
    <3>1. PICK j \in DOMAIN s : x = s[j]
      BY DEF ToSet
    <3>2. PICK i \in 1 .. L - 1 : from[i] = j
      BY <1>1, <1>9, <2>2, <3>1
    <3>3. r[i] = x /\ i \in DOMAIN r
      BY <1>5, <1>7, <3>1, <3>2
    <3>4. QED
      BY <3>3 DEF ToSet
  <2>3. QED
    BY <2>1, <2>2, Zenon DEF ToSet
<1>13. QED
  BY <1>5, <1>10, <1>11, <1>12 DEF L, r

LEMMA WithValue ==
  ASSUME NEW s \in Seq(Node), NoDup(s), NEW p \in DOMAIN s, NEW value \in Value
  PROVE  LET r == [s EXCEPT ![p].value = value] IN
         /\ r \in Seq(Node) /\ NoDup(r)
         /\ ToSet(r) = {x \in ToSet(s) : x.key # s[p].key} \cup {[key |-> s[p].key, value |-> value]}
<1> DEFINE node == [key |-> s[p].key, value |-> value]
           old == s[p]
           r == [s EXCEPT ![p] = node]
           L == Len(s)
<1>1. s[p] \in Node /\ L \in Nat /\ DOMAIN s = 1 .. L /\ s = [i \in 1 .. L |-> s[i]]
      /\ \A i \in 1 .. L : s[i] \in Node
  OBVIOUS
<1>2. node \in Node /\ node.key = s[p].key
  BY <1>1 DEF Node
<1>3. [old EXCEPT !.value = value] = node
  BY <1>1 DEF Node
<1>4. [s EXCEPT ![p].value = value] = r
  BY <1>3
<1> HIDE DEF node, old, L
<1>5. DOMAIN r = 1 .. L /\ r[p] = node /\ \A i \in 1 .. L : i # p => r[i] = s[i]
  BY <1>1
<1>6. r \in Seq(Node)
  <2>1. r \in [1 .. L -> Node]
    BY <1>1, <1>2
  <2>2. QED
    BY <1>1, <2>1
<1> HIDE DEF r
<1>7. \A i \in 1 .. L : r[i].key = s[i].key
  BY <1>1, <1>2, <1>5
<1>8. NoDup(r)
  BY <1>1, <1>5, <1>7 DEF NoDup
<1>9. ToSet(r) = {x \in ToSet(s) : x.key # s[p].key} \cup {node}
  <2>1. ASSUME NEW i \in DOMAIN r PROVE r[i] \in {x \in ToSet(s) : x.key # s[p].key} \cup {node}
    <3>1. CASE i = p
      BY <1>5, <3>1
    <3>2. CASE i # p
      <4>1. r[i] = s[i] /\ s[i].key # s[p].key /\ i \in DOMAIN s
        BY <1>1, <1>5, <2>1, <3>2 DEF NoDup
      <4>2. QED
        BY <4>1 DEF ToSet
    <3>3. QED
      BY <3>1, <3>2
  <2>2. ASSUME NEW i \in DOMAIN s, s[i].key # s[p].key PROVE s[i] \in ToSet(r)
    BY <1>1, <1>5, <2>2 DEF ToSet
  <2>3. node \in ToSet(r)
    BY <1>1, <1>5 DEF ToSet
  <2>4. \A x \in ToSet(r) : x \in {y \in ToSet(s) : y.key # s[p].key} \cup {node}
    BY <2>1, Zenon DEF ToSet
  <2>5. \A x \in ToSet(s) : x.key # s[p].key => x \in ToSet(r)
    BY <2>2, Zenon DEF ToSet
  <2>6. QED
    BY <2>3, <2>4, <2>5
<1>10. QED
  BY <1>4, <1>6, <1>8, <1>9 DEF node

(* The number of nodes is counted apart.                                   *)
LEMMA Counted ==
  ASSUME NEW mm, Fits(mm), NEW n \in Int
  PROVE  LET new == [mm EXCEPT !.nnodes = n] IN
         /\ Fits(new) /\ new.nbuckets = mm.nbuckets /\ new.nnodes = n /\ new.buckets = mm.buckets
         /\ NodesOf(new) = NodesOf(mm)
<1> DEFINE new == [mm EXCEPT !.nnodes = n]
<1>1. /\ DOMAIN new = DOMAIN mm /\ new = [f \in DOMAIN new |-> new[f]]
      /\ new.nbuckets = mm.nbuckets /\ new.nnodes = n /\ new.buckets = mm.buckets
  BY DEF Fits
<1> HIDE DEF new
<1>2. Fits(new) /\ NodesOf(new) = NodesOf(mm)
  BY <1>1 DEF Fits, BucketFits, NodesOf
<1>3. QED
  BY <1>1, <1>2 DEF new

----------------------------------------------------------------------------
(* The steps of an iteration                                               *)

IndexOf(mm, x) == edgex_map_bucketidx(mm.nbuckets, x.key)

LEMMA LaterAre ==
  ASSUME NEW mm, Fits(mm), NEW c \in Int, c >= -1
  PROVE  LaterKeys(mm, c) = {x.key : x \in {y \in NodesOf(mm) : IndexOf(mm, y) > c}}
<1> DEFINE Far == {y \in NodesOf(mm) : IndexOf(mm, y) > c}
           Some == {b \in c + 1 .. mm.nbuckets - 1 : mm.buckets[b] # <<>>}
<1>1. mm.nbuckets \in Nat /\ \A b \in 0 .. mm.nbuckets - 1 : BucketFits(mm, b)
  BY DEF Fits
<1>2. ASSUME NEW b \in Some, NEW j \in DOMAIN mm.buckets[b]
      PROVE  mm.buckets[b][j] \in Far
  <2>1. b \in 0 .. mm.nbuckets - 1 /\ b > c
    BY <1>1
  <2>2. mm.buckets[b][j] \in ToSet(mm.buckets[b])
    BY DEF ToSet
  <2>3. mm.buckets[b][j] \in NodesOf(mm) /\ IndexOf(mm, mm.buckets[b][j]) = b
    BY <1>1, <2>1, <2>2 DEF NodesOf, BucketFits, IndexOf
  <2>4. QED
    BY <2>1, <2>3
<1>3. ASSUME NEW x \in Far PROVE \E b \in Some : \E j \in DOMAIN mm.buckets[b] : mm.buckets[b][j] = x
  <2>1. PICK b \in 0 .. mm.nbuckets - 1 : x \in ToSet(mm.buckets[b])
    BY DEF NodesOf
  <2>2. IndexOf(mm, x) = b
    BY <1>1, <2>1 DEF BucketFits, IndexOf
  <2>3. PICK j \in DOMAIN mm.buckets[b] : mm.buckets[b][j] = x
    BY <2>1 DEF ToSet
  <2>4. b \in c + 1 .. mm.nbuckets - 1
    BY <1>1, <2>2
  <2>5. mm.buckets[b] # <<>>
    <3>1. mm.buckets[b] = <<>> => DOMAIN mm.buckets[b] = {}
      OBVIOUS
    <3>2. QED
      BY <2>3, <3>1
  <2>6. QED
    BY <2>3, <2>4, <2>5
<1> HIDE DEF Far, Some
<1>4. LaterKeys(mm, c) = UNION {{mm.buckets[b][j].key : j \in DOMAIN mm.buckets[b]} : b \in Some}
  BY DEF LaterKeys, Some
<1>5. ASSUME NEW k \in LaterKeys(mm, c) PROVE k \in {x.key : x \in Far}
  <2>1. PICK b \in Some : k \in {mm.buckets[b][j].key : j \in DOMAIN mm.buckets[b]}
    BY <1>4
  <2>2. PICK j \in DOMAIN mm.buckets[b] : k = mm.buckets[b][j].key
    BY <2>1
  <2>3. QED
    BY <1>2, <2>2
<1>6. ASSUME NEW x \in Far PROVE x.key \in LaterKeys(mm, c)
  <2>1. PICK b \in Some : \E j \in DOMAIN mm.buckets[b] : mm.buckets[b][j] = x
    BY <1>3
  <2>2. x.key \in {mm.buckets[b][j].key : j \in DOMAIN mm.buckets[b]}
    BY <2>1
  <2>3. QED
    BY <1>4, <2>2
<1>7. LaterKeys(mm, c) = {x.key : x \in Far}
  BY <1>5, <1>6, Zenon
<1>8. QED
  BY <1>7 DEF Far

(* The places of an iteration, and what is unvisited there.                *)
LEMMA PlaceIn ==
  ASSUME NEW mm, Fits(mm), NEW it, NEW p \in Nat, Place(mm, it, p)
  PROVE  /\ it.bucketidx \in Int /\ it.bucketidx >= -1 /\ it # NULL
         /\ p # 0 => /\ it.bucketidx \in 0 .. mm.nbuckets - 1
                     /\ BucketFits(mm, it.bucketidx)
                     /\ p \in 1 .. Len(mm.buckets[it.bucketidx])
                     /\ Len(mm.buckets[it.bucketidx]) \in Nat
                     /\ mm.buckets[it.bucketidx][p].key = it.node
<1>1. it # NULL
  BY HashAssumption DEF Place
<1>2. mm.nbuckets \in Nat
  BY DEF Fits
<1>3. CASE p = 0
  BY <1>1, <1>3 DEF Place
<1>4. CASE p # 0
  <2>1. it.bucketidx \in 0 .. mm.nbuckets - 1 /\ BucketFits(mm, it.bucketidx)
    BY <1>4 DEF Place, Fits
  <2>2. /\ p \in DOMAIN mm.buckets[it.bucketidx] /\ mm.buckets[it.bucketidx] \in Seq(Node)
        /\ mm.buckets[it.bucketidx][p].key = it.node
    BY <1>4, <2>1 DEF Place, BucketFits
  <2>3. QED
    BY <1>1, <1>2, <1>4, <2>1, <2>2
<1>5. QED
  BY <1>3, <1>4

LEMMA UnvisitedAreKeys ==
  ASSUME NEW mm, Fits(mm), NEW it, NEW p \in Nat, Place(mm, it, p)
  PROVE  UnvisitedIn(mm, it) \subseteq {x.key : x \in NodesOf(mm)} /\ UnvisitedIn(mm, it) \subseteq Key
<1>1. LaterKeys(mm, it.bucketidx) \subseteq {x.key : x \in NodesOf(mm)}
  BY LaterAre, PlaceIn
<1>2. ASSUME p # 0, NEW i \in p + 1 .. Len(mm.buckets[it.bucketidx])
      PROVE  mm.buckets[it.bucketidx][i].key \in {x.key : x \in NodesOf(mm)}
  <2>1. i \in DOMAIN mm.buckets[it.bucketidx]
    BY <1>2, PlaceIn DEF BucketFits
  <2>2. mm.buckets[it.bucketidx][i] \in NodesOf(mm)
    BY <1>2, <2>1, PlaceIn DEF NodesOf, ToSet
  <2>3. QED
    BY <2>2
<1>3. UnvisitedIn(mm, it) = (IF p = 0 THEN {} ELSE KeysAfter(mm.buckets[it.bucketidx], p))
                              \cup LaterKeys(mm, it.bucketidx)
  BY UnvisitedAt
<1>4. UnvisitedIn(mm, it) \subseteq {x.key : x \in NodesOf(mm)}
  BY <1>1, <1>2, <1>3 DEF KeysAfter
<1>5. \A x \in NodesOf(mm) : x.key \in Key
  BY NodesFit DEF Node
<1>6. QED
  BY <1>4, <1>5

LEMMA Beginning ==
  ASSUME NEW mm, Fits(mm)
  PROVE  LET it == [bucketidx |-> -1, node |-> NULL] IN
         Place(mm, it, 0) /\ UnvisitedIn(mm, it) = {x.key : x \in NodesOf(mm)}
<1> DEFINE it == [bucketidx |-> -1, node |-> NULL]
<1>1. Place(mm, it, 0) /\ it.bucketidx = -1
  BY DEF Place
<1> HIDE DEF it
<1>2. UnvisitedIn(mm, it) = LaterKeys(mm, -1)
  <2> SUFFICES ASSUME NEW p \in Nat, p = 0 PROVE UnvisitedIn(mm, it) = LaterKeys(mm, -1)
    OBVIOUS
  <2>1. Place(mm, it, p)
    BY <1>1
  <2>2. UnvisitedIn(mm, it) = (IF p = 0 THEN {} ELSE KeysAfter(mm.buckets[it.bucketidx], p))
                                \cup LaterKeys(mm, it.bucketidx)
    BY <2>1, UnvisitedAt
  <2>3. QED
    BY <1>1, <2>2
<1>3. {y \in NodesOf(mm) : IndexOf(mm, y) > -1} = NodesOf(mm)
  <2>1. ASSUME NEW y \in NodesOf(mm) PROVE IndexOf(mm, y) > -1
    <3>1. y.key \in Key /\ mm.nbuckets # 0 /\ mm.nbuckets \in Nat
      BY NodesFit DEF Fits, Node
    <3>2. QED
      BY <3>1, BucketOf DEF IndexOf
  <2>2. QED
    BY <2>1
<1>4. LaterKeys(mm, -1) = {x.key : x \in NodesOf(mm)}
  BY <1>3, LaterAre
<1>5. QED
  BY <1>1, <1>2, <1>4 DEF it

(* On to the next node of the bucket.                                      *)
LEMMA AdvanceInBucket ==
  ASSUME NEW mm, Fits(mm), NEW it, NEW p \in Nat, Place(mm, it, p), RemainingIn(mm, it) # <<>>
  PROVE  LET new == [it EXCEPT !.node = Head(RemainingIn(mm, it)).key] IN
         /\ Place(mm, new, p + 1)
         /\ new.node \in UnvisitedIn(mm, it)
         /\ UnvisitedIn(mm, new) = UnvisitedIn(mm, it) \ {new.node}
<1> DEFINE c == it.bucketidx
           s == mm.buckets[c]
           node == s[p + 1]
           new == [it EXCEPT !.node = node.key]
           L == Len(s)
<1>1. p # 0 /\ p # L
  BY UnvisitedAt
<1>2. /\ c \in 0 .. mm.nbuckets - 1 /\ BucketFits(mm, c) /\ p \in 1 .. L /\ L \in Nat
      /\ s[p].key = it.node /\ c \in Int /\ c >= -1
  BY <1>1, PlaceIn
<1>3. s \in Seq(Node) /\ DOMAIN s = 1 .. L /\ NoDup(s)
  BY <1>2 DEF BucketFits
<1>4. p < L /\ p + 1 \in 1 .. L /\ p + 1 # 0 /\ p + 1 \in Nat
  BY <1>1, <1>2
<1>5. Head(RemainingIn(mm, it)) = node
  BY <1>1, <1>4, UnvisitedAt
<1>6. node \in Node /\ node \in ToSet(s) /\ node.key \in Key
  <2>1. node \in Node
    BY <1>3, <1>4
  <2>2. QED
    BY <1>3, <1>4, <2>1 DEF ToSet, Node
<1>7. new.bucketidx = c /\ new.node = node.key /\ DOMAIN new = {"bucketidx", "node"}
      /\ new = [f \in DOMAIN new |-> new[f]] /\ new \in [bucketidx : Int, node : Key \cup {NULL}]
  <2>1. DOMAIN it = {"bucketidx", "node"} /\ it \in [bucketidx : Int, node : Key \cup {NULL}]
    BY DEF Place
  <2>2. QED
    BY <1>6, <2>1
<1> HIDE DEF new
<1>8. Place(mm, new, p + 1)
  BY <1>2, <1>3, <1>4, <1>6, <1>7 DEF Place
<1>9. UnvisitedIn(mm, it) = KeysAfter(s, p) \cup LaterKeys(mm, c)
  BY <1>1, UnvisitedAt
<1>10. UnvisitedIn(mm, new) = KeysAfter(s, p + 1) \cup LaterKeys(mm, c)
  BY <1>4, <1>7, <1>8, UnvisitedAt
<1>11. KeysAfter(s, p + 1) = KeysAfter(s, p) \ {node.key} /\ node.key \in KeysAfter(s, p)
  <2> HIDE DEF s, L
  <2>1. Len(s) = L
    BY DEF L
  <2>2. p + 1 .. L = (p + 1 + 1 .. L) \cup {p + 1}
    BY <1>2, <1>4
  <2>3. ASSUME NEW i \in p + 1 + 1 .. L PROVE s[i].key # node.key
    <3>1. i \in 1 .. L /\ i # p + 1
      BY <1>2, <1>4
    <3>2. QED
      BY <1>3, <1>4, <3>1 DEF NoDup
  <2>4. QED
    BY <2>1, <2>2, <2>3 DEF KeysAfter
<1>12. node.key \notin LaterKeys(mm, c)
  <2>1. LaterKeys(mm, c) = {x.key : x \in {y \in NodesOf(mm) : IndexOf(mm, y) > c}}
    BY <1>2, LaterAre
  <2>2. IndexOf(mm, node) = c
    BY <1>2, <1>6 DEF BucketFits, IndexOf
  <2>3. \A x \in NodesOf(mm) : x.key = node.key => ~(IndexOf(mm, x) > c)
    BY <1>2, <2>2 DEF IndexOf
  <2>4. QED
    BY <2>1, <2>3
<1>13. UnvisitedIn(mm, new) = UnvisitedIn(mm, it) \ {new.node} /\ new.node \in UnvisitedIn(mm, it)
  BY <1>7, <1>9, <1>10, <1>11, <1>12
<1>14. QED
  BY <1>5, <1>8, <1>13 DEF new

(* Nothing is left in the bucket.                                          *)
LEMMA BucketLeft ==
  ASSUME NEW mm, Fits(mm), NEW it, NEW p \in Nat, Place(mm, it, p), RemainingIn(mm, it) = <<>>
  PROVE  UnvisitedIn(mm, it) = LaterKeys(mm, it.bucketidx)
<1>1. UnvisitedIn(mm, it) = (IF p = 0 THEN {} ELSE KeysAfter(mm.buckets[it.bucketidx], p))
                              \cup LaterKeys(mm, it.bucketidx)
  BY UnvisitedAt
<1>2. p = 0 \/ p = Len(mm.buckets[it.bucketidx])
  BY UnvisitedAt
<1>3. p # 0 => KeysAfter(mm.buckets[it.bucketidx], p) = {}
  BY <1>2 DEF KeysAfter
<1>4. QED
  BY <1>1, <1>3

(* On to the next bucket that has nodes, or to the end.                    *)
LEMMA AdvanceToBucket ==
  ASSUME NEW mm, Fits(mm), NEW it, NEW p \in Nat, Place(mm, it, p), RemainingIn(mm, it) = <<>>,
         NEW c \in LaterIn(mm, it), \A k \in LaterIn(mm, it) : c <= k
  PROVE  LET new == [bucketidx |-> c, node |-> Head(mm.buckets[c]).key] IN
         /\ Place(mm, new, 1)
         /\ new.node \in UnvisitedIn(mm, it)
         /\ UnvisitedIn(mm, new) = UnvisitedIn(mm, it) \ {new.node}
<1> DEFINE old == it.bucketidx
           s == mm.buckets[c]
           node == s[1]
           new == [bucketidx |-> c, node |-> node.key]
           L == Len(s)
           Far(b) == {x.key : x \in {y \in NodesOf(mm) : IndexOf(mm, y) > b}}
<1>1. old \in Int /\ old >= -1 /\ mm.nbuckets \in Nat
  BY PlaceIn DEF Fits
<1>2. c \in 0 .. mm.nbuckets - 1 /\ c > old /\ c \in Int /\ c >= -1 /\ s # <<>> /\ BucketFits(mm, c)
  <2>1. c \in it.bucketidx + 1 .. mm.nbuckets - 1 /\ mm.buckets[c] # <<>>
    BY DEF LaterIn
  <2>2. c \in 0 .. mm.nbuckets - 1 /\ c > old
    BY <1>1, <2>1
  <2>3. QED
    BY <2>1, <2>2 DEF Fits
<1>3. s \in Seq(Node) /\ L \in Nat /\ DOMAIN s = 1 .. L /\ NoDup(s) /\ 1 \in 1 .. L /\ Head(s) = s[1]
  <2>1. s \in Seq(Node) /\ NoDup(s)
    BY <1>2 DEF BucketFits
  <2> HIDE DEF s
  <2>2. QED
    BY <1>2, <2>1
<1>4. node \in Node /\ node \in ToSet(s) /\ node.key \in Key /\ IndexOf(mm, node) = c
  <2>1. node \in Node /\ node \in ToSet(s)
    BY <1>3 DEF ToSet
  <2>2. QED
    BY <1>2, <2>1 DEF BucketFits, IndexOf, Node
<1>5. new.bucketidx = c /\ new.node = node.key /\ DOMAIN new = {"bucketidx", "node"}
      /\ new = [f \in DOMAIN new |-> new[f]] /\ new \in [bucketidx : Int, node : Key \cup {NULL}]
  BY <1>2, <1>4
<1> HIDE DEF new
<1>6. Place(mm, new, 1)
  BY <1>2, <1>3, <1>4, <1>5 DEF Place
<1>7. UnvisitedIn(mm, it) = Far(old)
  <2>1. UnvisitedIn(mm, it) = LaterKeys(mm, old)
    BY BucketLeft
  <2>2. QED
    BY <1>1, <2>1, LaterAre
<1>8. UnvisitedIn(mm, new) = KeysAfter(s, 1) \cup Far(c)
  <2> SUFFICES ASSUME NEW q \in Nat, q = 1
               PROVE  UnvisitedIn(mm, new) = KeysAfter(s, q) \cup Far(c)
    OBVIOUS
  <2>1. Place(mm, new, q) /\ q # 0
    BY <1>6
  <2>2. UnvisitedIn(mm, new) = KeysAfter(s, q) \cup LaterKeys(mm, c)
    BY <1>5, <2>1, UnvisitedAt
  <2>3. QED
    BY <1>2, <2>2, LaterAre
(* No bucket between them has a node.                                      *)
<1>9. ASSUME NEW x \in NodesOf(mm), IndexOf(mm, x) > old
      PROVE  IndexOf(mm, x) > c \/ x \in ToSet(s)
  <2> DEFINE b == IndexOf(mm, x)
  <2>1. b \in 0 .. mm.nbuckets - 1 /\ x \in ToSet(mm.buckets[b])
    <3>1. x \in Node /\ mm.nbuckets # 0 /\ x \in ToSet(mm.buckets[b])
      BY NodesFit DEF IndexOf
    <3>2. QED
      BY <1>1, <3>1, BucketOf DEF IndexOf, Node
  <2>2. mm.buckets[b] # <<>>
    <3>1. mm.buckets[b] = <<>> => DOMAIN mm.buckets[b] = {}
      OBVIOUS
    <3>2. QED
      BY <2>1, <3>1 DEF ToSet
  <2>3. b \in LaterIn(mm, it)
    BY <1>1, <1>9, <2>1, <2>2 DEF LaterIn
  <2>4. c <= b
    BY <2>3
  <2> HIDE DEF b
  <2>5. QED
    BY <1>2, <2>1, <2>4 DEF b
<1>10. ASSUME NEW x \in ToSet(s) PROVE x \in NodesOf(mm) /\ IndexOf(mm, x) = c
  BY <1>2 DEF NodesOf, BucketFits, IndexOf
<1>11. {x.key : x \in ToSet(s)} = KeysAfter(s, 1) \cup {node.key} /\ node.key \notin KeysAfter(s, 1)
  <2> HIDE DEF s, L
  <2>1. Len(s) = L
    BY DEF L
  <2>2. 1 .. L = (1 + 1 .. L) \cup {1}
    BY <1>3
  <2>3. ASSUME NEW i \in 1 + 1 .. L PROVE s[i].key # node.key
    <3>1. i \in 1 .. L /\ i # 1
      BY <1>3
    <3>2. QED
      BY <1>3, <3>1 DEF NoDup
  <2>4. QED
    BY <1>3, <2>1, <2>2, <2>3 DEF KeysAfter, ToSet
<1>12. Far(old) = {x.key : x \in ToSet(s)} \cup Far(c)
  <2>1. ASSUME NEW x \in NodesOf(mm), IndexOf(mm, x) > c PROVE IndexOf(mm, x) > old
    <3>1. IndexOf(mm, x) \in Int
      BY <1>1, NodesFit, BucketOf, SMTT(40) DEF IndexOf, Node
    <3>2. QED
      BY <1>1, <1>2, <2>1, <3>1
  <2>2. ASSUME NEW k \in Far(old) PROVE k \in {x.key : x \in ToSet(s)} \cup Far(c)
    BY <1>9
  <2>3. ASSUME NEW k \in {x.key : x \in ToSet(s)} PROVE k \in Far(old)
    BY <1>2, <1>10
  <2>4. ASSUME NEW k \in Far(c) PROVE k \in Far(old)
    BY <2>1
  <2>5. QED
    BY <2>2, <2>3, <2>4, Zenon
<1>13. node.key \notin Far(c)
  <2>1. ASSUME NEW x \in NodesOf(mm), x.key = node.key PROVE ~(IndexOf(mm, x) > c)
    BY <1>2, <1>4, <2>1 DEF IndexOf
  <2>2. QED
    BY <2>1
<1>14. UnvisitedIn(mm, new) = UnvisitedIn(mm, it) \ {new.node} /\ new.node \in UnvisitedIn(mm, it)
  <2> HIDE DEF Far, s, node
  <2>1. QED
    BY <1>5, <1>7, <1>8, <1>11, <1>12, <1>13
<1>15. QED
  BY <1>3, <1>6, <1>14 DEF new

LEMMA AtTheEnd ==
  ASSUME NEW mm, Fits(mm), NEW it, NEW p \in Nat, Place(mm, it, p), RemainingIn(mm, it) = <<>>,
         LaterIn(mm, it) = {}
  PROVE  UnvisitedIn(mm, it) = {}
<1>1. UnvisitedIn(mm, it) = LaterKeys(mm, it.bucketidx)
  BY BucketLeft
<1>2. LaterKeys(mm, it.bucketidx) = {}
  BY DEF LaterKeys, LaterIn
<1>3. QED
  BY <1>1, <1>2

----------------------------------------------------------------------------
(* Removing a key, and giving it a value                                   *)

LEMMA Removing ==
  ASSUME NEW mm, Fits(mm), NEW key \in Key, edgex_map_getref(mm, key) # 0
  PROVE  LET b == edgex_map_bucketidx(mm.nbuckets, key)
             at == edgex_map_getref(mm, key)
             s == mm.buckets[b]
             new == [mm EXCEPT !.buckets[b] = RemoveAt(@, at), !.nnodes = @ - 1]
         IN  /\ Fits(new) /\ new.nbuckets = mm.nbuckets
             /\ NodesOf(new) = {x \in NodesOf(mm) : x.key # key}
             /\ b \in 0 .. mm.nbuckets - 1 /\ at \in DOMAIN s /\ s[at].key = key
             /\ new.buckets = [mm.buckets EXCEPT ![b] = RemoveAt(s, at)]
<1> DEFINE b == edgex_map_bucketidx(mm.nbuckets, key)
           at == edgex_map_getref(mm, key)
           s == mm.buckets[b]
           r == RemoveAt(s, at)
           n1 == [mm EXCEPT !.buckets[b] = r]
           new == [n1 EXCEPT !.nnodes = mm.nnodes - 1]
<1>1. mm.nbuckets # 0 /\ at \in DOMAIN s /\ s[at].key = key
  BY GetRef DEF Bucket
<1>2. b \in 0 .. mm.nbuckets - 1
  BY <1>1, BucketOf DEF Fits
<1>3. /\ s \in Seq(Node) /\ NoDup(s)
      /\ \A x \in ToSet(s) : edgex_map_bucketidx(mm.nbuckets, x.key) = b
  BY <1>2 DEF Fits, BucketFits
<1>4. edgex_map_bucketidx(mm.nbuckets, key) = b /\ mm.buckets[b] = s
  OBVIOUS
<1>5. DOMAIN mm = {"nbuckets", "nnodes", "buckets"} /\ mm.nnodes - 1 \in Int
  BY DEF Fits
<1>6. [mm EXCEPT !.buckets[b] = RemoveAt(@, at), !.nnodes = @ - 1] = new
  BY <1>5
<1>7. n1.buckets = [mm.buckets EXCEPT ![b] = r]
  BY <1>5
<1> HIDE DEF s, at, b
<1>8. r \in Seq(Node) /\ NoDup(r) /\ ToSet(r) = {x \in ToSet(s) : x.key # key}
  BY <1>1, <1>3, WithoutNode
<1> HIDE DEF r
<1>9. /\ Fits(n1) /\ n1.nbuckets = mm.nbuckets /\ n1.nnodes = mm.nnodes
      /\ NodesOf(n1) = (NodesOf(mm) \ ToSet(s)) \cup ToSet(r)
  <2>1. \A x \in ToSet(r) : edgex_map_bucketidx(mm.nbuckets, x.key) = b
    BY <1>3, <1>8
  <2>2. /\ Fits(n1) /\ n1.nbuckets = mm.nbuckets /\ n1.nnodes = mm.nnodes
        /\ NodesOf(n1) = (NodesOf(mm) \ ToSet(mm.buckets[b])) \cup ToSet(r)
    <3>1. b \in 0 .. mm.nbuckets - 1 /\ r \in Seq(Node) /\ NoDup(r)
      BY <1>2, <1>8
    <3> HIDE DEF new
    <3>2. QED
      <4>1. Fits(n1)
        BY <2>1, <3>1, BucketSet
      <4>2. n1.nbuckets = mm.nbuckets
        BY <2>1, <3>1, BucketSet
      <4>3. n1.nnodes = mm.nnodes
        BY <2>1, <3>1, BucketSet
      <4>4. NodesOf(n1) = (NodesOf(mm) \ ToSet(mm.buckets[b])) \cup ToSet(r)
        BY <2>1, <3>1, BucketSet
      <4>5. QED
        BY <4>1, <4>2, <4>3, <4>4
  <2> HIDE DEF n1
  <2>3. QED
    BY <1>4, <2>2
<1> HIDE DEF n1
<1>10. /\ Fits(new) /\ new.nbuckets = n1.nbuckets /\ new.buckets = n1.buckets
       /\ NodesOf(new) = NodesOf(n1)
  BY <1>5, <1>9, Counted
<1> HIDE DEF new
<1>11. \A x \in NodesOf(mm) : x.key = key => x \in ToSet(s)
  BY <1>4, NodesFit
<1>12. \A x \in ToSet(s) : x \in NodesOf(mm)
  BY <1>2, <1>4 DEF NodesOf
<1>13. NodesOf(new) = {x \in NodesOf(mm) : x.key # key}
  BY <1>8, <1>9, <1>10, <1>11, <1>12
<1>14. QED
  BY <1>1, <1>2, <1>6, <1>7, <1>9, <1>10, <1>13 DEF s, r, at, b

LEMMA Assigning ==
  ASSUME NEW mm, Fits(mm), NEW key \in Key, NEW value \in Value, edgex_map_getref(mm, key) # 0
  PROVE  LET b == edgex_map_bucketidx(mm.nbuckets, key)
             new == [mm EXCEPT !.buckets[b][edgex_map_getref(mm, key)].value = value]
         IN  /\ Fits(new) /\ new.nbuckets = mm.nbuckets /\ new.nnodes = mm.nnodes
             /\ NodesOf(new) = {x \in NodesOf(mm) : x.key # key} \cup {[key |-> key, value |-> value]}
<1> DEFINE b == edgex_map_bucketidx(mm.nbuckets, key)
           at == edgex_map_getref(mm, key)
           s == mm.buckets[b]
           r == [s EXCEPT ![at].value = value]
           new == [mm EXCEPT !.buckets[b] = r]
<1>1. mm.nbuckets # 0 /\ at \in DOMAIN s /\ s[at].key = key
  BY GetRef DEF Bucket
<1>2. b \in 0 .. mm.nbuckets - 1
  BY <1>1, BucketOf DEF Fits
<1>3. /\ s \in Seq(Node) /\ NoDup(s)
      /\ \A x \in ToSet(s) : edgex_map_bucketidx(mm.nbuckets, x.key) = b
  BY <1>2 DEF Fits, BucketFits
<1>4. edgex_map_bucketidx(mm.nbuckets, key) = b /\ mm.buckets[b] = s
  OBVIOUS
<1>5. [mm EXCEPT !.buckets[b][edgex_map_getref(mm, key)].value = value] = new
  OBVIOUS
<1> HIDE DEF s, at, b
<1>6. /\ r \in Seq(Node) /\ NoDup(r)
      /\ ToSet(r) = {x \in ToSet(s) : x.key # key} \cup {[key |-> key, value |-> value]}
  <2>1. at \in DOMAIN s /\ s \in Seq(Node) /\ NoDup(s)
    BY <1>1, <1>3
  <2>2. /\ [s EXCEPT ![at].value = value] \in Seq(Node) /\ NoDup([s EXCEPT ![at].value = value])
        /\ ToSet([s EXCEPT ![at].value = value]) =
             {x \in ToSet(s) : x.key # s[at].key} \cup {[key |-> s[at].key, value |-> value]}
    BY <2>1, WithValue
  <2> HIDE DEF r
  <2>3. QED
    BY <1>1, <2>2 DEF r
<1> HIDE DEF r
<1>7. \A x \in ToSet(r) : edgex_map_bucketidx(mm.nbuckets, x.key) = b
  BY <1>3, <1>4, <1>6
<1>8. /\ Fits(new) /\ new.nbuckets = mm.nbuckets /\ new.nnodes = mm.nnodes
      /\ NodesOf(new) = (NodesOf(mm) \ ToSet(s)) \cup ToSet(r)
  <2>1. /\ Fits(new) /\ new.nbuckets = mm.nbuckets /\ new.nnodes = mm.nnodes
        /\ NodesOf(new) = (NodesOf(mm) \ ToSet(mm.buckets[b])) \cup ToSet(r)
    BY <1>2, <1>6, <1>7, BucketSet, SMTT(40)
  <2> HIDE DEF new
  <2>2. QED
    BY <1>4, <2>1
<1> HIDE DEF new
<1>9. \A x \in NodesOf(mm) : x.key = key => x \in ToSet(s)
  BY <1>4, NodesFit
<1>10. \A x \in ToSet(s) : x \in NodesOf(mm)
  BY <1>2, <1>4 DEF NodesOf
<1>11. NodesOf(new) = {x \in NodesOf(mm) : x.key # key} \cup {[key |-> key, value |-> value]}
  BY <1>6, <1>8, <1>9, <1>10
<1>12. QED
  BY <1>5, <1>8, <1>11 DEF b

(* A key that the iteration has left may go: what is unvisited stays.      *)
LEMMA RemovingBehind ==
  ASSUME NEW mm, Fits(mm), NEW new, Fits(new), new.nbuckets = mm.nbuckets,
         NEW key \in Key, NEW b \in 0 .. mm.nbuckets - 1, NEW at \in DOMAIN mm.buckets[b],
         mm.buckets[b][at].key = key, new.buckets = [mm.buckets EXCEPT ![b] = RemoveAt(mm.buckets[b], at)],
         NodesOf(new) = {x \in NodesOf(mm) : x.key # key},
         NEW it, NEW p \in Nat, Place(mm, it, p), key \notin UnvisitedIn(mm, it), key # it.node
  PROVE  \E q \in Nat : Place(new, it, q) /\ UnvisitedIn(new, it) = UnvisitedIn(mm, it)
<1> DEFINE c == it.bucketidx
           s == mm.buckets[b]
           r == RemoveAt(s, at)
           Far(nn) == {x.key : x \in {y \in NodesOf(nn) : IndexOf(nn, y) > c}}
           After(nn, q) == IF q = 0 THEN {} ELSE KeysAfter(nn.buckets[c], q)
<1>1. c \in Int /\ c >= -1 /\ mm.nbuckets \in Nat
  BY PlaceIn DEF Fits
<1>2. s[at] \in NodesOf(mm) /\ IndexOf(mm, s[at]) = b /\ s[at].key = key
  BY SMTT(40) DEF NodesOf, ToSet, Fits, BucketFits, IndexOf
<1>3. UnvisitedIn(mm, it) = After(mm, p) \cup Far(mm)
  <2>1. UnvisitedIn(mm, it) = After(mm, p) \cup LaterKeys(mm, c)
    BY UnvisitedAt
  <2>2. QED
    BY <1>1, <2>1, LaterAre
<1>4. ~(b > c)
  <2>1. key \notin Far(mm)
    BY <1>3
  <2>2. QED
    BY <1>2, <2>1
<1>5. Far(new) = Far(mm)
  BY <1>2, <1>4 DEF IndexOf
<1>6. ASSUME NEW q \in Nat, Place(new, it, q), After(new, q) = After(mm, p)
      PROVE  UnvisitedIn(new, it) = UnvisitedIn(mm, it)
  <2>1. UnvisitedIn(new, it) = After(new, q) \cup LaterKeys(new, c)
    BY <1>6, UnvisitedAt
  <2> HIDE DEF After
  <2>2. UnvisitedIn(new, it) = After(new, q) \cup Far(new)
    BY <1>1, <2>1, LaterAre
  <2>3. QED
    BY <1>3, <1>5, <1>6, <2>2
<1>7. DOMAIN mm.buckets = 0 .. mm.nbuckets - 1
  BY DEF Fits
<1>8. CASE p = 0
  BY <1>1, <1>4, <1>8 DEF Place
<1>9. CASE p # 0 /\ b # c
  <2>1. new.buckets[c] = mm.buckets[c] /\ c \in 0 .. mm.nbuckets - 1
    BY <1>7, <1>9, PlaceIn
  <2>2. Place(new, it, p)
    BY <1>9, <2>1 DEF Place
  <2>3. After(new, p) = After(mm, p)
    BY <2>1
  <2>4. QED
    BY <1>6, <2>2, <2>3
<1>10. CASE p # 0 /\ b = c
  <2> DEFINE L == Len(s)
  <2>1. p \in 1 .. L /\ L \in Nat /\ s[p].key = it.node /\ s \in Seq(Node) /\ NoDup(s) /\ DOMAIN s = 1 .. L
    BY <1>10, PlaceIn DEF BucketFits
  <2>2. new.buckets[c] = r
    BY <1>7, <1>10
  <2>3. /\ r \in Seq(Node) /\ Len(r) = L - 1
        /\ \A i \in 1 .. L - 1 : r[i] = s[IF i < at THEN i ELSE i + 1]
    <3>1. at \in DOMAIN s
      OBVIOUS
    <3> HIDE DEF s
    <3>2. QED
      BY <2>1, <3>1, WithoutNode
  <2>4. at \in 1 .. L
    BY <2>1
  <2>5. After(mm, p) = KeysAfter(s, p)
    BY <1>10
  <2>6. key \notin KeysAfter(s, p)
    BY <1>3, <2>5
  <2>7. s[at].key = key
    OBVIOUS
  <2> HIDE DEF s, r
  <2>8. at < p
    <3>1. at # p
      BY <2>1, <2>7
    <3>2. ~(at > p)
      <4>1. at > p => at \in p + 1 .. Len(s)
        BY <2>1, <2>4
      <4>2. QED
        BY <2>6, <2>7, <4>1 DEF KeysAfter
    <3>3. QED
      BY <2>1, <2>4, <3>1, <3>2
  <2>9. /\ p - 1 \in Nat /\ p - 1 # 0 /\ p - 1 \in 1 .. L - 1 /\ p - 1 \in DOMAIN r /\ DOMAIN r = 1 .. L - 1
        /\ r[p - 1] = s[p]
    <3>1. p - 1 \in 1 .. L - 1 /\ ~(p - 1 < at) /\ (p - 1) + 1 = p /\ p - 1 # 0 /\ p - 1 \in Nat
      BY <2>1, <2>4, <2>8
    <3> HIDE DEF L
    <3>2. r[p - 1] = s[p]
      BY <2>3, <3>1
    <3>3. DOMAIN r = 1 .. L - 1
      BY <2>3
    <3>4. QED
      BY <3>1, <3>2, <3>3
  <2> HIDE DEF L
  <2>10. Place(new, it, p - 1)
    BY <1>10, <2>1, <2>2, <2>9 DEF Place
  <2>11. KeysAfter(r, p - 1) = KeysAfter(s, p)
    <3>1. ASSUME NEW i \in (p - 1) + 1 .. L - 1 PROVE r[i].key \in KeysAfter(s, p)
      <4>1. i \in 1 .. L - 1 /\ ~(i < at) /\ i + 1 \in p + 1 .. L
        BY <2>1, <2>4, <2>8
      <4>2. r[i] = s[i + 1]
        BY <2>3, <4>1
      <4>3. QED
        BY <4>1, <4>2 DEF KeysAfter, L
    <3>2. ASSUME NEW i \in p + 1 .. L PROVE s[i].key \in KeysAfter(r, p - 1)
      <4>1. i - 1 \in 1 .. L - 1 /\ ~(i - 1 < at) /\ (i - 1) + 1 = i /\ i - 1 \in (p - 1) + 1 .. L - 1
        BY <2>1, <2>4, <2>8
      <4>2. r[i - 1] = s[i]
        BY <2>3, <4>1
      <4>3. QED
        BY <2>3, <4>1, <4>2 DEF KeysAfter
    <3>3. Len(r) = L - 1 /\ Len(s) = L
      BY <2>3 DEF L
    <3>4. \A k \in KeysAfter(r, p - 1) : k \in KeysAfter(s, p)
      BY <3>1, <3>3 DEF KeysAfter
    <3>5. \A k \in KeysAfter(s, p) : k \in KeysAfter(r, p - 1)
      BY <3>2, <3>3 DEF KeysAfter
    <3>6. QED
      BY <3>4, <3>5
  <2>12. After(new, p - 1) = After(mm, p)
    BY <2>2, <2>5, <2>9, <2>11
  <2>13. p - 1 \in Nat
    BY <2>9
  <2> DEFINE q == p - 1
  <2>14. q \in Nat /\ Place(new, it, q) /\ After(new, q) = After(mm, p)
    BY <2>10, <2>12, <2>13
  <2> HIDE DEF q, After
  <2>15. UnvisitedIn(new, it) = UnvisitedIn(mm, it)
    BY <1>6, <2>14
  <2>16. QED
    BY <2>14, <2>15
<1>11. QED
  BY <1>8, <1>9, <1>10

(* A new key, with the buckets doubled if the map is full.                 *)
LEMMA Inserting ==
  ASSUME NEW mm, Fits(mm), mm.nbuckets = 0 => mm.nnodes = 0,
         NEW key \in Key, NEW value \in Value, edgex_map_getref(mm, key) = 0
  PROVE  LET full == mm.nnodes >= mm.nbuckets
             double == IF mm.nbuckets > 0 THEN 2 * mm.nbuckets ELSE 1
             grown == IF full THEN edgex_map_resize(mm, double) ELSE mm
             node == [key |-> key, value |-> value]
             new == [edgex_map_addnode(grown, node) EXCEPT !.nnodes = @ + 1]
         IN  /\ Fits(new) /\ new.nbuckets # 0
             /\ NodesOf(new) = {x \in NodesOf(mm) : x.key # key} \cup {node}
<1> DEFINE full == mm.nnodes >= mm.nbuckets
           double == IF mm.nbuckets > 0 THEN 2 * mm.nbuckets ELSE 1
           grown == IF full THEN edgex_map_resize(mm, double) ELSE mm
           node == [key |-> key, value |-> value]
           added == edgex_map_addnode(grown, node)
           count == added.nnodes + 1
           new == [added EXCEPT !.nnodes = count]
<1>1. mm.nbuckets \in Nat /\ mm.nnodes \in Int /\ double \in Nat /\ double # 0
  BY DEF Fits
<1>2. \A x \in NodesOf(mm) : x.key # key
  BY GetRef
<1>3. node \in Node /\ node.key = key
  BY DEF Node
<1>4. Fits(grown) /\ grown.nbuckets # 0 /\ NodesOf(grown) = NodesOf(mm)
  <2>1. CASE full
    <3> DEFINE resized == edgex_map_resize(mm, double)
    <3> HIDE DEF double
    <3>1. Fits(resized) /\ resized.nbuckets = double /\ NodesOf(resized) = NodesOf(mm)
      BY <1>1, Resize
    <3>2. grown = resized
      BY <2>1
    <3> HIDE DEF resized, grown
    <3>3. QED
      BY <1>1, <3>1, <3>2
  <2>2. CASE ~full
    BY <1>1, <2>2
  <2>3. QED
    BY <2>1, <2>2
<1> HIDE DEF grown, node
<1>5. Fits(added) /\ added.nbuckets = grown.nbuckets /\ NodesOf(added) = NodesOf(grown) \cup {node}
  BY <1>2, <1>3, <1>4, AddNode
<1>6. count \in Int
  BY <1>5 DEF Fits
<1>7. [edgex_map_addnode(grown, node) EXCEPT !.nnodes = @ + 1] = new
  OBVIOUS
<1> HIDE DEF added, count
<1>8. Fits(new) /\ new.nbuckets = added.nbuckets /\ NodesOf(new) = NodesOf(added)
  BY <1>5, <1>6, Counted
<1> HIDE DEF new
<1>9. NodesOf(new) = {x \in NodesOf(mm) : x.key # key} \cup {node}
  BY <1>2, <1>4, <1>5, <1>8
<1>10. QED
  BY <1>4, <1>5, <1>7, <1>8, <1>9 DEF grown, node

----------------------------------------------------------------------------
(* The map implements a partial function                                   *)

(* The nodes are in the buckets of their keys, a map without buckets has   *)
(* no nodes to make room for, and an iteration is at a node.               *)
MapInv ==
  /\ Fits(m)
  /\ m.nbuckets = 0 => m.nnodes = 0
  /\ iter # NULL => \E p \in Nat : Place(m, iter, p)

LEMMA Mapped ==
  /\ Contents = ContentsOf(NodesOf(m)) /\ Contents' = ContentsOf(NodesOf(m'))
  /\ Unvisited = UnvisitedIn(m, iter) /\ Unvisited' = UnvisitedIn(m', iter')
<1>1. Nodes = NodesOf(m) /\ Nodes' = NodesOf(m')
  BY DEF Nodes, NodesOf, ToSet
<1>2. Unvisited = UnvisitedIn(m, iter) /\ Unvisited' = UnvisitedIn(m', iter')
  BY DEF Unvisited, UnvisitedIn, Remaining, RemainingIn, Later, LaterIn
<1>3. QED
  BY <1>1, <1>2 DEF Contents, ContentsOf

LEMMA KeysOf == DOMAIN Contents = {x.key : x \in NodesOf(m)}
BY Mapped DEF ContentsOf

LEMMA SetStep ==
  ASSUME MapInv, NEW key \in Key, NEW value \in Value, NEW memory, edgex_map_set_(key, value, memory)
  PROVE  MapInv' /\ Abstract!Next
<1> DEFINE at == edgex_map_getref(m, key)
           full == m.nnodes >= m.nbuckets
           double == IF m.nbuckets > 0 THEN 2 * m.nbuckets ELSE 1
           grown == IF full THEN edgex_map_resize(m, double) ELSE m
           node == [key |-> key, value |-> value]
           new == [edgex_map_addnode(grown, node) EXCEPT !.nnodes = @ + 1]
           assigned == [m EXCEPT !.buckets[edgex_map_bucketidx(m.nbuckets, key)][at].value = value]
<1>1. iter = NULL /\ iter' = NULL /\ Fits(m) /\ (m.nbuckets = 0 => m.nnodes = 0)
  BY DEF MapInv, edgex_map_set_
<1>2. \/ at # 0 /\ m' = assigned /\ ret' = 0
      \/ at = 0 /\ m' = m /\ ret' = -1
      \/ at = 0 /\ m' = edgex_map_resize(m, m.nbuckets) /\ ret' = -1
      \/ at = 0 /\ m' = new /\ ret' = 0
  BY Zenon DEF edgex_map_set_
<1>3. ASSUME Fits(m'), m'.nbuckets # 0, ret' = 0,
             NodesOf(m') = {x \in NodesOf(m) : x.key # key} \cup {node}
      PROVE  MapInv' /\ Abstract!Next
  <2>1. MapInv'
    BY <1>1, <1>3 DEF MapInv
  <2>2. Contents' = [k \in DOMAIN Contents \cup {key} |-> IF k = key THEN value ELSE Contents[k]]
    <3>1. /\ DOMAIN ContentsOf(NodesOf(m')) = DOMAIN ContentsOf(NodesOf(m)) \cup {key}
          /\ \A k \in DOMAIN ContentsOf(NodesOf(m')) :
               ContentsOf(NodesOf(m'))[k] = IF k = key THEN value ELSE ContentsOf(NodesOf(m))[k]
      <4>1. Gives(m, m', key, value)
        BY <1>1, <1>3 DEF Gives
      <4>2. /\ DOMAIN ContentsOf(NodesOf(m')) = DOMAIN ContentsOf(NodesOf(m)) \cup {key}
            /\ ContentsOf(NodesOf(m'))[key] = value
        BY <4>1, GivenKeys
      <4>3. ASSUME NEW k \in DOMAIN ContentsOf(NodesOf(m)), k # key
            PROVE  ContentsOf(NodesOf(m'))[k] = ContentsOf(NodesOf(m))[k]
        BY <4>1, <4>3, OtherKeys
      <4>4. QED
        BY <4>2, <4>3
    <3>2. Contents' = [k \in DOMAIN Contents' |-> Contents'[k]]
      BY DEF Contents
    <3>3. QED
      BY <3>1, <3>2, Mapped
  <2>3. QED
    BY <1>1, <1>3, <2>1, <2>2 DEF Abstract!Next, Abstract!Set
<1>4. ASSUME Fits(m'), m'.nbuckets = m.nbuckets, m'.nnodes = m.nnodes, ret' = -1, at = 0,
             NodesOf(m') = NodesOf(m)
      PROVE  MapInv' /\ Abstract!Next
  <2>1. MapInv'
    BY <1>1, <1>4 DEF MapInv
  <2>2. Contents' = Contents
    BY <1>4, Mapped
  <2>3. key \notin DOMAIN Contents
    <3>1. \A x \in NodesOf(m) : x.key # key
      BY <1>1, <1>4, GetRef
    <3>2. QED
      BY <3>1, KeysOf
  <2>4. QED
    BY <1>1, <1>4, <2>1, <2>2, <2>3 DEF Abstract!Next, Abstract!SetFails
<1>5. CASE at # 0 /\ m' = assigned /\ ret' = 0
  <2>1. /\ Fits(assigned) /\ assigned.nbuckets = m.nbuckets
        /\ NodesOf(assigned) = {x \in NodesOf(m) : x.key # key} \cup {node}
    BY <1>1, <1>5, Assigning
  <2>2. m.nbuckets # 0
    BY <1>1, <1>5, GetRef
  <2> HIDE DEF assigned
  <2>3. QED
    BY <1>3, <1>5, <2>1, <2>2
<1>6. CASE at = 0 /\ m' = m /\ ret' = -1
  BY <1>1, <1>4, <1>6
<1>7. CASE at = 0 /\ m' = edgex_map_resize(m, m.nbuckets) /\ ret' = -1
  <2> DEFINE n == m.nbuckets
             resized == edgex_map_resize(m, n)
  <2>1. n \in Nat /\ n = m.nbuckets
    BY <1>1 DEF Fits
  <2> HIDE DEF n
  <2>2. Fits(resized) /\ resized.nbuckets = n /\ resized.nnodes = m.nnodes /\ NodesOf(resized) = NodesOf(m)
    BY <1>1, <2>1, Resize
  <2>3. m' = resized
    BY <1>7, <2>1
  <2> HIDE DEF resized
  <2>4. QED
    BY <1>4, <1>7, <2>1, <2>2, <2>3
<1>8. CASE at = 0 /\ m' = new /\ ret' = 0
  <2>1. Fits(new) /\ new.nbuckets # 0 /\ NodesOf(new) = {x \in NodesOf(m) : x.key # key} \cup {node}
    BY <1>1, <1>8, Inserting
  <2> HIDE DEF new
  <2>2. QED
    BY <1>3, <1>8, <2>1
<1>9. QED
  BY <1>2, <1>5, <1>6, <1>7, <1>8

LEMMA GetStep ==
  ASSUME MapInv, NEW key \in Key, edgex_map_get_(key)
  PROVE  MapInv' /\ Abstract!Next
<1> DEFINE at == edgex_map_getref(m, key)
           x == Bucket(m, key)[at]
<1>1. Fits(m) /\ m' = m /\ iter' = iter /\ ret' = IF at = 0 THEN NULL ELSE x.value
  BY DEF MapInv, edgex_map_get_
<1>2. MapInv'
  BY <1>1 DEF MapInv
<1>3. Contents' = Contents /\ Unvisited' = Unvisited
  BY <1>1, Mapped
<1>4. ret' = IF key \in DOMAIN Contents THEN Contents[key] ELSE NULL
  <2>1. CASE at = 0
    <3>1. \A y \in NodesOf(m) : y.key # key
      BY <1>1, <2>1, GetRef
    <3>2. key \notin DOMAIN Contents
      BY <3>1, KeysOf
    <3>3. QED
      BY <1>1, <2>1, <3>2
  <2>2. CASE at # 0
    <3>1. x \in NodesOf(m) /\ x.key = key
      BY <1>1, <2>2, GetRef
    <3> HIDE DEF x
    <3>2. key \in DOMAIN Contents /\ Contents[key] = x.value
      BY <1>1, <3>1, ContentsAt, Mapped
    <3>3. QED
      BY <1>1, <2>2, <3>2
  <2>3. QED
    BY <2>1, <2>2
<1>5. Abstract!Get(key)
  BY <1>1, <1>3, <1>4 DEF Abstract!Get
<1>6. QED
  BY <1>2, <1>5 DEF Abstract!Next

LEMMA RemoveStep ==
  ASSUME MapInv, NEW key \in Key, key \notin Kept, edgex_map_remove_(key)
  PROVE  MapInv' /\ Abstract!Next
<1> DEFINE at == edgex_map_getref(m, key)
           b == edgex_map_bucketidx(m.nbuckets, key)
           removed == [m EXCEPT !.buckets[b] = RemoveAt(@, at), !.nnodes = @ - 1]
<1>1. /\ Fits(m) /\ (m.nbuckets = 0 => m.nnodes = 0) /\ (iter # NULL => \E p \in Nat : Place(m, iter, p))
      /\ iter' = iter /\ ret' = NULL
      /\ ((at = 0 /\ m' = m) \/ (at # 0 /\ m' = removed))
  <2>1. (at = 0 /\ m' = m) \/ (at # 0 /\ m' = removed)
    BY Zenon DEF edgex_map_remove_
  <2>2. iter' = iter /\ ret' = NULL
    BY DEF edgex_map_remove_
  <2>3. QED
    BY <2>1, <2>2 DEF MapInv
<1>2. iter # NULL => key \notin Unvisited /\ key # iter.node
  BY DEF Kept
<1>3. MapInv' /\ Loses(m, m', key) /\ (iter # NULL => Unvisited' = Unvisited)
  <2>1. CASE at = 0 /\ m' = m
    <3>1. \A x \in NodesOf(m) : x.key # key
      BY <1>1, <2>1, GetRef
    <3>2. Loses(m, m', key)
      BY <1>1, <2>1, <3>1 DEF Loses
    <3>3. QED
      BY <1>1, <2>1, <3>2, Mapped DEF MapInv
  <2>2. CASE at # 0 /\ m' = removed
    <3>1. /\ Fits(removed) /\ removed.nbuckets = m.nbuckets
          /\ NodesOf(removed) = {x \in NodesOf(m) : x.key # key}
          /\ b \in 0 .. m.nbuckets - 1 /\ at \in DOMAIN m.buckets[b] /\ m.buckets[b][at].key = key
          /\ removed.buckets = [m.buckets EXCEPT ![b] = RemoveAt(m.buckets[b], at)]
      BY <1>1, <2>2, Removing
    <3>2. m.nbuckets # 0
      BY <3>1
    <3> HIDE DEF removed
    <3>3. Loses(m, m', key)
      BY <1>1, <2>2, <3>1 DEF Loses
    <3>4. CASE iter = NULL
      BY <1>1, <2>2, <3>1, <3>2, <3>3, <3>4 DEF MapInv
    <3>5. CASE iter # NULL
      <4>1. PICK p \in Nat : Place(m, iter, p)
        BY <1>1, <3>5
      <4>2. key \notin UnvisitedIn(m, iter) /\ key # iter.node
        BY <1>2, <3>5, Mapped
      <4> HIDE DEF at, b
      <4>3. \E q \in Nat : Place(removed, iter, q) /\ UnvisitedIn(removed, iter) = UnvisitedIn(m, iter)
        BY <1>1, <3>1, <4>1, <4>2, RemovingBehind
      <4>4. Unvisited' = Unvisited
        BY <1>1, <2>2, <4>3, Mapped
      <4>5. QED
        BY <1>1, <2>2, <3>1, <3>2, <3>3, <4>3, <4>4 DEF MapInv
    <3>6. QED
      BY <3>4, <3>5
  <2>3. QED
    BY <1>1, <2>1, <2>2
<1>4. Contents' = [k \in DOMAIN Contents \ {key} |-> Contents[k]]
  <2>1. DOMAIN ContentsOf(NodesOf(m')) = DOMAIN ContentsOf(NodesOf(m)) \ {key}
    BY <1>3, KeysLeft
  <2>2. ASSUME NEW k \in DOMAIN ContentsOf(NodesOf(m'))
        PROVE  ContentsOf(NodesOf(m'))[k] = ContentsOf(NodesOf(m))[k]
    BY <1>3, <2>2, ValuesLeft
  <2>3. Contents' = [k \in DOMAIN Contents' |-> Contents'[k]]
    BY DEF Contents
  <2>4. QED
    BY <2>1, <2>2, <2>3, Mapped
<1>5. Abstract!Remove(key)
  BY <1>1, <1>3, <1>4 DEF Abstract!Remove
<1>6. (IF iter = NULL THEN NULL ELSE Unvisited) # NULL => key \notin (IF iter = NULL THEN NULL ELSE Unvisited)
  BY <1>2
<1>7. QED
  BY <1>3, <1>5, <1>6 DEF Abstract!Next

(* A set of keys is not NULL.                                              *)
LEMMA UnvisitedIsSet ==
  ASSUME MapInv, iter # NULL
  PROVE  Unvisited # NULL
<1>1. PICK p \in Nat : Place(m, iter, p)
  BY DEF MapInv
<1>2. UnvisitedIn(m, iter) \subseteq Key
  BY <1>1, UnvisitedAreKeys DEF MapInv
<1>3. QED
  BY <1>2, HashAssumption, Mapped

LEMMA IterateStep ==
  ASSUME MapInv, edgex_map_iter_
  PROVE  MapInv' /\ Abstract!Next
<1> DEFINE it == [bucketidx |-> -1, node |-> NULL]
<1>1. iter = NULL /\ iter' = it /\ ret' = NULL /\ m' = m /\ Fits(m)
  BY DEF MapInv, edgex_map_iter_
<1>2. Place(m, it, 0) /\ UnvisitedIn(m, it) = {x.key : x \in NodesOf(m)}
  BY <1>1, Beginning
<1>3. it # NULL
  BY HashAssumption
<1> HIDE DEF it
<1>4. MapInv'
  <2>1. \E p \in Nat : Place(m, it, p)
    BY <1>2
  <2>2. QED
    BY <1>1, <2>1 DEF MapInv
<1>5. Unvisited' = DOMAIN Contents /\ Contents' = Contents
  BY <1>1, <1>2, KeysOf, Mapped
<1>6. iter' # NULL
  BY <1>1, <1>3
<1>7. QED
  BY <1>1, <1>4, <1>5, <1>6 DEF Abstract!Next, Abstract!Iterate

LEMMA NextStep ==
  ASSUME MapInv, edgex_map_next_
  PROVE  MapInv' /\ Abstract!Next
<1> DEFINE i == CHOOSE j \in Later(iter) : \A k \in Later(iter) : j <= k
           inBucket == [iter EXCEPT !.node = Head(Remaining(iter)).key]
           toBucket == [bucketidx |-> i, node |-> Head(m.buckets[i]).key]
<1>1. iter # NULL /\ m' = m /\ Fits(m) /\ (m.nbuckets = 0 => m.nnodes = 0)
  BY DEF MapInv, edgex_map_next_
<1>2. PICK p \in Nat : Place(m, iter, p)
  BY <1>1 DEF MapInv
<1>3. Remaining(iter) = RemainingIn(m, iter) /\ Later(iter) = LaterIn(m, iter)
  BY DEF Remaining, RemainingIn, Later, LaterIn
<1>4. Unvisited # NULL /\ Contents' = Contents
  BY <1>1, UnvisitedIsSet, Mapped
<1>5. ASSUME NEW q \in Nat, Place(m, iter', q), ret' = iter'.node, iter'.node \in UnvisitedIn(m, iter),
             UnvisitedIn(m, iter') = UnvisitedIn(m, iter) \ {iter'.node}
      PROVE  MapInv' /\ Abstract!Next
  <2>1. iter' # NULL
    BY <1>1, <1>5, PlaceIn
  <2>2. MapInv'
    BY <1>1, <1>5 DEF MapInv
  <2>3. iter'.node \in Unvisited /\ Unvisited' = Unvisited \ {iter'.node}
    BY <1>1, <1>5, Mapped
  <2>4. Abstract!Visit
    BY <1>1, <1>4, <1>5, <2>1, <2>3 DEF Abstract!Visit
  <2>5. QED
    BY <1>1, <1>4, <2>2, <2>4 DEF Abstract!Next
<1>6. CASE Remaining(iter) # <<>>
  <2>1. iter' = inBucket /\ ret' = iter'.node
    BY <1>6 DEF edgex_map_next_
  <2>2. /\ Place(m, inBucket, p + 1) /\ inBucket.node \in UnvisitedIn(m, iter)
        /\ UnvisitedIn(m, inBucket) = UnvisitedIn(m, iter) \ {inBucket.node}
    BY <1>1, <1>2, <1>3, <1>6, AdvanceInBucket
  <2> HIDE DEF inBucket
  <2>3. p + 1 \in Nat
    OBVIOUS
  <2>4. QED
    BY <1>5, <2>1, <2>2, <2>3
<1>7. CASE Remaining(iter) = <<>> /\ Later(iter) # {}
  <2>1. iter' = toBucket /\ ret' = iter'.node
    BY <1>7 DEF edgex_map_next_
  <2>2. i \in Later(iter) /\ \A k \in Later(iter) : i <= k
    <3> DEFINE T == Later(iter)
               Less == {r \in Nat \X Nat : r[1] < r[2]}
    <3>1. T \subseteq Nat
      BY <1>1, <1>2, <1>3, PlaceIn DEF LaterIn
    <3>2. PICK j \in T : \A k \in T : ~(<<k, j>> \in Less)
      <4>1. IsWellFoundedOn(Less, Nat)
        BY NatLessThanWellFounded, Zenon DEF OpToRel
      <4>2. T # {}
        BY <1>7
      <4> HIDE DEF T, Less
      <4>3. QED
        BY <3>1, <4>1, <4>2, WFMin
    <3>3. ASSUME NEW k \in T PROVE j <= k
      <4>1. k \in Nat /\ j \in Nat /\ ~(<<k, j>> \in Less)
        BY <3>1, <3>2
      <4>2. QED
        BY <4>1
    <3>4. QED
      BY <3>3
  <2> HIDE DEF i
  <2>3. /\ Place(m, toBucket, 1) /\ toBucket.node \in UnvisitedIn(m, iter)
        /\ UnvisitedIn(m, toBucket) = UnvisitedIn(m, iter) \ {toBucket.node}
    <3>1. i \in LaterIn(m, iter) /\ (\A k \in LaterIn(m, iter) : i <= k) /\ RemainingIn(m, iter) = <<>>
      BY <1>3, <1>7, <2>2
    <3>2. QED
      BY <1>1, <1>2, <3>1, AdvanceToBucket
  <2> HIDE DEF toBucket
  <2>4. 1 \in Nat
    OBVIOUS
  <2>5. QED
    BY <1>5, <2>1, <2>3, <2>4
<1>8. CASE Remaining(iter) = <<>> /\ Later(iter) = {}
  <2>1. iter' = NULL /\ ret' = NULL
    BY <1>8 DEF edgex_map_next_
  <2>2. Unvisited = {}
    BY <1>1, <1>2, <1>3, <1>8, AtTheEnd, Mapped
  <2>3. MapInv'
    BY <1>1, <2>1 DEF MapInv
  <2>4. Abstract!EndOfKeys
    BY <1>1, <1>4, <2>1, <2>2 DEF Abstract!EndOfKeys
  <2>5. QED
    BY <1>1, <1>4, <2>3, <2>4 DEF Abstract!Next
<1>9. QED
  BY <1>6, <1>7, <1>8

LEMMA Empty == Fits(EmptyMap) /\ EmptyMap.nbuckets = 0 /\ EmptyMap.nnodes = 0
               /\ ContentsOf(NodesOf(EmptyMap)) = Abstract!Nothing
<1>1. /\ EmptyMap.nbuckets = 0 /\ EmptyMap.nnodes = 0 /\ EmptyMap.buckets = [b \in 0 .. 0 - 1 |-> <<>>]
      /\ DOMAIN EmptyMap = {"nbuckets", "nnodes", "buckets"}
      /\ EmptyMap = [f \in DOMAIN EmptyMap |-> EmptyMap[f]]
  BY DEF EmptyMap, Emptied
<1>2. 0 .. 0 - 1 = {}
  OBVIOUS
<1>3. NodesOf(EmptyMap) = {}
  BY <1>1, <1>2, Zenon DEF NodesOf
<1>4. Fits(EmptyMap)
  BY <1>1, <1>2 DEF Fits
<1>5. DOMAIN ContentsOf({}) = {}
  BY DEF ContentsOf
<1>6. ContentsOf({}) = Abstract!Nothing
  BY DEF ContentsOf, Abstract!Nothing
<1>7. QED
  BY <1>1, <1>3, <1>4, <1>6

LEMMA DeinitStep ==
  ASSUME MapInv, edgex_map_deinit_
  PROVE  MapInv' /\ Abstract!Next
<1>1. iter = NULL /\ iter' = NULL /\ m' = EmptyMap /\ ret' = NULL
  BY DEF edgex_map_deinit_
<1>2. MapInv'
  BY <1>1, Empty DEF MapInv
<1>3. Contents' = Abstract!Nothing
  BY <1>1, Empty, Mapped
<1>4. QED
  BY <1>1, <1>2, <1>3 DEF Abstract!Next, Abstract!Clear

LEMMA InitHolds ==
  ASSUME MapInit
  PROVE  MapInv /\ Abstract!Init
<1>1. m = EmptyMap /\ iter = NULL /\ ret = NULL
  BY DEF MapInit
<1>2. MapInv
  BY <1>1, Empty DEF MapInv
<1>3. Contents = Abstract!Nothing
  BY <1>1, Empty, Mapped
<1>4. QED
  BY <1>1, <1>2, <1>3 DEF Abstract!Init

LEMMA StepHolds ==
  ASSUME MapInv, [MapNext]_mapVars
  PROVE  MapInv' /\ [Abstract!Next]_(Abstract!vars)
<1>1. CASE UNCHANGED mapVars
  <2>1. m' = m /\ iter' = iter /\ ret' = ret
    BY <1>1 DEF mapVars
  <2>2. Contents' = Contents /\ Unvisited' = Unvisited
    BY <2>1, Mapped
  <2>3. QED
    BY <2>1, <2>2 DEF MapInv, Abstract!vars
<1>2. ASSUME NEW key \in Key, NEW value \in Value, NEW memory \in SUBSET {"node", "buckets"},
             edgex_map_set_(key, value, memory)
      PROVE  MapInv' /\ Abstract!Next
  BY <1>2, SetStep
<1>3. ASSUME NEW key \in Key, edgex_map_get_(key) \/ (key \notin Kept /\ edgex_map_remove_(key))
      PROVE  MapInv' /\ Abstract!Next
  BY <1>3, GetStep, RemoveStep
<1>4. CASE edgex_map_iter_ \/ edgex_map_next_ \/ edgex_map_deinit_
  BY <1>4, IterateStep, NextStep, DeinitStep
<1>5. CASE MapNext
  <2>1. \/ \E key \in Key, value \in Value, memory \in SUBSET {"node", "buckets"} :
             edgex_map_set_(key, value, memory)
        \/ \E key \in Key : edgex_map_get_(key) \/ (key \notin Kept /\ edgex_map_remove_(key))
        \/ edgex_map_iter_ \/ edgex_map_next_ \/ edgex_map_deinit_
    BY <1>5, Zenon DEF MapNext
  <2>2. QED
    BY <1>2, <1>3, <1>4, <2>1
<1>6. QED
  BY <1>1, <1>5

(* Whatever the hashes and the memory, the map behaves as a partial        *)
(* function, and an iteration comes once to every key.                     *)
THEOREM MapIsPartialFunction == MapSpec => ImplementsMap
<1>1. MapInit => MapInv /\ Abstract!Init
  BY InitHolds
<1>2. MapInv /\ [MapNext]_mapVars => MapInv' /\ [Abstract!Next]_(Abstract!vars)
  BY StepHolds
<1>3. QED
  BY <1>1, <1>2, PTL DEF MapSpec, ImplementsMap, Abstract!Spec
=============================================================================
