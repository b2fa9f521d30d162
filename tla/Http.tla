-------------------------------- MODULE Http --------------------------------
(* HTTP in both directions: http_handler, which libmicrohttpd calls on the *)
(* thread of a connection, several times for one request; and the calls    *)
(* that these threads and those of the pool make through libcurl to        *)
(* core-metadata, core-data and the log service.  The correlation id of a  *)
(* request is kept in a thread-local variable and goes out with each call  *)
(* that is made for the request.                                           *)
EXTENDS Null, Integers, Sequences, SequencesExt, FiniteSets

CONSTANTS
  Conn,         \* threads of connections, each serving one request after the other
  PoolThread,   \* threads of the pool
  Main,         \* the thread that starts the service and then is the application's
  Registered,   \* the handlers that the service registers, in order
  ClientRequest, \* what clients may ask: [method, url, crlid, body], the body in chunks
  JobCalls,     \* the calls that the jobs of the pool make, for each kind of job
  StartCalls,   \* the calls of the main thread before there is a server,
  AppCalls,     \* and afterwards, for the application
  SpareCalls,   \* calls that the SDK has and nobody makes
  BufferSize,   \* what libcurl asks of read_callback at once
  MaxTasks      \* bound on the requests and jobs

HttpClients ==
  (UNION {h.calls : h \in ToSet(Registered)}) \cup (UNION {JobCalls[j] : j \in DOMAIN JobCalls})
    \cup StartCalls \cup AppCalls \cup SpareCalls

(* The ids that are generated are numbers; no client comes up with one of  *)
(* them, and no caller puts an id among its own headers.                   *)
ASSUME HttpAssumptions ==
  /\ Conn \cap PoolThread = {} /\ Main \notin Conn \cup PoolThread
  /\ NULL \notin Nat /\ \A r \in ClientRequest : r.crlid \notin Nat
  /\ Registered \in Seq(ToSet(Registered))
  /\ {"doPost", "ae_runner"} \subseteq DOMAIN JobCalls /\ "none" \notin DOMAIN JobCalls
  /\ \A h \in ToSet(Registered) : h.job = NULL \/ h.job \in DOMAIN JobCalls
  /\ \A c \in HttpClients : /\ c.reqhdrs \in Seq(STRING \X STRING)
                         /\ \A i \in DOMAIN c.reqhdrs : c.reqhdrs[i][1] # "X-Correlation-ID"

VARIABLES
  handlers,     \* svr->handlers: [url, methods, calls, job], the newest first; or no server
  conn,         \* for each connection the request and how far it is
  jobs,         \* the queue of the pool
  pool,         \* the job of each thread of the pool
  localid,      \* the correlation id of each thread
  call,         \* the call that each thread makes
  stored,       \* the documents that the servers hold, by their path
  uuids,        \* number of ids that were generated
  tasks,        \* number of requests and jobs
  replied,      \* the request that the last step replied to, if it did
  reported      \* the call that the last step ended, and what was reported of it

httpVars == <<handlers, conn, jobs, pool, localid, call, stored, uuids, tasks, replied, reported>>

Thread == Conn \cup PoolThread \cup {Main}

Silent == replied' = NULL /\ reported' = NULL

----------------------------------------------------------------------------
(* The correlation id                                                      *)

edgex_device_get_crlid(t) == localid[t]

(* The id that was given, or a new one.                                    *)
edgex_device_alloc_crlid(t, id) ==
  IF id # NULL THEN /\ localid' = [localid EXCEPT ![t] = id]
                    /\ UNCHANGED uuids
  ELSE /\ uuids' = uuids + 1
       /\ localid' = [localid EXCEPT ![t] = uuids']

(* A defective variant: the id is kept.                                    *)
keep_crlid(t) == UNCHANGED localid

edgex_device_free_crlid(t) == localid' = [localid EXCEPT ![t] = NULL]

----------------------------------------------------------------------------
(* Outgoing calls.  A client is the request it makes and what it does with *)
(* the answer: "gives" is "document" (read from the answer), "text" (the   *)
(* answer as it is), "good" (whether it succeeded) or "nothing"; with      *)
(* none404 an answer that there is no such document is not an error.       *)

Client(verb, path, data, gives) ==
  [verb |-> verb, path |-> path, data |-> data, gives |-> gives, none404 |-> FALSE, keeps |-> TRUE,
   mime |-> "application/json", token |-> NULL, reqhdrs |-> <<>>]

edgex_metadata_client_get_deviceprofile(name) ==
  Client("GET", <<"deviceprofile", name>>, NULL, "document")

(* Without data the body is read from the standard input of the program,   *)
(* so the call lasts until that ends.                                      *)
edgex_metadata_client_set_device_opstate(id, state) ==
  Client("PUT", <<"device", id, "opstate", state>>, NULL, "nothing")

edgex_metadata_client_set_device_adminstate(id, state) ==
  Client("PUT", <<"device", id, "adminstate", state>>, NULL, "nothing")

edgex_metadata_client_create_deviceprofile(name, dp) ==
  Client("POST", <<"deviceprofile", name>>, dp, "text")

edgex_metadata_client_create_deviceprofile_file(name, file) ==
  [Client("POST", <<"deviceprofile", name>>, file, "text") EXCEPT !.mime = NULL]

edgex_metadata_client_get_deviceservice(name) ==
  [Client("GET", <<"deviceservice", name>>, NULL, "document") EXCEPT !.none404 = TRUE]

edgex_metadata_client_create_deviceservice(name, ds) ==
  Client("POST", <<"deviceservice", name>>, ds, "text")

edgex_metadata_client_get_devices(service) ==
  Client("GET", <<"device", "servicename", service>>, NULL, "document")

edgex_metadata_client_add_device(name, device) ==
  Client("POST", <<"device", name>>, device, "id")

edgex_metadata_client_get_device(id) == Client("GET", <<"device", id>>, NULL, "document")

edgex_metadata_client_get_device_byname(name) ==
  Client("GET", <<"device", name>>, NULL, "document")

edgex_metadata_client_update_device(name, device) ==
  Client("PUT", <<"device", name>>, device, "nothing")

edgex_metadata_client_delete_device(id) == Client("DELETE", <<"device", id>>, NULL, "nothing")

edgex_metadata_client_delete_device_byname(name) ==
  Client("DELETE", <<"device", name>>, NULL, "nothing")

edgex_metadata_client_get_addressable(name) ==
  [Client("GET", <<"addressable", name>>, NULL, "document") EXCEPT !.none404 = TRUE]

edgex_metadata_client_create_addressable(name, addressable) ==
  Client("POST", <<"addressable", name>>, addressable, "text")

edgex_metadata_client_update_addressable(name, addressable) ==
  Client("PUT", <<"addressable", name>>, addressable, "nothing")

edgex_metadata_client_delete_addressable(name) ==
  Client("DELETE", <<"addressable", name>>, NULL, "nothing")

edgex_metadata_client_ping == [Client("GET", <<"ping">>, NULL, "good") EXCEPT !.keeps = FALSE]

edgex_data_client_ping == [Client("GET", <<"ping">>, NULL, "good") EXCEPT !.keeps = FALSE]

edgex_data_client_add_event(event, encoding) ==
  [Client("POST", <<"event">>, event, "nothing") EXCEPT
     !.keeps = FALSE,
     !.mime = IF encoding = "CBOR" THEN "application/cbor" ELSE "application/json"]

edgex_data_client_add_valuedescriptor(name, descriptor) ==
  Client("POST", <<"valuedescriptor", name>>, descriptor, "text")

(* Only 202 counts as success.                                             *)
edgex_log_torest(message) ==
  [Client("POST", <<"logs">>, message, "good") EXCEPT !.keeps = FALSE]

----------------------------------------------------------------------------
(* rest.c                                                                  *)

edgex_add_hdr(slist, name, value) == Append(slist, <<name, value>>)

edgex_add_crlid_hdr(t, slist) ==
  LET id == edgex_device_get_crlid(t) IN
  IF id # NULL THEN edgex_add_hdr(slist, "X-Correlation-ID", id) ELSE slist

edgex_add_auth_hdr(c, slist) ==
  IF c.token # NULL THEN edgex_add_hdr(slist, "Authorization", c.token) ELSE slist

edgex_add_other_hdrs(c, slist) == slist \o c.reqhdrs

(* The call is made: what comes of it is up to the server and the network. *)
edgex_run_curl(t, c, body, slist_in) ==
  call' = [call EXCEPT ![t] =
             [client |-> c, body |-> body,
              headers |-> edgex_add_other_hdrs(c, edgex_add_crlid_hdr(t, edgex_add_auth_hdr(c, slist_in)))]]

(* libcurl fetches the body of a PUT piece by piece.                       *)
read_callback(data, offset) ==
  SubSeq(data, offset + 1,
         offset + (IF Len(data) - offset < BufferSize THEN Len(data) - offset ELSE BufferSize))

PutBody(data) ==
  LET from[offset \in 0..Len(data)] ==
        LET piece == read_callback(data, offset) IN
        IF piece = <<>> THEN <<>> ELSE piece \o from[offset + Len(piece)]
  IN from[0]

ContentType(c) == edgex_add_hdr(<<>>, "Content-Type", c.mime)

edgex_http_get(t, c) == c.verb = "GET" /\ edgex_run_curl(t, c, NULL, <<>>)

edgex_http_delete(t, c) == c.verb = "DELETE" /\ edgex_run_curl(t, c, NULL, <<>>)

edgex_http_post(t, c) ==
  c.verb = "POST" /\ c.mime = "application/json" /\ edgex_run_curl(t, c, c.data, ContentType(c))

edgex_http_postbin(t, c) ==
  /\ c.verb = "POST" /\ c.mime \notin {NULL, "application/json"}
  /\ edgex_run_curl(t, c, c.data, ContentType(c))

edgex_http_postfile(t, c) ==
  c.verb = "POST" /\ c.mime = NULL /\ edgex_run_curl(t, c, c.data, <<>>)

edgex_http_put(t, c) ==
  /\ c.verb = "PUT"
  /\ edgex_run_curl(t, c, IF c.data = NULL THEN NULL ELSE PutBody(c.data), ContentType(c))

Call(t, c) ==
  /\ call[t] = NULL
  /\ \/ edgex_http_get(t, c) \/ edgex_http_delete(t, c) \/ edgex_http_put(t, c)
     \/ edgex_http_post(t, c) \/ edgex_http_postbin(t, c) \/ edgex_http_postfile(t, c)

----------------------------------------------------------------------------
(* The servers.  A document arrives whole or in two pieces; the connection *)
(* may break before or after the request was done, and the server may be   *)
(* in trouble.                                                             *)

Document(path) == <<<<path, "begin">>, <<path, "end">>>>

(* What every caller of rest.c keeps to, and that NULL is not a sequence.  *)
WellMade(c) ==
  /\ c.verb \in {"GET", "DELETE"} => c.data = NULL
  /\ c.verb = "PUT" => c.data = NULL \/ c.data \in Seq(ToSet(c.data))
  /\ c.none404 => c.gives = "document"
  /\ c.gives = "document" => c.keeps
  /\ NULL \notin {Document(c.path), <<Document(c.path)[1]>>}

ASSUME ClientAssumptions == BufferSize \in Nat \ {0} /\ \A c \in HttpClients : WellMade(c)

(* Events and log entries are taken as often as they are sent.             *)
Collections == {<<"event">>, <<"logs">>}

Done(c) ==
  CASE c.path \in Collections \cup {<<"ping">>} -> TRUE
    [] c.verb = "POST" -> c.path \notin stored
    [] c.verb = "PUT" /\ Len(c.path) = 4 -> SubSeq(c.path, 1, 2) \in stored
    [] OTHER -> c.path \in stored

StatusOf(c) ==
  IF Done(c) THEN IF c.path = <<"logs">> THEN 202 ELSE 200
  ELSE IF c.verb = "POST" THEN 409 ELSE 404

Effect(c) ==
  IF ~Done(c) \/ c.path \in Collections THEN stored
  ELSE CASE c.verb = "POST" -> stored \cup {c.path}
         [] c.verb = "DELETE" -> stored \ {c.path}
         [] OTHER -> stored

Pieces(c) ==
  IF Done(c) THEN {<<Document(c.path)>>, <<<<Document(c.path)[1]>>, <<Document(c.path)[2]>>>>}
  ELSE {<<<<"error">>>>}

(* A piece is appended.                                                    *)
edgex_http_write_cb(buff, piece) == IF buff = NULL THEN piece ELSE buff \o piece

Received(pieces) == FoldLeft(edgex_http_write_cb, NULL, pieces)

Err(rc) ==
  CASE rc = 409 -> "conflict" [] rc \in 200..299 -> "ok" [] OTHER -> "error"

(* What the client says of the call: its error, and what it returns.       *)
Report(c, rc, pieces) ==
  LET buff == IF c.keeps THEN Received(pieces) ELSE NULL
      err == IF c.none404 /\ rc = 404 THEN "ok" ELSE Err(rc)
  IN
  [err |-> err,
   result |-> CASE c.gives = "document" /\ Err(rc) = "ok" -> buff
                [] c.gives = "text" \/ (c.gives = "id" /\ err = "ok") -> buff
                [] c.gives = "good" -> err = "ok" /\ (c.path = <<"logs">> => rc = 202)
                [] OTHER -> NULL]

(* The server does what it is asked, or not; the answer comes whole, or    *)
(* not at all; and the thread goes on with what it was doing.              *)
curl_easy_perform(t) ==
  /\ call[t] # NULL
  /\ call' = [call EXCEPT ![t] = NULL]
  /\ LET c == call[t].client
         Answer(rc, pieces, done) ==
           reported' = [client |-> c, rc |-> rc, done |-> done, report |-> Report(c, rc, pieces)]
     IN
     \/ /\ stored' = Effect(c)
        /\ \/ \E pieces \in Pieces(c) : Answer(StatusOf(c), pieces, Done(c))
           \/ Answer(0, <<>>, Done(c))
     \/ /\ UNCHANGED stored
        /\ Answer(500, <<<<"error">>>>, FALSE) \/ Answer(0, <<>>, FALSE)
  /\ UNCHANGED <<handlers, conn, jobs, pool, localid, uuids, tasks>> /\ replied' = NULL

----------------------------------------------------------------------------
(* rest-server.c                                                           *)

method_from_string(str) ==
  IF str \in {"GET", "POST", "PUT", "PATCH", "DELETE"} THEN str ELSE "UNKNOWN"

(* A defective variant: of each two slashes in a row one is left.          *)
normalizePairs(url) ==
  LET from[i \in 1..Len(url) + 1] ==
        IF i > Len(url) THEN <<>>
        ELSE <<url[i]>> \o from[IF i < Len(url) /\ url[i] = "/" /\ url[i + 1] = "/" THEN i + 2 ELSE i + 1]
  IN from[1]

(* Of slashes in a row one is left.                                        *)
normalizeUrl(url) ==
  FoldLeft(LAMBDA res, char : IF char = "/" /\ res # <<>> /\ Last(res) = "/" THEN res
                              ELSE Append(res, char), <<>>, url)

(* Handlers that read the service and its process, and make no calls.      *)
Handler(url, methods) == [url |-> url, methods |-> methods, calls |-> {}, job |-> NULL]
edgex_device_handler_metrics == Handler(<<"/", "metrics">>, {"GET"})
edgex_device_handler_config == Handler(<<"/", "config">>, {"GET"})
ping_handler == Handler(<<"/", "ping">>, {"GET"})

Handles(h, nurl) == IF Last(h.url) = "/" THEN IsPrefix(h.url, nurl) ELSE nurl = h.url

edgex_rest_server_create ==
  /\ handlers = NULL /\ call[Main] = NULL
  /\ handlers' = <<>>
  /\ UNCHANGED <<conn, jobs, pool, localid, call, stored, uuids, tasks>> /\ Silent

(* main registers the handlers one after the other, while requests come.   *)
edgex_rest_server_register_handler ==
  /\ handlers # NULL /\ Len(handlers) < Len(Registered)
  /\ handlers' = <<Registered[Len(handlers) + 1]>> \o handlers
  /\ UNCHANGED <<conn, jobs, pool, localid, call, stored, uuids, tasks>> /\ Silent

Free == [step |-> "free"]

(* A request comes in on a connection that has none.                       *)
Arrive(c) ==
  /\ handlers # NULL /\ conn[c].step = "free" /\ tasks < MaxTasks
  /\ \E r \in ClientRequest :
       conn' = [conn EXCEPT ![c] = [request |-> r, left |-> r.body, m_data |-> NULL,
                                    step |-> "first call", known |-> handlers, since |-> uuids]]
  /\ tasks' = tasks + 1
  /\ UNCHANGED <<handlers, jobs, pool, localid, call, stored, uuids>> /\ Silent

(* The client has gone before its request was complete: libmicrohttpd      *)
(* calls no more for it.                                                   *)
ClientGone(c) ==
  /\ conn[c].step \in {"first call", "upload"}
  /\ conn' = [conn EXCEPT ![c] = Free]
  /\ UNCHANGED <<handlers, jobs, pool, localid, call, stored, uuids, tasks>> /\ Silent

FirstCall(c) ==
  /\ conn[c].step = "first call"
  /\ conn' = [conn EXCEPT ![c].m_data = <<>>, ![c].step = "upload"]
  /\ UNCHANGED <<handlers, jobs, pool, localid, call, stored, uuids, tasks>> /\ Silent

UploadCall(c) ==
  /\ conn[c].step = "upload" /\ conn[c].left # <<>>
  /\ conn' = [conn EXCEPT ![c] = [conn[c] EXCEPT !.m_data = @ \o Head(conn[c].left), !.left = Tail(@)]]
  /\ UNCHANGED <<handlers, jobs, pool, localid, call, stored, uuids, tasks>> /\ Silent

(* The first of the handlers that handle a URL.                            *)
Chosen(nurl) == {handlers[i] : i \in {i \in DOMAIN handlers :
                   Handles(handlers[i], nurl) /\ \A j \in 1..(i - 1) : ~Handles(handlers[j], nurl)}}

(* The handler that is called, with what, or the status without one.       *)
Dispatch(r, m_data) ==
  LET method == method_from_string(r.method)
      nurl == normalizeUrl(r.url)
      Without(status) == [status |-> status, handler |-> NULL]
      Called(h) == [status |-> "the handler's", handler |-> h, method |-> method, data |-> m_data,
                    rest |-> SubSeq(nurl, Len(h.url) + 1, Len(nurl))]
  IN
  IF r.url \in {<<>>, <<"/">>} THEN {Without(IF method = "GET" THEN 200 ELSE 405)}
  ELSE IF Chosen(nurl) = {} THEN {Without(404)}
  ELSE {IF method \in h.methods THEN Called(h) ELSE Without(405) : h \in Chosen(nurl)}

LastCall(c) ==
  /\ conn[c].step = "upload" /\ conn[c].left = <<>>
  /\ edgex_device_alloc_crlid(c, conn[c].request.crlid)
  /\ \E to \in Dispatch(conn[c].request, conn[c].m_data) :
     conn' = [conn EXCEPT ![c] =
                [request |-> conn[c].request, known |-> conn[c].known, since |-> conn[c].since,
                 step |-> IF to.handler = NULL THEN "reply" ELSE "handler", to |-> to]]
  /\ UNCHANGED <<handlers, jobs, pool, call, stored, tasks>> /\ Silent

(* The handler makes one of its calls, adds a job to the pool, or neither. *)
HandlerCalls(c) ==
  /\ conn[c].step = "handler"
  /\ conn' = [conn EXCEPT ![c].step = "reply"]
  /\ \/ /\ \E client \in conn[c].to.handler.calls : Call(c, client)
        /\ UNCHANGED jobs
     \/ /\ conn[c].to.handler.job # NULL
        /\ jobs' = Append(jobs, conn[c].to.handler.job)
        /\ UNCHANGED call
     \/ UNCHANGED <<call, jobs>>
  /\ UNCHANGED <<handlers, pool, localid, stored, uuids, tasks>> /\ Silent

Reply(c) ==
  /\ conn[c].step = "reply" /\ call[c] = NULL
  /\ replied' = conn[c]
  /\ conn' = [conn EXCEPT ![c] = Free]
  /\ edgex_device_free_crlid(c)
  /\ UNCHANGED <<handlers, jobs, pool, call, stored, uuids, tasks>> /\ reported' = NULL

----------------------------------------------------------------------------
(* The pool and the main thread                                            *)

(* A driver posts readings: of a device and a resource that exist, and     *)
(* unless an assertion fails, the event is left to the pool.               *)
edgex_device_post_readings ==
  /\ handlers # NULL /\ tasks < MaxTasks /\ tasks' = tasks + 1
  /\ \E dev, command, event \in BOOLEAN :
       jobs' = IF dev /\ command /\ event THEN Append(jobs, "doPost") ELSE jobs
  /\ UNCHANGED <<handlers, conn, pool, localid, call, stored, uuids>> /\ Silent

(* The scheduler has an autoevent run.                                     *)
Fire ==
  /\ handlers # NULL /\ tasks < MaxTasks /\ tasks' = tasks + 1
  /\ jobs' = Append(jobs, "ae_runner")
  /\ UNCHANGED <<handlers, conn, pool, localid, call, stored, uuids>> /\ Silent

NoJob == [job |-> "none", calls |-> FALSE]

(* A thread takes a job.  A runner of an autoevent gets an id of its own,  *)
(* unless it returns since the device is locked, disabled or unknown.      *)
TakeJob(w) ==
  /\ pool[w].job = "none" /\ jobs # <<>>
  /\ jobs' = Tail(jobs)
  /\ \E calls \in IF Head(jobs) = "ae_runner" THEN BOOLEAN ELSE {TRUE} :
       /\ pool' = [pool EXCEPT ![w] = [job |-> Head(jobs), calls |-> calls, since |-> uuids]]
       /\ IF Head(jobs) = "ae_runner" /\ calls THEN edgex_device_alloc_crlid(w, NULL)
          ELSE UNCHANGED <<localid, uuids>>
  /\ UNCHANGED <<handlers, conn, call, stored, tasks>> /\ Silent

JobCallsOut(w) ==
  /\ pool[w].calls
  /\ \E client \in JobCalls[pool[w].job] : Call(w, client)
  /\ pool' = [pool EXCEPT ![w].calls = FALSE]
  /\ UNCHANGED <<handlers, conn, jobs, localid, stored, uuids, tasks>> /\ Silent

EndJob(w) ==
  /\ pool[w].job # "none" /\ call[w] = NULL /\ (pool[w].job = "doPost" => ~pool[w].calls)
  /\ pool' = [pool EXCEPT ![w] = NoJob]
  /\ IF localid[w] # NULL /\ pool[w].job = "ae_runner" THEN edgex_device_free_crlid(w)
     ELSE UNCHANGED localid
  /\ UNCHANGED <<handlers, conn, jobs, call, stored, uuids, tasks>> /\ Silent

MainCallsOut ==
  /\ tasks < MaxTasks /\ tasks' = tasks + 1
  /\ \E client \in IF handlers = NULL THEN StartCalls ELSE AppCalls \cup SpareCalls : Call(Main, client)
  /\ UNCHANGED <<handlers, conn, jobs, pool, localid, stored, uuids>> /\ Silent

----------------------------------------------------------------------------
HttpInit ==
  /\ handlers = NULL /\ conn = [c \in Conn |-> Free]
  /\ jobs = <<>> /\ pool = [w \in PoolThread |-> NoJob]
  /\ localid = [t \in Thread |-> NULL] /\ call = [t \in Thread |-> NULL]
  /\ stored = {} /\ uuids = 0 /\ tasks = 0
  /\ replied = NULL /\ reported = NULL

HttpNext ==
  \/ edgex_rest_server_create \/ edgex_rest_server_register_handler \/ edgex_device_post_readings \/ Fire
  \/ MainCallsOut
  \/ \E c \in Conn : Arrive(c) \/ ClientGone(c) \/ FirstCall(c) \/ UploadCall(c) \/ LastCall(c)
                     \/ HandlerCalls(c) \/ Reply(c)
  \/ \E w \in PoolThread : TakeJob(w) \/ JobCallsOut(w) \/ EndJob(w)
  \/ \E t \in Thread : curl_easy_perform(t)

HttpSpec == HttpInit /\ [][HttpNext]_httpVars

----------------------------------------------------------------------------
(* Properties                                                              *)

(* The id that the task of a thread has been given, if any.                *)
IdOf(slist) == {h[2] : h \in {h \in ToSet(slist) : h[1] = "X-Correlation-ID"}}

(* Calls for a request carry its id, those for a request without id or for *)
(* an autoevent one that was made for it, and the others none; and no id   *)
(* is on the calls of two tasks.                                           *)
Correlated(t) ==
  LET ids == IdOf(call[t].headers)
      Own(since) == \E id \in (since + 1)..uuids :
                      ids = {id} /\ \A u \in Thread \ {t} : call[u] # NULL => id \notin IdOf(call[u].headers)
  IN
  IF t \in Conn
  THEN IF conn[t].request.crlid # NULL THEN ids = {conn[t].request.crlid} ELSE Own(conn[t].since)
  ELSE IF t \in PoolThread /\ pool[t].job = "ae_runner" THEN Own(pool[t].since)
  ELSE ids = {}

(* What a client reports is true of the server: success of a change means  *)
(* that it was made with the body that was given, a conflict that it was   *)
(* not, and a document is one the server has, whole; that there is none is *)
(* said only if there is none.                                             *)
Truthful(c, rc, done, report) ==
  /\ report.err = "ok" /\ ~(c.none404 /\ report.result = NULL) => done
  /\ report.err = "conflict" => ~done
  /\ c.gives = "document" => report.result \in {NULL, Document(c.path)}
  /\ c.gives = "document" /\ report.err = "ok" /\ report.result = NULL => rc = 404
  /\ c.gives = "good" /\ report.result => done

(* Every call that is under way carries the id of its task and no other.   *)
CallsCorrelated == \A t \in Thread : call[t] # NULL => Correlated(t)

CallsSound ==
  /\ CallsCorrelated
  /\ \A t \in Thread : call[t] # NULL => call[t].body = call[t].client.data
  /\ reported # NULL => Truthful(reported.client, reported.rc, reported.done, reported.report)

(* The characters of a URL but for slashes that follow a slash.            *)
Simplified(url) ==
  LET kept == {i \in DOMAIN url : i > 1 /\ url[i] = "/" => url[i - 1] # "/"} IN
  [n \in 1..Cardinality(kept) |-> url[CHOOSE i \in kept : Cardinality({j \in kept : j <= i}) = n]]

(* A request reaches the handler that was registered for it when it came,  *)
(* with the whole of its body and nothing of another request's, if the     *)
(* handler takes its method; and no handler if there is none for it.       *)
RequestsServed ==
  replied # NULL =>
    LET r == replied.request
        to == replied.to
        For(hs) == {h \in ToSet(hs) : Handles(h, Simplified(r.url))}
    IN
    /\ to.handler # NULL =>
         /\ to.handler \in For(Registered) /\ r.method \in to.handler.methods
         /\ to.data = FlattenSeq(r.body) /\ to.handler.url \o to.rest = Simplified(r.url)
    /\ to.handler = NULL =>
         IF r.url \in {<<>>, <<"/">>} THEN to.status = 200 <=> r.method = "GET"
         ELSE IF to.status = 404 THEN For(replied.known) = {}
         ELSE to.status = 405 /\ \E h \in For(Registered) : r.method \notin h.methods
=============================================================================
