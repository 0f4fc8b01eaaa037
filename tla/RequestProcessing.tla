------------------------- MODULE RequestProcessing -------------------------
(***************************************************************************)
(* What becomes of a request: after_body_get puts it into the queue, a     *)
(* worker takes it, do_work (src/src/logic_deal_processing.cpp) chooses a  *)
(* responder by the command, the responder parses, asks an HTTP server,    *)
(* mongo or a Python function, and the reply is written to the session     *)
(* that holds the request's id in the client map by then.                  *)
(*                                                                         *)
(* A request is what the responders tell apart: the connection it came on, *)
(* its command, the outer ServiceRequest ("garbled", of a foreign service  *)
(* type, "bare" without payload, or "full") and the type of the packet in  *)
(* it (0: does not parse).  The JSON body of a push (command 6666) is      *)
(* "full" when it has all three fields.                                    *)
(*                                                                         *)
(* The queue's locking is in TaskQueue, the map's contents in ClientPool,  *)
(* what a session does with a message in SessionBase.  Here links come and *)
(* go at will.                                                             *)
(***************************************************************************)
EXTENDS Integers, Sequences

CONSTANTS Workers,         \* threads that run task_base::work
          Links,           \* ids of the client map: connections to servers
          Servers,         \* servers users are connected to
          ServerOf,        \* the server of each link
          Guests,          \* ids of accepted connections
          Caches,          \* what init_cache_map may leave a thread with
          Users,           \* numbers of the user sessions in the session cache
          task_queue_max,  \* configuration: size above which requests are marked
          Requests,        \* requests considered: [id, cmd, wrap, packet]
          MaxRequests      \* bound of the model: requests received

NoWorker == "no worker"

ASSUME RequestIdsAssumption ==
  /\ NoWorker \notin Workers
  /\ Links \cap Guests = {}
  /\ ServerOf \in [Links -> Servers]
  /\ Users \subseteq Nat
  /\ Caches \subseteq SUBSET {"sess", "mongo"}
ASSUME RequestsAssumption ==
  /\ Requests \subseteq [id : Links \cup Guests, cmd : Nat,
                         wrap : {"garbled", "foreign", "bare", "full"}, packet : Nat]
  /\ task_queue_max \in Nat /\ MaxRequests \in Nat

VARIABLES
  deque_,   \* task_base::deque_, requests by number
  req,      \* the requests received, in order
  fate,     \* how far each request has come
  links,    \* ids present in the client map
  pc,       \* where each worker is
  hand,     \* the request a worker has in hand, 0 for none
  cmd,      \* h.cmd as the worker sees it
  body,     \* the reply it has put together
  todo,     \* push: user sessions not yet written to, with their servers
  cache,    \* per thread: which of sess_cache_, mongo_client_cache_ is set
  gil,      \* the worker that holds the interpreter lock
  replies,  \* the replies written for each request
  found,    \* push: what the session cache answered
  pushes,   \* push: [user, to], one for every message written or missed
  crashed   \* the process is gone

vars == <<deque_, req, fate, links, pc, hand, cmd, body, todo, cache, gil,
          replies, found, pushes, crashed>>

workVars == <<pc, hand, cmd, body, todo>>
outVars == <<replies, found, pushes>>

\* A reply without a ServiceResponse in it; why is what the code logs.
NoBody(why) == [type |-> -1, data |-> why]

\* A ServiceResponse with a packet of this type, 0 for an empty one.
Packet(t, d) == [type |-> t, data |-> d]

NoUsers == <<>>
NoLink == "no link"

Init ==
  /\ deque_ = <<>> /\ req = <<>> /\ fate = <<>>
  /\ links = {}
  /\ pc = [w \in Workers |-> "starting"]
  /\ hand = [w \in Workers |-> 0]
  /\ cmd = [w \in Workers |-> 0]
  /\ body = [w \in Workers |-> NoBody("")]
  /\ todo = [w \in Workers |-> NoUsers]
  /\ cache = [w \in Workers |-> {}]
  /\ gil = NoWorker
  /\ replies = <<>> /\ found = <<>> /\ pushes = <<>>
  /\ crashed = FALSE

----------------------------------------------------------------------------
(* Requests arrive, links come and go.                                      *)

\* after_body_get: the answer to a heartbeat is dropped, the rest is queued.
AfterBodyGet(k) ==
  /\ Len(req) < MaxRequests /\ ~crashed
  /\ req' = Append(req, k)
  /\ IF k.cmd = 1
       THEN fate' = Append(fate, "ignored") /\ UNCHANGED deque_
       ELSE fate' = Append(fate, "waiting") /\ deque_' = Append(deque_, Len(req'))
  /\ replies' = Append(replies, <<>>)
  /\ found' = Append(found, NoUsers)
  /\ pushes' = Append(pushes, <<>>)
  /\ UNCHANGED <<links, workVars, cache, gil, crashed>>

\* A session is registered in the client map, or erased from it.
LinkChanges(l) ==
  /\ ~crashed
  /\ links' = IF l \in links THEN links \ {l} ELSE links \cup {l}
  /\ UNCHANGED <<deque_, req, fate, workVars, cache, gil, outVars, crashed>>

----------------------------------------------------------------------------
(* A worker takes a request.                                                *)

\* init_cache_map: what is out of reach is not set, and not tried again.
InitCacheMap(w) ==
  /\ pc[w] = "starting" /\ ~crashed
  /\ \E c \in Caches : cache' = [cache EXCEPT ![w] = c]
  /\ pc' = [pc EXCEPT ![w] = "try"]
  /\ UNCHANGED <<deque_, req, fate, links, hand, cmd, body, todo, gil, outVars, crashed>>

\* The front of the queue goes to w; c is the command it sees.
Take(w, c) ==
  /\ deque_' = Tail(deque_)
  /\ hand' = [hand EXCEPT ![w] = Head(deque_)]
  /\ cmd' = [cmd EXCEPT ![w] = c]
  /\ fate' = [fate EXCEPT ![Head(deque_)] = "taken"]
  /\ pc' = [pc EXCEPT ![w] = "parse"]
  /\ UNCHANGED <<req, links, body, todo, cache, gil, outVars, crashed>>

\* try_pop; full_queue_event overwrites the command of a request that was
\* taken from an overfull queue.
TryPop(w) ==
  /\ pc[w] = "try" /\ ~crashed
  /\ deque_ # <<>>
  /\ Take(w, IF Len(deque_) > task_queue_max THEN 1010 ELSE req[Head(deque_)].cmd)

TryPopEmpty(w) ==
  /\ pc[w] = "try" /\ ~crashed
  /\ deque_ = <<>>
  /\ pc' = [pc EXCEPT ![w] = "wait"]
  /\ UNCHANGED <<deque_, req, fate, links, hand, cmd, body, todo, cache, gil, outVars,
                 crashed>>

\* wait_and_pop, which does not look at the length.
WaitAndPop(w) ==
  /\ pc[w] = "wait" /\ ~crashed
  /\ deque_ # <<>>
  /\ Take(w, req[Head(deque_)].cmd)

\* w is done with its request, which ends as f.
Done(w, f) ==
  /\ fate' = [fate EXCEPT ![hand[w]] = f]
  /\ hand' = [hand EXCEPT ![w] = 0]
  /\ cmd' = [cmd EXCEPT ![w] = 0]
  /\ body' = [body EXCEPT ![w] = NoBody("")]
  /\ todo' = [todo EXCEPT ![w] = NoUsers]
  /\ pc' = [pc EXCEPT ![w] = "try"]

----------------------------------------------------------------------------
(* The responders.  What a parser may return, with the outside world's      *)
(* answer chosen: [status, type, data] of service_response_result and of    *)
(* the packet; every one of them is synchronous.                            *)

Result(s, t, d) == [status |-> s, type |-> t, data |-> d]

\* Fault: the type of the request is sent back.
DoRequestEcho(t) == t

\* do_reply_request, do_post_topic_request, do_public_service_request.
DoRequest(t) == t + 1

\* curl_base::Post or Get: the answer, or what has arrived of it at an error
\* or a timeout, possibly nothing; the status is only logged.
Curl == {"data", ""}

\* find_near, find_by_city: without a mongo client the text of an error that
\* is not reported as one.
GroupRequest(w, t) ==
  IF "mongo" \in cache[w]
    THEN {Result(0, t + 1, "data"), Result(-1, t + 1, "error")}
    ELSE {Result(0, t + 1, "connetion error")}

\* service_package_responser::parser
ServicePackage(w, t) ==
  IF t \in {21, 23, 25} THEN {Result(0, DoRequest(t), d) : d \in Curl}
  ELSE IF t \in {27, 29} THEN GroupRequest(w, t)
  ELSE {Result(0, 0, "")}

\* group_responser::parser: "!= 27 || != 29" holds of every type.
Group(w, t) ==
  IF t = 0 THEN {Result(-1, 0, "garbled")}
  ELSE IF t # 27 \/ t # 29 THEN {Result(-1, 0, "invalid")}
  ELSE GroupRequest(w, t)

\* python_func_service_responser::parser, when it does not call Python.
PythonRefused == {Result(0, 0, "")}

\* server_service_responser::parser, group_service_request_responser::parser:
\* the ServiceResponse is filled in only for status 0.
Wrapped(r) == IF r.status = 0 THEN Packet(r.type, r.data) ELSE NoBody(r.data)

InHand(w) == req[hand[w]]

Payload(w) == InHand(w).wrap = "full"

CallsPython(w) == cmd[w] = 8000 /\ Payload(w) /\ InHand(w).packet = 31

CallsMongo(w) ==
  /\ cmd[w] = 200 /\ Payload(w)
  /\ InHand(w).packet \in {27, 29}
  /\ "mongo" \in cache[w]

Results(w) ==
  IF cmd[w] = 200 THEN ServicePackage(w, InHand(w).packet)
  ELSE IF cmd[w] = 7818 THEN Group(w, InHand(w).packet)
  ELSE PythonRefused

Parsed(w) == IF Payload(w) THEN {Wrapped(r) : r \in Results(w)} ELSE {NoBody("garbled")}

\* do_work: parser of server_service_responser and of both instances of
\* group_service_request_responser, except for the call of Python.
Parse(w) ==
  /\ pc[w] = "parse" /\ ~crashed
  /\ cmd[w] \in {200, 7818, 8000} /\ ~CallsPython(w)
  /\ body' \in {[body EXCEPT ![w] = b] : b \in Parsed(w)}
  /\ pc' = [pc EXCEPT ![w] = "reply"]
  /\ UNCHANGED <<deque_, req, fate, links, hand, cmd, todo, cache, gil, outVars, crashed>>

\* do_work: what the mongo driver throws ends the request, not the worker.
ParseThrows(w) ==
  /\ pc[w] = "parse" /\ ~crashed
  /\ CallsMongo(w)
  /\ Done(w, "threw")
  /\ UNCHANGED <<deque_, req, links, cache, gil, outVars, crashed>>

\* do_work: service_package_busy_responser composes an answer and its
\* response sends nothing.
ParseBusy(w) ==
  /\ pc[w] = "parse" /\ ~crashed
  /\ cmd[w] = 1010
  /\ Done(w, "busy")
  /\ UNCHANGED <<deque_, req, links, cache, gil, outVars, crashed>>

\* do_work: no responder for the command.
ParseUnknown(w) ==
  /\ pc[w] = "parse" /\ ~crashed
  /\ cmd[w] \notin {200, 6666, 7818, 8000, 1010}
  /\ Done(w, "ignored")
  /\ UNCHANGED <<deque_, req, links, cache, gil, outVars, crashed>>

\* python_call_base::call: PYTHON_API_ENTER.
EnterPython(w) ==
  /\ pc[w] = "parse" /\ ~crashed
  /\ CallsPython(w)
  /\ gil = NoWorker
  /\ gil' = w
  /\ pc' = [pc EXCEPT ![w] = "python"]
  /\ UNCHANGED <<deque_, req, fate, links, hand, cmd, body, todo, cache, outVars, crashed>>

\* Fault: the interpreter lock is given back only after a normal return.
LeavePythonNormally(w, d) ==
  /\ gil' = IF d = "data" THEN NoWorker ELSE gil
  /\ body' = [body EXCEPT ![w] = Packet(32, d)]

\* The destructor of python_status_ensure runs whether the call returned a
\* text or threw; the exception becomes the text of the answer.
LeavePython(w, d) ==
  /\ gil' = NoWorker
  /\ body' = [body EXCEPT ![w] = Packet(32, d)]

PythonReturns(w) ==
  /\ pc[w] = "python" /\ ~crashed
  /\ \E d \in {"data", "service exception!"} : LeavePython(w, d)
  /\ pc' = [pc EXCEPT ![w] = "reply"]
  /\ UNCHANGED <<deque_, req, fate, links, hand, cmd, todo, cache, outVars, crashed>>

----------------------------------------------------------------------------
(* The reply.                                                               *)

\* Fault: any connection to the same server is taken, as for a push.
TargetAny(id) == {l \in links : id \in Links /\ ServerOf[l] = ServerOf[id]}

\* The session a reply goes to is the one registered under the request's id.
Target(id) == links \cap {id}

\* response, fix_dispatch_to_server: the command is counted up.
Reply(w) ==
  /\ pc[w] = "reply" /\ ~crashed
  /\ \E l \in Target(InHand(w).id) :
       replies' = [replies EXCEPT ![hand[w]] =
                     Append(@, [to |-> l, cmd |-> cmd[w] + 1, type |-> body[w].type,
                                data |-> body[w].data])]
  /\ Done(w, "replied")
  /\ UNCHANGED <<deque_, req, links, cache, gil, found, pushes, crashed>>

\* fix_dispatch_to_server: "can not get link info".
ReplyMissing(w) ==
  /\ pc[w] = "reply" /\ ~crashed
  /\ Target(InHand(w).id) = {}
  /\ Done(w, "no link")
  /\ UNCHANGED <<deque_, req, links, cache, gil, outVars, crashed>>

----------------------------------------------------------------------------
(* A push: server_service_response_responser, asynchronous, so that nothing *)
(* goes back to the sender.                                                 *)

\* A field is missing or not a string; or the body is a JSON array, where the
\* lookup of a field throws, and do_work catches it.
PushIncomplete(w) ==
  /\ pc[w] = "parse" /\ ~crashed
  /\ cmd[w] = 6666 /\ ~Payload(w)
  /\ \E f \in {"ignored", "threw"} : Done(w, f)
  /\ UNCHANGED <<deque_, req, links, cache, gil, outVars, crashed>>

\* The parser of a complete push is about to ask for the user's sessions.
PushAsks(w) ==
  /\ pc[w] = "parse" /\ ~crashed
  /\ cmd[w] = 6666 /\ Payload(w)

\* session_task::get_session goes through sess_cache_ untested: the process
\* ends if zookeeper was out of reach when this worker started.
PushCrashes(w) ==
  /\ PushAsks(w)
  /\ "sess" \notin cache[w]
  /\ crashed' = TRUE
  /\ UNCHANGED <<deque_, req, fate, links, workVars, cache, gil, outVars>>

\* The sessions a user may have, with their servers.
UserMaps == UNION {[S -> Servers] : S \in SUBSET Users}

\* get_session gives the user's sessions and their servers.
PushStarts(w) ==
  /\ PushAsks(w)
  /\ "sess" \in cache[w]
  /\ \E f \in UserMaps :
       /\ todo' = [todo EXCEPT ![w] = f]
       /\ found' = [found EXCEPT ![hand[w]] = f]
  /\ pc' = [pc EXCEPT ![w] = "push"]
  /\ UNCHANGED <<deque_, req, fate, links, hand, cmd, body, cache, gil, replies, pushes,
                 crashed>>

Least(S) == CHOOSE u \in S : \A v \in S : u <= v

\* peer_handle_map_for_client::get: any connection to the server (that
\* client_list_ has the ids of map_ is checked in ClientPool).
LinksTo(s) == {l \in links : ServerOf[l] = s}

\* Fault: the loop ends at the first server that is not connected.
RestStops(w, u) ==
  IF LinksTo(todo[w][u]) = {} THEN NoUsers
  ELSE [v \in DOMAIN todo[w] \ {u} |-> todo[w][v]]

\* The sessions left after u.
Rest(w, u) == [v \in DOMAIN todo[w] \ {u} |-> todo[w][v]]

\* One turn of the loop: dispatch_to_server, which warns and goes on when no
\* link is found.
PushOne(w) ==
  /\ pc[w] = "push" /\ ~crashed
  /\ DOMAIN todo[w] # {}
  /\ LET u == Least(DOMAIN todo[w])
         ls == LinksTo(todo[w][u])
     IN /\ \E l \in (IF ls = {} THEN {NoLink} ELSE ls) :
             pushes' = [pushes EXCEPT ![hand[w]] = Append(@, [user |-> u, to |-> l])]
        /\ todo' = [todo EXCEPT ![w] = Rest(w, u)]
  /\ UNCHANGED <<deque_, req, fate, links, pc, hand, cmd, body, cache, gil, replies, found,
                 crashed>>

PushEnds(w) ==
  /\ pc[w] = "push" /\ ~crashed
  /\ DOMAIN todo[w] = {}
  /\ Done(w, "pushed")
  /\ UNCHANGED <<deque_, req, links, cache, gil, outVars, crashed>>

----------------------------------------------------------------------------

WorkerStep(w) ==
  \/ InitCacheMap(w) \/ TryPop(w) \/ TryPopEmpty(w) \/ WaitAndPop(w)
  \/ Parse(w) \/ ParseThrows(w) \/ ParseBusy(w) \/ ParseUnknown(w)
  \/ EnterPython(w) \/ PythonReturns(w)
  \/ Reply(w) \/ ReplyMissing(w)
  \/ PushIncomplete(w) \/ PushCrashes(w) \/ PushStarts(w) \/ PushOne(w) \/ PushEnds(w)

\* Nothing happens after a crash.
Gone == crashed /\ UNCHANGED vars

Next ==
  \/ \E k \in Requests : AfterBodyGet(k)
  \/ \E l \in Links : LinkChanges(l)
  \/ \E w \in Workers : WorkerStep(w)
  \/ Gone

\* Workers are scheduled, calls to the outside end (curl has timeouts of 3
\* and 5 seconds; that the Python function returns is an assumption).
Fairness == \A w \in Workers : WF_vars(WorkerStep(w))

Spec == Init /\ [][Next]_vars /\ Fairness

----------------------------------------------------------------------------
(* Properties.                                                              *)

Fates == {"waiting", "taken", "ignored", "threw", "busy", "replied", "no link", "pushed"}

Types == {-1, 0, 22, 24, 26, 28, 30, 32}

Texts == {"", "data", "error", "connetion error", "garbled", "invalid",
          "service exception!"}

Bodies == [type : Types, data : Texts]

Answers == [to : Links, cmd : Nat, type : Types, data : Texts]

\* The types: every packet that is sent is of a response type.
TypeOK ==
  /\ deque_ \in Seq(1..Len(req))
  /\ req \in Seq(Requests)
  /\ fate \in Seq(Fates) /\ Len(fate) = Len(req)
  /\ links \subseteq Links
  /\ pc \in [Workers -> {"starting", "try", "wait", "parse", "python", "reply", "push"}]
  /\ hand \in [Workers -> 0..Len(req)]
  /\ cmd \in [Workers -> Nat]
  /\ body \in [Workers -> Bodies]
  /\ todo \in [Workers -> UserMaps]
  /\ cache \in [Workers -> SUBSET {"sess", "mongo"}]
  /\ gil \in Workers \cup {NoWorker}
  /\ crashed \in BOOLEAN
  /\ replies \in Seq(Seq(Answers)) /\ Len(replies) = Len(req)
  /\ found \in Seq(UserMaps) /\ Len(found) = Len(req)
  /\ pushes \in Seq(Seq([user : Users, to : Links \cup {NoLink}])) /\ Len(pushes) = Len(req)

\* A request gets at most one reply, on the connection it came from and with
\* the command after its own; a packet in it answers the packet asked about.
\* No overload mark, exception or change of links makes a worker mix up two
\* requests.
AnswerFits ==
  \A n \in 1..Len(req) :
    /\ Len(replies[n]) <= 1
    /\ replies[n] # <<>> =>
         LET r == replies[n][1] IN
         /\ fate[n] = "replied"
         /\ r.to = req[n].id
         /\ r.cmd = req[n].cmd + 1
         /\ r.type > 0 => r.type = req[n].packet + 1

\* When a push has ended each of the user's sessions has been tried once, over
\* a connection to its own server: a server that is not connected does not
\* keep the others from getting the message.
PushComplete ==
  \A n \in 1..Len(req) : fate[n] = "pushed" =>
    /\ {pushes[n][i].user : i \in 1..Len(pushes[n])} = DOMAIN found[n]
    /\ \A i, j \in 1..Len(pushes[n]) : i # j => pushes[n][i].user # pushes[n][j].user
    /\ \A i \in 1..Len(pushes[n]) : pushes[n][i].to # NoLink =>
         ServerOf[pushes[n][i].to] = found[n][pushes[n][i].user]

\* A request for one of the three services is answered, unless it was marked
\* busy, the mongo driver threw, the connection it came on is not there when
\* the answer is ready, or the process ended; in particular workers do not
\* wait for the interpreter lock for ever.
Answered ==
  \A n \in 1..MaxRequests :
    (n <= Len(req) /\ req[n].cmd \in {200, 7818, 8000})
      ~> (crashed \/ (n <= Len(req) /\ fate[n] \in {"replied", "busy", "threw", "no link"}))

\* A request turned away because the queue was too long is told so: the busy
\* responder composes "system service in busy" for it.
BusyTold ==
  \A n \in 1..Len(req) :
    fate[n] = "busy" /\ req[n].id \in links => replies[n] # <<>>
=============================================================================
