-------------------------- MODULE PeerHandleServer --------------------------
(***************************************************************************)
(* The accepting side and the life of the process: peer_handle_server, the *)
(* sessions it accepts and their map, main, the signal handler and the     *)
(* thread that ends the process (src/main.cpp).                            *)
(*                                                                         *)
(* One async_accept is outstanding, or one accept thread runs its handler, *)
(* which takes an io_service for the next session: get_io_service is       *)
(* called without a lock (IoServiceProvide) and relies on that.  A session *)
(* is handled by the one thread of its io_service.                         *)
(*                                                                         *)
(* Workers are seen only as in task_base::work or ended (TaskQueue has the *)
(* loop), reading only as far as the end of a connection (SessionBase).    *)
(* No servers are in the server list here, so the heart beat thread takes  *)
(* no io_service; with them get_io_service is called by several threads.   *)
(* The listening socket, clients and signals are external.                 *)
(***************************************************************************)
EXTENDS IoServiceProvide, Sequences, FiniteSets

CONSTANTS Main,            \* the main thread; the other Callers run accepts
          Workers,         \* threads that run task_base::work
          Addresses,       \* addresses clients connect from
          MaxConnections,  \* bound of the model: connections made
          MaxErrors        \* bound of the model: accepts that fail

ASSUME ServerAssumption ==
  /\ Main \in Callers
  /\ MaxConnections \in Nat /\ MaxErrors \in Nat

AcceptThreads == Callers \ {Main}
Connections == 1..MaxConnections
IoServices == 0..(PoolSize - 1)

VARIABLES
  at,         \* where main and each accept thread is
  hand,       \* the connection an accept handler has in hand, 0 for none
  turns,      \* io_services main has taken
  armed,      \* an async_accept is outstanding
  target,     \* the io_service of the session it will fill
  queue,      \* connections in the listen queue
  client,     \* per connection: "none", "up", "fin", "reset"
  addr,       \* the address it comes from
  sess,       \* its session: "none", "opened", "reading", "closing", "closed"
  io,         \* the io_service of its session
  map_,       \* __PEER_MAP: the session under each address, 0 for none
  errors,     \* accepts that have failed
  acceptStop, \* the accept io_service has been stopped
  ioThread,   \* per io_service, its thread: "none", "running", "ended"
  ioStop,     \* the io_services that have been stopped
  signal,     \* "none", "pending", "handled"
  stop_,      \* system_exst_thread::stop_
  exiter,     \* where the exit thread is
  taskStop,   \* task_base::stop_
  worker,     \* "in work" or "ended"
  process     \* "up", "terminated" by an exception, "exited"

acceptVars == <<at, hand, turns, armed, target, errors>>
sessionVars == <<queue, client, addr, sess, io, map_>>
lifeVars == <<acceptStop, ioThread, ioStop, signal, stop_, exiter, taskStop, worker, process>>
serverVars == <<vars, acceptVars, sessionVars, lifeVars>>

ServerInit ==
  /\ Init
  /\ at = [c \in Callers |-> IF c = Main THEN "get" ELSE "none"]
  /\ hand = [c \in Callers |-> 0]
  /\ turns = 0 /\ armed = FALSE /\ target = 0 /\ errors = 0
  /\ queue = <<>>
  /\ client = [n \in Connections |-> "none"]
  /\ addr \in [Connections -> Addresses]
  /\ sess = [n \in Connections |-> "none"]
  /\ io = [n \in Connections |-> 0]
  /\ map_ = [a \in Addresses |-> 0]
  /\ acceptStop = FALSE
  /\ ioThread = [i \in IoServices |-> "none"] /\ ioStop = {}
  /\ signal = "none" /\ stop_ = FALSE
  /\ exiter = "none" /\ taskStop = FALSE
  /\ worker = [w \in Workers |-> "in work"]
  /\ process = "up"

----------------------------------------------------------------------------
(* get_io_service, and the accept it is called for.                         *)

\* A step of c inside get_io_service.
GetIoService(c) ==
  /\ at[c] = "get"
  /\ Index(c) \/ Load(c) \/ Store(c) \/ Compare(c) \/ Reset(c)

Returns(c) == pc'[c] = "index"

\* Fault: the io_service is looked up again.
AsyncAcceptNext(c) ==
  /\ armed' = TRUE
  /\ target' = next_io_service_

\* async_accept into a session of the io_service c has got.
AsyncAccept(c) ==
  /\ armed' = TRUE
  /\ target' = got[c]

\* main takes an io_service for the signals, one in the constructor of
\* peer_base, which nobody uses, and one for the first start_accept.
MainTakesIoService ==
  /\ GetIoService(Main)
  /\ IF Returns(Main)
       THEN /\ turns' = turns + 1
            /\ IF turns' = 3
                 THEN AsyncAccept(Main) /\ at' = [at EXCEPT ![Main] = "start"]
                 ELSE UNCHANGED <<armed, target, at>>
       ELSE UNCHANGED <<turns, armed, target, at>>
  /\ UNCHANGED <<hand, errors, sessionVars, lifeVars>>

\* start_accept in the handler, which then returns.
StartAccept(t) ==
  /\ GetIoService(t)
  /\ IF Returns(t)
       THEN AsyncAccept(t) /\ at' = [at EXCEPT ![t] = "idle"]
       ELSE UNCHANGED <<armed, target, at>>
  /\ UNCHANGED <<hand, turns, errors, sessionVars, lifeVars>>

\* handle_accept without error, entered by thread t.
HandleAccept(t) ==
  /\ at[t] = "idle" /\ ~acceptStop
  /\ armed /\ queue # <<>>
  /\ armed' = FALSE
  /\ queue' = Tail(queue)
  /\ io' = [io EXCEPT ![Head(queue)] = target]
  /\ hand' = [hand EXCEPT ![t] = Head(queue)]
  /\ at' = [at EXCEPT ![t] = "open"]
  /\ UNCHANGED <<vars, turns, target, errors, client, addr, sess, map_, lifeVars>>

\* Fault: an error ends the chain of accepts.
HandleAcceptErrorReturns(t) ==
  /\ at[t] = "idle" /\ ~acceptStop
  /\ armed /\ errors < MaxErrors
  /\ armed' = FALSE
  /\ errors' = errors + 1
  /\ UNCHANGED <<vars, at, hand, turns, target, sessionVars, lifeVars>>

\* handle_accept with an error: logged, and the next accept is started.
HandleAcceptError(t) ==
  /\ at[t] = "idle" /\ ~acceptStop
  /\ armed /\ errors < MaxErrors
  /\ armed' = FALSE
  /\ errors' = errors + 1
  /\ at' = [at EXCEPT ![t] = "get"]
  /\ UNCHANGED <<vars, hand, turns, target, sessionVars, lifeVars>>

\* session_base::start, server_session::open, peer_handle_map::set: a session
\* of the same address is replaced.
Open(t) ==
  LET n == hand[t] IN
  /\ at[t] = "open" /\ client[n] # "reset"
  /\ map_' = [map_ EXCEPT ![addr[n]] = n]
  /\ sess' = [sess EXCEPT ![n] = "opened"]
  /\ at' = [at EXCEPT ![t] = "arm"]
  /\ UNCHANGED <<vars, hand, turns, armed, target, errors, queue, client, addr, io, lifeVars>>

\* remote_endpoint throws when the client is gone by now; nobody catches it
\* on an accept thread.
OpenThrows(t) ==
  /\ at[t] = "open" /\ client[hand[t]] = "reset"
  /\ process' = "terminated"
  /\ UNCHANGED <<vars, acceptVars, sessionVars, acceptStop, ioThread, ioStop, signal,
                 stop_, exiter, taskStop, worker>>

\* session_base::start: the first header read; then start_accept.
ArmRead(t) ==
  /\ at[t] = "arm"
  /\ sess' = [sess EXCEPT ![hand[t]] = "reading"]
  /\ hand' = [hand EXCEPT ![t] = 0]
  /\ at' = [at EXCEPT ![t] = "get"]
  /\ UNCHANGED <<vars, turns, armed, target, errors, queue, client, addr, io, map_, lifeVars>>

\* An accept thread leaves io_service::run.
AcceptThreadEnds(t) ==
  /\ at[t] = "idle" /\ acceptStop
  /\ at' = [at EXCEPT ![t] = "ended"]
  /\ UNCHANGED <<vars, hand, turns, armed, target, errors, sessionVars, lifeVars>>

----------------------------------------------------------------------------
(* The threads of the io_services.                                          *)

\* The thread of io_service i is inside a handler.
Handling(i) == \E n \in Connections : sess[n] = "closing" /\ io[n] = i

CanHandle(i) == ioThread[i] = "running" /\ i \notin ioStop /\ ~Handling(i)

\* The outstanding read ends with an error; session_base::close shuts the
\* socket down.
ReadFails(n) ==
  /\ sess[n] = "reading" /\ client[n] \in {"fin", "reset"}
  /\ CanHandle(io[n])
  /\ sess' = [sess EXCEPT ![n] = "closing"]
  /\ UNCHANGED <<vars, acceptVars, queue, client, addr, io, map_, lifeVars>>

\* Fault: the entry is not erased.
OnCloseKeeps(n) ==
  /\ sess[n] = "closing"
  /\ sess' = [sess EXCEPT ![n] = "closed"]
  /\ UNCHANGED <<vars, acceptVars, queue, client, addr, io, map_, lifeVars>>

\* session_base::on_close: the entry under the session's id is erased, also
\* when it is another session's by now.
OnClose(n) ==
  /\ sess[n] = "closing"
  /\ sess' = [sess EXCEPT ![n] = "closed"]
  /\ map_' = [map_ EXCEPT ![addr[n]] = 0]
  /\ UNCHANGED <<vars, acceptVars, queue, client, addr, io, lifeVars>>

\* The handler of the signals; the first get_io_service gave io_service 0.
HandleSignal ==
  /\ signal = "pending" /\ CanHandle(0)
  /\ signal' = "handled"
  /\ stop_' = TRUE
  /\ UNCHANGED <<vars, acceptVars, sessionVars, acceptStop, ioThread, ioStop, exiter,
                 taskStop, worker, process>>

\* A stopped io_service lets its thread go.
IoThreadEnds(i) ==
  /\ ioThread[i] = "running" /\ i \in ioStop /\ ~Handling(i)
  /\ ioThread' = [ioThread EXCEPT ![i] = "ended"]
  /\ UNCHANGED <<vars, acceptVars, sessionVars, acceptStop, ioStop, signal, stop_, exiter,
                 taskStop, worker, process>>

----------------------------------------------------------------------------
(* main, behind the constructor of peer_handle_server.                      *)

\* The exit thread is created, then peer_handle_server::run.
MainStarts ==
  /\ at[Main] = "start"
  /\ exiter' = "poll"
  /\ at' = [c \in Callers |-> IF c = Main THEN "run" ELSE "idle"]
  /\ UNCHANGED <<vars, hand, turns, armed, target, errors, sessionVars, acceptStop,
                 ioThread, ioStop, signal, stop_, taskStop, worker, process>>

\* io_service_provide::run: one thread for each io_service, in order.
MainRunsIo(i) ==
  /\ at[Main] = "run"
  /\ ioThread[i] = "none" /\ \A j \in IoServices : j < i => ioThread[j] # "none"
  /\ ioThread' = [ioThread EXCEPT ![i] = "running"]
  /\ at' = [at EXCEPT ![Main] = IF i = PoolSize - 1 THEN "join" ELSE "run"]
  /\ UNCHANGED <<vars, hand, turns, armed, target, errors, sessionVars, acceptStop,
                 ioStop, signal, stop_, exiter, taskStop, worker, process>>

\* server->join; heart_thread.join, which is next, has no end.
MainJoins ==
  /\ at[Main] = "join"
  /\ \A t \in AcceptThreads : at[t] = "ended"
  /\ at' = [at EXCEPT ![Main] = "heart"]
  /\ UNCHANGED <<vars, hand, turns, armed, target, errors, sessionVars, lifeVars>>

----------------------------------------------------------------------------
(* The exit thread: system_exst_thread::run, peer_handle_server::stop and   *)
(* io_service_provide::stop.                                                *)

ExiterGoes(from, to) == exiter = from /\ exiter' = to

\* The poll sees stop_, and close_all empties the map of clients.
SeeStop ==
  /\ stop_ /\ ExiterGoes("poll", "stop accept")
  /\ UNCHANGED <<vars, acceptVars, sessionVars, acceptStop, ioThread, ioStop, signal, stop_,
                 taskStop, worker, process>>

\* peer_handle_server::stop: the accept io_service.
StopAccept ==
  /\ ExiterGoes("stop accept", "stop io")
  /\ acceptStop' = TRUE
  /\ UNCHANGED <<vars, acceptVars, sessionVars, ioThread, ioStop, signal, stop_, taskStop,
                 worker, process>>

\* Fault: the loop ends before the last io_service.
StopIoShort(i) ==
  /\ \A j \in IoServices : j < i => j \in ioStop
  /\ i \notin ioStop
  /\ ExiterGoes("stop io", IF i = PoolSize - 2 THEN "stop task" ELSE "stop io")
  /\ ioStop' = ioStop \cup {i}
  /\ UNCHANGED <<vars, acceptVars, sessionVars, acceptStop, ioThread, signal, stop_, taskStop,
                 worker, process>>

\* io_services_[i]->stop()
StopIo(i) ==
  /\ \A j \in IoServices : j < i => j \in ioStop
  /\ i \notin ioStop
  /\ ExiterGoes("stop io", IF i = PoolSize - 1 THEN "stop task" ELSE "stop io")
  /\ ioStop' = ioStop \cup {i}
  /\ UNCHANGED <<vars, acceptVars, sessionVars, acceptStop, ioThread, signal, stop_, taskStop,
                 worker, process>>

\* session_task::stop, notifiy_all, interrupt_all.
StopTask ==
  /\ ExiterGoes("stop task", "join task")
  /\ taskStop' = TRUE
  /\ UNCHANGED <<vars, acceptVars, sessionVars, acceptStop, ioThread, ioStop, signal, stop_,
                 worker, process>>

\* Fault: the workers are not waited for.
JoinTaskNot ==
  /\ ExiterGoes("join task", "join io")
  /\ UNCHANGED <<vars, acceptVars, sessionVars, acceptStop, ioThread, ioStop, signal, stop_,
                 taskStop, worker, process>>

\* task_.join_all
JoinTask ==
  /\ \A w \in Workers : worker[w] = "ended"
  /\ ExiterGoes("join task", "join io")
  /\ UNCHANGED <<vars, acceptVars, sessionVars, acceptStop, ioThread, ioStop, signal, stop_,
                 taskStop, worker, process>>

\* io_service_cc_.join_all: the threads that main has created by now.
JoinIo ==
  /\ \A i \in IoServices : ioThread[i] # "running"
  /\ ExiterGoes("join io", "finalize")
  /\ UNCHANGED <<vars, acceptVars, sessionVars, acceptStop, ioThread, ioStop, signal, stop_,
                 taskStop, worker, process>>

\* Py_Finalize has run; exit(1).
Exit ==
  /\ ExiterGoes("finalize", "exit")
  /\ process' = "exited"
  /\ UNCHANGED <<vars, acceptVars, sessionVars, acceptStop, ioThread, ioStop, signal, stop_,
                 taskStop, worker>>

----------------------------------------------------------------------------
(* Workers, clients and signals.                                            *)

\* A worker leaves its loop, when it is done with the request it has, if any;
\* one that slips past stop_ (TaskQueue) is in its loop a little longer.
WorkEnds(w) ==
  /\ worker[w] = "in work" /\ taskStop
  /\ worker' = [worker EXCEPT ![w] = "ended"]
  /\ UNCHANGED <<vars, acceptVars, sessionVars, acceptStop, ioThread, ioStop, signal, stop_,
                 exiter, taskStop, process>>

\* A client connects; its address is free again once it has left.
Connect(n) ==
  /\ turns = 3 /\ client[n] = "none"
  /\ \A m \in Connections : m < n => client[m] # "none"
  /\ \A m \in Connections : addr[m] = addr[n] => client[m] # "up"
  /\ client' = [client EXCEPT ![n] = "up"]
  /\ queue' = Append(queue, n)
  /\ UNCHANGED <<vars, acceptVars, addr, sess, io, map_, lifeVars>>

Leave(n) ==
  /\ client[n] = "up"
  /\ \E how \in {"fin", "reset"} : client' = [client EXCEPT ![n] = how]
  /\ UNCHANGED <<vars, acceptVars, queue, addr, sess, io, map_, lifeVars>>

\* A signal of the set; before the set is made it would end the process.
Signal ==
  /\ turns > 0 /\ signal = "none"
  /\ signal' = "pending"
  /\ UNCHANGED <<vars, acceptVars, sessionVars, acceptStop, ioThread, ioStop, stop_, exiter,
                 taskStop, worker, process>>

----------------------------------------------------------------------------

MainStep == MainTakesIoService \/ MainStarts \/ (\E i \in IoServices : MainRunsIo(i)) \/ MainJoins

AcceptStep(t) == StartAccept(t) \/ Open(t) \/ OpenThrows(t) \/ ArmRead(t) \/ AcceptThreadEnds(t)

IoStep(i) ==
  \/ \E n \in Connections : io[n] = i /\ (ReadFails(n) \/ OnClose(n))
  \/ i = 0 /\ HandleSignal
  \/ IoThreadEnds(i)

ExitStep ==
  \/ SeeStop \/ StopAccept \/ (\E i \in IoServices : StopIo(i)) \/ StopTask
  \/ JoinTask \/ JoinIo \/ Exit

ServerNext ==
  /\ process = "up"
  /\ \/ MainStep \/ ExitStep
     \/ \E t \in AcceptThreads : AcceptStep(t) \/ HandleAccept(t) \/ HandleAcceptError(t)
     \/ \E i \in IoServices : IoStep(i)
     \/ \E w \in Workers : WorkEnds(w)
     \/ \E n \in Connections : Connect(n) \/ Leave(n)
     \/ Signal

\* Every thread that can go on goes on.  At most one accept thread is in a
\* handler, so that one condition serves them all; a client in the queue is
\* accepted by some thread.
ServerFairness ==
  LET Up(A) == process = "up" /\ A IN
  /\ WF_serverVars(Up(MainStep)) /\ WF_serverVars(Up(ExitStep))
  /\ WF_serverVars(Up(\E t \in AcceptThreads : AcceptStep(t) \/ HandleAccept(t)))
  /\ \A i \in IoServices : WF_serverVars(Up(IoStep(i)))
  /\ \A w \in Workers : WF_serverVars(Up(WorkEnds(w)))

ServerSpec == ServerInit /\ [][ServerNext]_serverVars /\ ServerFairness

----------------------------------------------------------------------------
(* Properties.                                                              *)

\* The types of what the accept threads, the sessions and the life cycle use.
ServerTypeOK ==
  /\ at \in [Callers -> {"none", "get", "start", "run", "join", "heart", "idle", "open",
                         "arm", "ended"}]
  /\ hand \in [Callers -> 0..MaxConnections]
  /\ turns \in 0..3 /\ armed \in BOOLEAN /\ target \in IoServices
  /\ errors \in 0..MaxErrors
  /\ queue \in Seq(Connections)
  /\ client \in [Connections -> {"none", "up", "fin", "reset"}]
  /\ addr \in [Connections -> Addresses]
  /\ sess \in [Connections -> {"none", "opened", "reading", "closing", "closed"}]
  /\ io \in [Connections -> IoServices]
  /\ map_ \in [Addresses -> 0..MaxConnections]
  /\ ioThread \in [IoServices -> {"none", "running", "ended"}] /\ ioStop \subseteq IoServices
  /\ worker \in [Workers -> {"in work", "ended"}]

\* The accept threads inside handle_accept.
InHandler == {t \in AcceptThreads : at[t] \in {"open", "arm", "get"}}

\* From the constructor on there is exactly one accept at any time, either
\* outstanding or being handled by exactly one of the accept threads, and no
\* accept is lost to an error.  Without that the server would stop accepting
\* or two threads would be in get_io_service.
AcceptChain ==
  turns = 3 =>
    \/ armed /\ InHandler = {}
    \/ ~armed /\ \E t \in AcceptThreads : InHandler = {t}

\* The map of accepted sessions holds no session that is over: an entry is of
\* a session of that address that has not been closed, although sessions are
\* replaced and erased by id alone.
EntryLive ==
  \A a \in Addresses : map_[a] # 0 =>
    addr[map_[a]] = a /\ sess[map_[a]] \in {"opened", "reading", "closing"}

\* When Py_Finalize runs, no worker is left that might be in Python and no
\* thread of the io_services is in a handler, though main may still be
\* creating those threads.
FinalizeAlone ==
  exiter \in {"finalize", "exit"} =>
    /\ \A w \in Workers : worker[w] = "ended"
    /\ \A i \in IoServices : ~Handling(i)

Gone == process # "up" \/ acceptStop

\* A client that connects gets a session, whatever accepts fail before and
\* after, unless it resets the connection or the process is being stopped.
ClientServed ==
  \A n \in Connections :
    client[n] = "up" ~> (sess[n] # "none" \/ client[n] = "reset" \/ Gone)

\* When all clients have left, the map of sessions becomes empty: none stays
\* in it for ever, unless a client comes or the process is being stopped.
MapDrains ==
  (\A n \in Connections : client[n] # "up") ~>
    (\/ \A a \in Addresses : map_[a] = 0
     \/ \E n \in Connections : client[n] = "up"
     \/ stop_ \/ process # "up")

\* A signal ends the process, however accepts, sessions and workers are busy.
SignalExits == signal = "pending" ~> process # "up"
=============================================================================
