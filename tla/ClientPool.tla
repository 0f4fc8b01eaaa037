----------------------------- MODULE ClientPool -----------------------------
(***************************************************************************)
(* The pool of connections to the peer servers: peer_handle_map_for_client *)
(* (src/src/peer_handle_map.cpp), the client_session that registers and    *)
(* erases itself there, and the three threads that fill it: main at start  *)
(* (init_server_connection), the heart beat thread, and the zookeeper      *)
(* callback (servlist_callback).                                           *)
(*                                                                         *)
(* A slot is one id "server:<ip>:<port>:<i>", numbered server by server in *)
(* the order in which the loops visit them.  Each map operation holds the  *)
(* map's mutex and is one step; the check "is there a session under this   *)
(* id", the blocking connect with the entry into the map, the arming of    *)
(* the first read and the registration message are separate steps of a     *)
(* thread.  A session is dropped with its last shared_ptr.                 *)
(***************************************************************************)
EXTENDS Integers, FiniteSets

CONSTANTS
  NServers,       \* servers are 0..NServers-1, in the order of server_map_
  connect_count,  \* configuration: connections per server
  Resolvable,     \* servers whose address resolver.resolve accepts
  Contains,       \* <<a, b>>: the id of a is a substring of the ids of b
  NSessions,      \* bound of the model: client_session objects alive at once
  Threads,        \* which of "main", "heart", "zk" take part
  MaxLost,        \* bound of the model: connections lost
  MaxFaults,      \* bound of the model: connections lost and connects failed
  MaxCallbacks    \* bound of the model: changes of the server list

Servers == 0..(NServers - 1)
Slots == 0..(NServers * connect_count - 1)
Sessions == 1..NSessions
None == -1

\* Bound of the model: writes posted to a session and not yet run.  Further
\* ones would find the session in the same state.
MaxPosted == 1

ASSUME PoolAssumption ==
  /\ NServers \in Nat /\ connect_count \in Nat \ {0} /\ NSessions \in Nat
  /\ Resolvable \subseteq Servers /\ Contains \subseteq Servers \X Servers
  /\ Threads \subseteq {"main", "heart", "zk"} /\ "heart" \in Threads
  /\ MaxLost \in Nat /\ MaxFaults \in Nat /\ MaxCallbacks \in Nat

ServerOf(k) == k \div connect_count
SlotOf(s, i) == s * connect_count + i

VARIABLES
  map_,          \* peer_handle_map::map_ : slot -> session, None if absent
  client_list_,  \* how often an id occurs in its server's client_list_ vector
  sess,          \* the client_session objects
  server_map_,   \* configwrap::server_map_
  pc,            \* where each thread is
  at,            \* the slot its loop is at
  todo,          \* the servers its loop runs over
  conn,          \* the session it has connected and not yet let go of
  got,           \* what set returned to main: a slot, None for ""
  running,       \* the io_service threads run (after init_server_connection)
  losses,        \* connections lost so far
  failures,      \* connects failed so far
  callbacks      \* server list changes so far

vars == <<map_, client_list_, sess, server_map_, pc, at, todo, conn, got, running,
          losses, failures, callbacks>>

counters == <<losses, failures, callbacks>>

AllThreads == {"main", "heart", "zk"}

----------------------------------------------------------------------------
(* Sessions.                                                                *)

Free == [id |-> None, open |-> FALSE, lost |-> FALSE, reading |-> FALSE,
         writing |-> "idle", calls |-> 0]

\* A session whose socket is connected, with the id it has so far; nothing is
\* read yet and nothing posted.
Fresh(k) == [id |-> k, open |-> TRUE, lost |-> FALSE, reading |-> FALSE,
             writing |-> "idle", calls |-> 0]

\* The session r with one more write posted.
Posted(r) == [r EXCEPT !.calls = IF @ < MaxPosted THEN @ + 1 ELSE @]

\* Nothing refers to session x any more: neither the map m, a thread that
\* connects (c), an outstanding operation, nor a posted write.
Unreferenced(x, r, m, c) ==
  /\ \A k \in Slots : m[k] # x
  /\ \A t \in AllThreads : c[t] # x
  /\ ~r.reading /\ r.writing # "busy" /\ r.calls = 0

\* The sessions of f that still exist when the map is m and the threads hold c.
Collect(f, m, c) ==
  [x \in Sessions |-> IF Unreferenced(x, f[x], m, c) THEN Free ELSE f[x]]

Unused == {x \in Sessions : /\ sess[x] = Free
                            /\ \A k \in Slots : map_[k] # x
                            /\ \A t \in AllThreads : conn[t] # x}

\* The object a new session gets.
NewSession == CHOOSE x \in Unused : TRUE

----------------------------------------------------------------------------
(* Operations of the map.                                                   *)

\* Fault: the id is erased from the list without being looked for.
ErasedUnchecked(k) ==
  [map |-> [map_ EXCEPT ![k] = None],
   list |-> [client_list_ EXCEPT ![k] = @ - 1]]

\* Fault: only map_ is erased.
ErasedMapOnly(k) ==
  [map |-> [map_ EXCEPT ![k] = None], list |-> client_list_]

\* erase(server_id, id): by id, whoever is registered there.
Erased(k) ==
  [map |-> [map_ EXCEPT ![k] = None],
   list |-> [client_list_ EXCEPT ![k] = IF @ > 0 THEN @ - 1 ELSE 0]]

\* fix_set: the entry is overwritten; the id is moved to the end of the list.
FixSet(k, x) ==
  [map |-> [map_ EXCEPT ![k] = x],
   list |-> [client_list_ EXCEPT ![k] = IF @ > 0 THEN @ ELSE 1]]

\* find_matched: ids that contain the server's id.
find_matched(s) ==
  Cardinality({k \in Slots : map_[k] # None /\ <<s, ServerOf(k)>> \in Contains})

\* The slots below the count-th of server s that hold no session.
Holes(s, count) == {i \in 0..(count - 1) : map_[SlotOf(s, i)] = None}

\* Where set puts a session of server s, None if it returns "".
SetSlot(s) ==
  LET count == find_matched(s)
      holes == Holes(s, count)
  IN  CASE count >= connect_count -> None
        [] count < connect_count /\ map_[SlotOf(s, count)] = None -> SlotOf(s, count)
        [] count < connect_count /\ map_[SlotOf(s, count)] # None /\ holes # {} ->
             SlotOf(s, CHOOSE i \in holes : \A j \in holes : i <= j)
        [] OTHER -> None

\* set: whatever slot it fills, the id pushed to client_list_ is the one
\* with number count.
Set(s, x) ==
  [map |-> [map_ EXCEPT ![SetSlot(s)] = x],
   list |-> [client_list_ EXCEPT ![SlotOf(s, find_matched(s))] = @ + 1]]

\* The two indexes as they are.
Same == [map |-> map_, list |-> client_list_]

\* The indexes become m, the sessions f, and the threads hold c.
PoolBecomes(m, f, c) ==
  /\ map_' = m.map
  /\ client_list_' = m.list
  /\ conn' = c
  /\ sess' = Collect(f, m.map, c)

----------------------------------------------------------------------------
(* Session handlers, run by the io_service threads.                         *)

\* close by session x, now with the fields of r: shutdown, then on_close
\* erases the id the session carries.
Close(x, r) ==
  PoolBecomes(IF r.id = None THEN Same ELSE Erased(r.id),
              [sess EXCEPT ![x] = [r EXCEPT !.open = FALSE]], conn)

\* The outstanding read of x ends with an error, or with a header that
\* decode_header refuses.
ReadFails(x) ==
  /\ running
  /\ sess[x].reading /\ (sess[x].lost \/ ~sess[x].open)
  /\ Close(x, [sess[x] EXCEPT !.reading = FALSE])
  /\ UNCHANGED <<server_map_, pc, at, todo, got, running, counters>>

\* write on x, by the io_service that ran a post_write or by a worker that got
\* x from the map.  The socket is idle, busy or, after a failed write, stuck:
\* inter_lock_ is never released then.
Write(x) ==
  /\ running
  /\ sess[x].calls > 0
  /\ PoolBecomes(Same, [sess EXCEPT ![x].calls = @ - 1,
                                    ![x].writing = IF @ = "idle" THEN "busy" ELSE @], conn)
  /\ UNCHANGED <<server_map_, pc, at, todo, got, running, counters>>

\* handle_write without error, also for what a lost peer never reads;
\* write_msgs_ is empty again.
WriteDone(x) ==
  /\ running
  /\ sess[x].writing = "busy" /\ sess[x].open
  /\ PoolBecomes(Same, [sess EXCEPT ![x].writing = "idle"], conn)
  /\ UNCHANGED <<server_map_, pc, at, todo, got, running, counters>>

\* handle_write with an error.
WriteFails(x) ==
  /\ running
  /\ sess[x].writing = "busy" /\ (sess[x].lost \/ ~sess[x].open)
  /\ Close(x, [sess[x] EXCEPT !.writing = "stuck"])
  /\ UNCHANGED <<server_map_, pc, at, todo, got, running, counters>>

\* The connection of x is lost, or its peer sends nonsense.
Lose(x) ==
  /\ sess[x].open /\ ~sess[x].lost
  /\ losses < MaxLost /\ losses + failures < MaxFaults
  /\ losses' = losses + 1
  /\ sess' = [sess EXCEPT ![x].lost = TRUE]
  /\ UNCHANGED <<map_, client_list_, server_map_, pc, at, todo, conn, got, running,
                 failures, callbacks>>

----------------------------------------------------------------------------
(* Users of the pool.                                                       *)

\* A worker gets a session to write to: dispatch_to_server through get, which
\* picks one of the server's client_list_ at random, fix_dispatch_to_server
\* through fix_get.  It writes after the map's mutex is released.
Dispatch(k) ==
  /\ running
  /\ map_[k] # None
  /\ sess[map_[k]].calls < MaxPosted
  /\ sess' = [sess EXCEPT ![map_[k]] = Posted(@)]
  /\ UNCHANGED <<map_, client_list_, server_map_, pc, at, todo, conn, got, running, counters>>

----------------------------------------------------------------------------
(* The threads that connect.                                                *)

\* The first slot from k on that belongs to a server of S; past the last slot
\* when there is none.
NextSlot(k, S) ==
  LET rest == {j \in Slots : j >= k /\ ServerOf(j) \in S}
  IN  IF rest = {} THEN Cardinality(Slots) ELSE CHOOSE j \in rest : \A i \in rest : j <= i

\* The loop of t goes on from slot k, in state p, or ends.
GoOn(t, k, S, p) ==
  LET j == NextSlot(k, S)
  IN  /\ pc' = [pc EXCEPT ![t] = IF j \in Slots THEN p ELSE "idle"]
      /\ at' = [at EXCEPT ![t] = j]

EndRound(t) ==
  /\ pc' = [pc EXCEPT ![t] = "idle"]
  /\ UNCHANGED at

\* heart_task_thread::work wakes up and copies the server list.
HeartRound ==
  /\ "heart" \in Threads /\ pc["heart"] = "idle"
  /\ todo' = [todo EXCEPT !["heart"] = server_map_]
  /\ GoOn("heart", 0, server_map_, "check")
  /\ UNCHANGED <<map_, client_list_, sess, server_map_, conn, got, running, counters>>

\* servlist_callback with a new, non-empty list: the old one is cleared.
CallbackClears(S) ==
  /\ "zk" \in Threads /\ pc["zk"] = "idle"
  /\ callbacks < MaxCallbacks
  /\ S # {}
  /\ callbacks' = callbacks + 1
  /\ server_map_' = {}
  /\ todo' = [todo EXCEPT !["zk"] = S]
  /\ pc' = [pc EXCEPT !["zk"] = "insert"]
  /\ UNCHANGED <<map_, client_list_, sess, at, conn, got, running, losses, failures>>

\* servlist_callback inserts the servers one by one, then visits their slots.
CallbackInserts(s) ==
  /\ pc["zk"] = "insert"
  /\ s \in todo["zk"] \ server_map_
  /\ server_map_' = server_map_ \cup {s}
  /\ IF server_map_' = todo["zk"]
       THEN GoOn("zk", 0, server_map_', "check")
       ELSE UNCHANGED <<pc, at>>
  /\ UNCHANGED <<map_, client_list_, sess, todo, conn, got, running, counters>>

\* fix_get finds a session: the heart thread posts a heartbeat to it, the
\* callback has nothing to do.
CheckFound(t) ==
  /\ pc[t] = "check"
  /\ map_[at[t]] # None
  /\ sess' = IF t = "heart" THEN [sess EXCEPT ![map_[at[t]]] = Posted(@)] ELSE sess
  /\ GoOn(t, at[t] + 1, todo[t], "check")
  /\ UNCHANGED <<map_, client_list_, server_map_, todo, conn, got, running, counters>>

\* Fault: the heart thread only warns of a missing session.
CheckMissingWarns(t) ==
  /\ pc[t] = "check"
  /\ map_[at[t]] = None
  /\ IF ServerOf(at[t]) \in Resolvable /\ t # "heart"
       THEN pc' = [pc EXCEPT ![t] = "connect"] /\ UNCHANGED at
       ELSE GoOn(t, at[t] + 1, todo[t], "check")
  /\ UNCHANGED <<map_, client_list_, sess, server_map_, todo, conn, got, running, counters>>

\* fix_get finds none: resolve, which throws for a bad address and so ends
\* the whole round, then connect.  The heart thread catches the exception;
\* the callback's goes to the zookeeper client that called it, and the model
\* lets it survive there.
CheckMissing(t) ==
  /\ pc[t] = "check"
  /\ map_[at[t]] = None
  /\ IF ServerOf(at[t]) \in Resolvable
       THEN pc' = [pc EXCEPT ![t] = "connect"] /\ UNCHANGED at
       ELSE EndRound(t)
  /\ UNCHANGED <<map_, client_list_, sess, server_map_, todo, conn, got, running, counters>>

\* The connect succeeds: handle_connect_fix_id sets the id, and open enters
\* the session into the map with fix_set, where others find it from now on.
Connected(t) ==
  /\ t # "main" /\ pc[t] = "connect"
  /\ Unused # {}
  /\ PoolBecomes(FixSet(at[t], NewSession), [sess EXCEPT ![NewSession] = Fresh(at[t])],
                 [conn EXCEPT ![t] = NewSession])
  /\ pc' = [pc EXCEPT ![t] = "arm"]
  /\ UNCHANGED <<server_map_, at, todo, got, running, counters>>

\* Fault: start returns after open.
ArmReadNot(t) ==
  /\ pc[t] = "arm"
  /\ pc' = [pc EXCEPT ![t] = "registe"]
  /\ UNCHANGED <<map_, client_list_, sess, server_map_, at, todo, conn, got, running, counters>>

\* start, behind open: the first header read, also when the session has been
\* erased, replaced or closed by now.
ArmRead(t) ==
  /\ pc[t] = "arm"
  /\ sess' = [sess EXCEPT ![conn[t]].reading = TRUE]
  /\ pc' = [pc EXCEPT ![t] = "registe"]
  /\ UNCHANGED <<map_, client_list_, server_map_, at, todo, conn, got, running, counters>>

\* registe posts the registration message and the thread lets go of the
\* session; its loop goes on.
Registe(t) ==
  /\ t # "main" /\ pc[t] = "registe"
  /\ PoolBecomes(Same, [sess EXCEPT ![conn[t]] = Posted(@)], [conn EXCEPT ![t] = None])
  /\ GoOn(t, at[t] + 1, todo[t], "check")
  /\ UNCHANGED <<server_map_, todo, got, running, counters>>

\* The connect fails: handle_connect_fix_id has set id_ already, so close
\* erases the slot, whoever has registered there meanwhile.
ConnectFails(t) ==
  /\ t # "main" /\ pc[t] = "connect"
  /\ losses + failures < MaxFaults
  /\ failures' = failures + 1
  /\ PoolBecomes(Erased(at[t]), sess, conn)
  /\ GoOn(t, at[t] + 1, todo[t], "check")
  /\ UNCHANGED <<server_map_, todo, got, running, losses, callbacks>>

----------------------------------------------------------------------------
(* main: init_server_connection, which asks the map for a free id.          *)

\* The loop of main goes on with slot number k: the number only counts the
\* connections made, the id comes from set.
MainGoesOn(k) ==
  LET j == NextSlot(k, todo["main"])
  IN  /\ pc' = [pc EXCEPT !["main"] = IF j \in Slots THEN "connect" ELSE "idle"]
      /\ at' = [at EXCEPT !["main"] = j]
      /\ running' = (j \notin Slots)

\* Init ends early and main goes on to run the io_services.
MainGivesUp ==
  /\ pc' = [pc EXCEPT !["main"] = "idle"]
  /\ running' = TRUE
  /\ UNCHANGED at

\* resolve throws: the rest of the initialisation is skipped.
MainUnresolved ==
  /\ pc["main"] = "connect"
  /\ ServerOf(at["main"]) \notin Resolvable
  /\ MainGivesUp
  /\ UNCHANGED <<map_, client_list_, sess, server_map_, todo, conn, got, counters>>

\* The connect fails; id_ is still empty, close erases nothing.
MainConnectFails ==
  /\ pc["main"] = "connect"
  /\ ServerOf(at["main"]) \in Resolvable
  /\ losses + failures < MaxFaults
  /\ failures' = failures + 1
  /\ MainGoesOn(at["main"] + 1)
  /\ UNCHANGED <<map_, client_list_, sess, server_map_, todo, conn, got, losses, callbacks>>

\* The connection is gone before open asks for remote_endpoint, which throws.
MainOpenThrows ==
  /\ pc["main"] = "connect"
  /\ ServerOf(at["main"]) \in Resolvable
  /\ losses < MaxLost /\ losses + failures < MaxFaults
  /\ losses' = losses + 1
  /\ MainGivesUp
  /\ UNCHANGED <<map_, client_list_, sess, server_map_, todo, conn, got, failures, callbacks>>

\* The connect succeeds: set enters the session into the map, without an id,
\* or returns "".
MainConnected ==
  /\ pc["main"] = "connect"
  /\ ServerOf(at["main"]) \in Resolvable
  /\ Unused # {}
  /\ LET s == ServerOf(at["main"])
     IN  /\ got' = SetSlot(s)
         /\ PoolBecomes(IF SetSlot(s) = None THEN Same ELSE Set(s, NewSession),
                        [sess EXCEPT ![NewSession] = Fresh(None)],
                        [conn EXCEPT !["main"] = NewSession])
  /\ pc' = [pc EXCEPT !["main"] = "name"]
  /\ UNCHANGED <<server_map_, at, todo, running, counters>>

\* open gives the session the id that set returned.
MainNamed ==
  /\ pc["main"] = "name" /\ got # None
  /\ sess' = [sess EXCEPT ![conn["main"]].id = got]
  /\ got' = None
  /\ pc' = [pc EXCEPT !["main"] = "arm"]
  /\ UNCHANGED <<map_, client_list_, server_map_, at, todo, conn, running, counters>>

\* open returns -1: start closes the session, which erases nothing as it has no
\* id, and reads nothing.  handle_connect returns 0 all the same.
MainRefused ==
  /\ pc["main"] = "name" /\ got = None
  /\ sess' = [sess EXCEPT ![conn["main"]].open = FALSE]
  /\ pc' = [pc EXCEPT !["main"] = "registe"]
  /\ UNCHANGED <<map_, client_list_, server_map_, at, todo, conn, got, running, counters>>

\* registe, and the loop of main goes on.
MainRegiste ==
  /\ pc["main"] = "registe"
  /\ PoolBecomes(Same, [sess EXCEPT ![conn["main"]] = Posted(@)],
                 [conn EXCEPT !["main"] = None])
  /\ MainGoesOn(at["main"] + 1)
  /\ UNCHANGED <<server_map_, todo, got, counters>>

----------------------------------------------------------------------------

Init ==
  /\ map_ = [k \in Slots |-> None]
  /\ client_list_ = [k \in Slots |-> 0]
  /\ sess = [x \in Sessions |-> Free]
  /\ server_map_ = Servers
  /\ pc = [t \in AllThreads |->
             IF t = "main" /\ t \in Threads THEN "connect" ELSE "idle"]
  /\ at = [t \in AllThreads |-> 0]
  /\ todo = [t \in AllThreads |-> Servers]
  /\ conn = [t \in AllThreads |-> None]
  /\ got = None
  /\ running = ("main" \notin Threads)
  /\ losses = 0 /\ failures = 0
  /\ callbacks = 0

SessionStep(x) == ReadFails(x) \/ Write(x) \/ WriteDone(x) \/ WriteFails(x)

ThreadStep(t) ==
  \/ CheckFound(t) \/ CheckMissing(t) \/ ConnectFails(t)
  \/ Connected(t) \/ ArmRead(t) \/ Registe(t)

MainStep ==
  \/ MainUnresolved \/ MainConnectFails \/ MainOpenThrows
  \/ MainConnected \/ MainNamed \/ MainRefused \/ ArmRead("main") \/ MainRegiste

Next ==
  \/ \E x \in Sessions : SessionStep(x) \/ Lose(x)
  \/ \E k \in Slots : Dispatch(k)
  \/ HeartRound
  \/ \E S \in SUBSET Servers : CallbackClears(S)
  \/ \E s \in Servers : CallbackInserts(s)
  \/ \E t \in {"heart", "zk"} : ThreadStep(t)
  \/ MainStep

\* The threads go on, the heart thread wakes up again, the read of a lost
\* connection ends.  A connect ends, but nothing obliges a connection to be
\* lost, a write to end, a request to be dispatched or the list to change.
Fairness ==
  /\ WF_vars(\E x \in Sessions : ReadFails(x))
  /\ WF_vars(HeartRound)
  /\ WF_vars(\E s \in Servers : CallbackInserts(s))
  /\ \A t \in {"heart", "zk"} : WF_vars(ThreadStep(t))
  /\ WF_vars(MainStep)

Spec == Init /\ [][Next]_vars /\ Fairness

----------------------------------------------------------------------------
(* Properties.                                                              *)

SessionRecord ==
  [id : Slots \cup {None}, open : BOOLEAN, lost : BOOLEAN, reading : BOOLEAN,
   writing : {"idle", "busy", "stuck"}, calls : 0..MaxPosted]

\* The types of the map, the list and the threads; erase never takes an id
\* out of client_list_ that is not in it.
TypeOK ==
  /\ map_ \in [Slots -> Sessions \cup {None}]
  /\ client_list_ \in [Slots -> Nat]
  /\ sess \in [Sessions -> SessionRecord]
  /\ server_map_ \subseteq Servers
  /\ pc \in [AllThreads -> {"idle", "insert", "check", "connect", "name", "arm", "registe"}]
  /\ at \in [AllThreads -> 0..Cardinality(Slots)]
  /\ todo \in [AllThreads -> SUBSET Servers]
  /\ conn \in [AllThreads -> Sessions \cup {None}] /\ got \in Slots \cup {None}
  /\ running \in BOOLEAN
  /\ losses \in 0..MaxLost /\ failures \in 0..MaxFaults
  /\ callbacks \in 0..MaxCallbacks

\* The sessions whose read is still to be armed by the thread that connected
\* them, and the one that main is still to give its id.
Opening == {conn[t] : t \in {u \in AllThreads : pc[u] \in {"name", "arm"}}}
Unnamed == {conn[t] : t \in {u \in {"main"} : pc[u] = "name"}}

\* A session found in the pool is open.  It has a read outstanding, or the
\* thread that connected it is about to arm one, however the entry is used or
\* its writes fail until then; and it carries the id it is found under, or main
\* is about to give it that id and no handler runs that would erase by another.
\* So its loss will be noticed and the entry erased, although sessions erase by
\* id, late and sometimes twice.
EntryWatched ==
  \A k \in Slots : map_[k] # None =>
    /\ sess[map_[k]].open
    /\ sess[map_[k]].reading \/ map_[k] \in Opening
    /\ \/ sess[map_[k]].id = k
       \/ map_[k] \in Unnamed /\ got = k /\ ~running

\* client_list_, from which get picks at random, has the ids of the map, each
\* once: get finds a link whenever there is one.
ListMatchesMap ==
  \A k \in Slots : client_list_[k] = IF map_[k] = None THEN 0 ELSE 1

\* The slot of server s that has the number set counts to is not free.
NumberTaken(s) ==
  find_matched(s) < connect_count /\ map_[SlotOf(s, find_matched(s))] # None

\* The list and the map part in one way only: while main is still connecting,
\* it registers with set a session of a server whose counted slot is taken.
\* Erasing by id, late or twice, and overwriting keep them together.
ListKept ==
  [][ListMatchesMap /\ ~ListMatchesMap' =>
       ~running /\ \E s \in Servers : NumberTaken(s)]_vars

\* No server has more live connections than connect_count.
AtMostConnectCount ==
  \A s \in Servers :
    Cardinality({x \in Sessions : /\ sess[x].open /\ ~sess[x].lost
                                  /\ sess[x].id # None
                                  /\ ServerOf(sess[x].id) = s}) <= connect_count

\* Servers that come before every unresolvable one in the list.
Reachable == {s \in server_map_ : \A r \in server_map_ \ Resolvable : s < r}

\* Once connections are no longer lost, every slot of the server list ends up
\* with a live connection and keeps it, as far as the rounds get: a name that
\* does not resolve ends a round.
PoolHeals ==
  <>[](\A k \in Slots :
         ServerOf(k) \in Reachable => map_[k] # None /\ ~sess[map_[k]].lost)
=============================================================================
