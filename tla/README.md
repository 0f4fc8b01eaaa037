# bserver in TLA+

bserver is a service node: it accepts connections from clients, keeps a pool of
connections to peer servers, reads framed messages from both, puts them in a
queue, and lets a group of worker threads answer them (over HTTP, through Python
functions, or by dispatching to another server). This directory models its
concurrent core, its message format and its start and end, checks the models with TLC and proves the main results with
TLAPS. Paths are relative to the directory that holds `src/` and `tla/`.

## Inventory

| Part | State | Operations | What is hard |
|---|---|---|---|
| Task queue and workers: `src/src/task_base.cpp`, `session_task.cpp` | `deque_`, `mutex_`, `condition_`, `stop_` | `push`, `work`, `try_pop`, `wait_and_pop`, `stop`, `notifiy_all` | notification after unlock, `stop_` written outside the mutex, interruption points, two ways to pop of which only one checks the length |
| Session: `src/src/session_base.cpp` | `write_msgs_`, `inter_lock_`, the outstanding reads and writes | `start`, `write`, `post_write`, `handle_write`, `handle_read_header`, `handle_read_body`, `close` | one outstanding `async_write` with many writers, partial writes, two chains that both close |
| Client pool: `src/src/peer_handle_map.cpp`, `client_session.cpp`, `peer_handle_client.cpp` | `map_` (id to session), `client_list_` (server to ids) | `set`, `fix_set`, `get`, `fix_get`, `erase`, `close_all` | erase by id by an old session, check then connect, two indexes of one thing |
| Heart thread: `src/src/heart_task_thread.cpp` | its copy of the server list | a round: heartbeat or reconnect | races with the callback and with start, exceptions that end a round |
| Server list: `src/src/configwrap.cpp` | `server_map_` | `servlist_callback`, `init_server_connection` | changed while it is copied |
| io_service pool: `src/include/io_service_provide.h` | `next_io_service_`, thread groups | `get_io_service`, `run`, `stop` | an unlocked index |
| Accepting server: `src/src/peer_handle_server.cpp`, `server_session.cpp` | acceptor, map of accepted sessions | `start_accept`, `handle_accept`, `stop` | several threads and one accept, errors and an exception before the next one is armed, entries replaced and erased by id |
| Request processing: `src/src/logic_deal_processing.cpp`, `task_responser.cpp`, `group_responser.cpp`, `src/httpclient/`, `src/embeded_python/` | per-thread caches, the interpreter lock | `after_body_get`, `init_cache_map`, `do_work`, `parser`, `response`, `dispatch_*` | requests that get no answer, exceptions from three libraries, a session looked up long after the request came |
| Message format: `src/src/message_format.cpp` | lengths and buffers | `encode_header`, `decode_header`, `read_msg_` | an `int` from the network compared as a `size_t`, one buffer for all messages |
| Message classes: `src/proto/` (generated) | has-bits, fields, unknown fields | accessors, parse, serialize, size, copy | required fields are checked by the receiver only; peers that write other fields or another order |
| Process: `src/main.cpp` | `stop_` of the exit thread | start, signal, exit | threads that are joined and never end, a signal during the start |

A read handler of a session gives a complete message to `task_base::push`; a
worker takes it and its responder writes to a session it finds in a map, which
starts that session's write chain. The heart thread, the zookeeper callback and
`main` put sessions into the client map; a session's `close`, called from any of
its handlers, takes its id out again.

Every part with its status, and every hazard with the properties that cover it,
is listed in `PROJECT.json`.

## Modules

| Module | Models |
|---|---|
| `TaskQueue` | the queue, the workers, and their shutdown by `io_service_provide::stop` |
| `TaskChannel` | the abstract specification of the queue: a FIFO channel with several servers |
| `SessionBase` | one session: write chain, read chain, peer |
| `ClientPool` | the map of client sessions and the three threads that fill it |
| `IoServiceProvide` | `get_io_service`, access by access |
| `PeerHandleServer` | the accept chain, the accepted sessions and their map, `main`, the signal handler and the exit thread; extends `IoServiceProvide`, so that the accept threads call it access by access |
| `RequestProcessing` | a request from `after_body_get` through its responder to the reply |
| `MessageFormat` | `message_format`: framing and the refusal of lengths |
| `FrameStream` | the reading side of a connection: frames of any length read into `read_msg_`, the close on a bad length, the queue of what was read; extends `MessageFormat` |
| `ProtoTables` | the fields of every generated class, one table per part of its code |
| `ProtoMessage` | what those classes do: accessors, parsing, serializing, size, copying |
| `ServiceMessages` | the texts on a connection: extends `FrameStream`, whose frames it fills with messages of `ProtoMessage`, and adds the accessor calls of the peer and the responders |
| `*Proofs` | theorems about the module of the same name |
| `LeastNumber` | two lemmas: a non-empty set of naturals has a least element, and induction over a set of numbers |
| `MC*` | the instances TLC checks |

Operators whose comment begins with "Fault:" are altered forms of the operator
below them. No specification uses them: each shows that a property would be
violated if the code had that fault.

### TaskQueue

Variables have the names of the members of `task_base`. `pc` tells where a worker
is: `loop` (line 24), `try`, `wait_and_pop`, `block` (it holds the mutex and has
decided to wait), `wait`, `woken`, `work`, `exited`. A critical section is one
step, with one exception: between the test of the wait loop and the wait the
mutex is held over two steps, because `stop_` is written without it and may
change there. `notify_one` is a step after the push, wakes any one waiter and is
lost without one. A wait may end spuriously. `interrupt` is recorded, is seen at
the interruption points (`interruption_point`, entry to and return from
`condition_.wait`), and wakes a waiting thread. `do_work` is a step that does not
throw, which is what `logic_deal_processing::do_work` guarantees.

### SessionBase

Frames are numbered in the order `write` accepts them and reach the socket in
`Chunks` pieces, so that a write can fail with a part sent. `ops` are the
outstanding `async_write` operations, with no assumption that there is only one.
`reads` counts the outstanding reads of each kind. Bytes from the peer are cut to
what `decode_header` tells apart: a header with a body, without one, or invalid.
The peer may stop sending or reset at any time. A failed write leaves
`inter_lock_` taken, as in the code.

### ClientPool

A slot is one id `server:<ip>:<port>:<i>`. `map_` gives its session;
`client_list_` counts how often the id occurs in the vector, the only thing about
the vector that matters to `get`. Operations of the map hold its mutex and are
single steps. A thread's check, its connect with the entry into the map
(`Connected`, `MainConnected`), the first read (`ArmRead`) and the registration
message (`Registe`, `MainRegiste`) are separate steps, and workers, the heart thread
and the callback find the entry between them; `conn` is the session the thread has in
hand meanwhile. `main`, which gets its id from `set`, has one step more: until
`MainNamed` its session is in the map without an id (`got` is what `set` returned),
or is refused (`MainRefused`). `handle_connect_fix_id` sets the id before it knows the result,
so a failed connect erases the slot. A session record has its id, whether the
socket is open, whether the connection is lost, the outstanding read, the write
state (`stuck` after a failure) and the writes handed to it and not yet run. It is
dropped when nothing refers to it any more. Handlers run only after `main` has
finished `init_server_connection`, as in `src/main.cpp`. `Contains` models the
substring search of `find_matched`. Automatic reconnection in `on_close` is never
switched on in the repository and is not modelled; that an exception out of the
zookeeper callback is survived there is an assumption.

### IoServiceProvide

The read of the index, the load and the store of the increment, the comparison
and the reset are separate steps; the comparison may use the value in memory or
the one in the register, whichever the compiler chose.

### PeerHandleServer

`at` tells where `main` and each accept thread is: in `get_io_service`, opening a
session, arming its first read, idle in `io_service::run`. `armed` is the
outstanding `async_accept` and `target` the io_service of the session it will
fill. `handle_accept` is split where another thread can see a difference: the
entry in the map (`Open`), the first read (`ArmRead`), every access of
`get_io_service`, and the next accept. An accept may fail, and a client may close
or reset at any time; if it has reset before `open` asks for its address, the
exception ends the process (`OpenThrows`). A client that has left may come again
from the same address, so that a session's entry may be replaced and the new one
erased by the close of the old. Each io_service has one thread, created by `main`
one after the other; a handler of a session is two steps, the failed read and
`on_close`, between which the thread is busy. `exiter` follows
`system_exst_thread::run` through `peer_handle_server::stop` and
`io_service_provide::stop` to `Py_Finalize` and `exit`. There are no servers in
the server list, so the heart thread takes no io_service; `io_race` shows what
happens when it does.

### MessageFormat, FrameStream, ProtoTables, ProtoMessage, ServiceMessages

`MessageFormat` has the widths of `int` and `size_t` as constants. The difference
`h.len - message_head_length` may leave the range of `int`: the outcome is then
either the true or the wrapped difference.

In `FrameStream` a peer sends any number of frames, each with any length an `int`
can hold. `HandleHeader` is `handle_read_header` with `decode_header`, `HandleBody`
is `handle_read_body`; both end, as in the code, with the copy of `read_msg_` into
the queue and the next header read. `read_msg_` keeps its contents between
messages. A body is a sequence of cells of any kind; `ServiceMessages` takes
serialized fields for cells and is checked to implement the stream (`StreamSpec`),
so that what is proved of any stream holds of its connection. `PeerAssumption` says
what that takes of the constants: the fields the peer can send are cells, and no
message has as many of them as there are numbers in an `int`, so that a length that
has wrapped is negative.

The classes under `src/proto` were generated from `.proto` files that the
repository does not hold, so the generated code is the source. All classes are
the same code over different fields, and each class has four places which have to
agree: the cases of the parser, with the tag each expects next; the order,
numbers and types it writes; the mask of the required fields with the fields that
are counted and copied; the has-bits of the accessors. `ProtoTables` has one table
for each of these, read off its own lines, and `ProtoMessage` the code that uses
them. A message is its has-bits, as a set of bits, its values and its unknown
fields; its text is a sequence of units, one for each field. Of the classes only `ServicePacket` has messages in it,
and these have none, so what a class does is written for a class without messages and
then for any class. Varints and bytes below that belong to
libprotobuf.

In `ServiceMessages` a peer puts messages of any class together call by call, or
sends the requests and pushes of the protocol, or a header with any length; the
session reads as in `FrameStream`; a worker parses and answers in one step with what the responder may give. Threads
and the write queue are left to `TaskQueue`, `SessionBase` and `RequestProcessing`.

### RequestProcessing

A request is its connection, its command, what the outer `ServiceRequest` looks
like and the type of the packet in it; contents are cut to the few texts that
tell outcomes apart. A worker is `starting` (`init_cache_map`), in `try` or
`wait`, then at `parse`, `python`, `push` or `reply`. Taking a request and marking
it busy is one step, as in `try_pop`; how the queue locks is left to `TaskQueue`.
The parser of a responder is one step whose result is chosen among those the
libraries allow: an HTTP answer or none, a mongo answer, an error text, or an
exception. Two things are separate steps: a call of Python, since it holds the
interpreter lock, and each turn of the push loop, since links change meanwhile.
The reply is a step of its own and looks the session up then. Replies are looked
up in the map of outgoing connections only, so a request on an accepted connection
has no link to go back on. `fate` records how each request ended: `replied`,
`no link`, `busy`, `threw`, `pushed`, or `ignored`. `PushCrashes` is the
dereference of an empty `sess_cache_`, after which the process is gone.

## Runs

| Run | Instance | Shows |
|---|---|---|
| `task_queue` | 2 workers, 2 producers, 4 messages, limit 1 | no message lost, repeated or reordered; no lost wakeup; nobody asleep at the join; at most one unmarked message per worker in an overfull queue; the channel is implemented, its liveness included; a stop completes |
| `session_base` | 3 writes of 2 pieces, 2 incoming frames | whole frames on the wire in order; the write in flight is the front and the only one; nothing stranded; one read; every accepted frame is sent unless the connection goes; a loss is noticed; a closed session drains |
| `pool_running` | 1 server with 1 connection, heart and callback, 1 loss and failed connects up to 3 faults, 1 list change | entries are open and watched, or about to be by the thread that made them; list and map agree; the pool heals |
| `pool_starting` | 3 servers, the id of the first contained in that of the second, the third unresolvable; main and heart, 1 fault | the list and the map stay together at start too, through `set`, connects that fail and connections that are lost; the pool heals; the connection `set` refuses for the wrong quota is made by the heart thread; a bad name cuts off only the servers after it |
| `pool_count` (violated) | heart thread, 1 fault | more connections than `connect_count` |
| `pool_set` (violated) | main and heart, 2 connections, 1 fault | `set` lists the wrong id |
| `server` | 2 accept threads, 2 io_services, 1 worker, 2 connections of 1 address, 1 failed accept, a signal | one accept at any time; the io_services of the pool in turn; no dead entry in the map, and none for ever; clients are served; a signal ends the process, with no worker in Python |
| `io_race` (violated) | 2 callers, 3 io_services | index past the end |
| `requests` | 2 workers, 2 requests out of 9 kinds, 2 links, 1 accepted connection, users on 2 servers of which one has no link | an answer goes once to the connection of its request and fits it; a push tries every session once; every request for a service is answered or ends in a known way |
| `requests_busy` (violated) | the same, 2 kinds of request | a busy mark that is not told |
| `messages` | every class, 2 accessor calls or all fields, 2 frames, all lengths of a 5-bit `int` | bad lengths refused, texts whole, what is parsed is what was sent, sizes and copies right, an answer complete and with its request's names; the connection is a `FrameStream` |
| `messages_push` (violated) | the same | a push its receiver refuses |

Bounds. Two workers and two producers are what every race on the queue needs;
four messages with a limit of one let the queue fill past the limit, drain and
fill again. Three frames of two pieces give a frame that is sent, one that is cut
and one that waits. In the pool one slot is enough for all races on an id, since
slots interact only in `set`, which `pool_starting` and `pool_set` exercise. `pool_running`
loses a connection, before or after its read is armed, while two connects fail and
both threads repair; further losses are left to the theorems, which bound none. `NSessions` is large enough that a free
object is left in every state of `pool_running` and `pool_starting`. A session has
at most one write handed to it and not yet run: a second would find it in the
same state. Two accept threads and two io_services let the chain of accepts change
hands and the index wrap; two connections of one address are what a replaced entry
needs, and `main` takes three turns before the first accept, so the wrap falls into
an accept handler as well. A header of 2 cells and bodies of up to 10 in an `int` of
-16..15 keep the order of the limits of the code (header + largest body < largest
`int` < largest `size_t`), and every length of that `int` is sent; two accessor
calls set, set again and clear a field and set any two fields, and `Fill` sets all.
Two requests with `task_queue_max` 1 are enough to mark
one busy and let the other pass, and for two workers to hold requests of any two
kinds at once, two calls of Python among them; the kinds are one for each way
through `do_work`.

Deadlock is checked except for `session_base` (a session that has ended does
nothing more), `server` (the process ends) and `messages` (the peer may have sent
all it wants to, or the session is closed). In `task_queue` the end after the join is an explicit step.

Fairness. Each worker and the stopping thread are scheduled; a waiting worker is
not obliged to wake spuriously and nobody is obliged to push or to stop. The
mutex is a boost mutex, and a worker that competes for it for ever is given it.
An operation on a socket completes, in particular when the socket is shut down or
the peer is gone; a connect ends, either way; the heart thread's sleep ends.
In `RequestProcessing` each worker is scheduled and a call to the outside ends:
the HTTP requests have timeouts of 3 and 5 seconds, the drivers have theirs; that
a Python function returns is an assumption, nothing in the code limits it. Nobody
is obliged to send a request. In the pool the read of a lost connection ends, but
nothing obliges a write to end, a connection to be lost or the list to change. In
`PeerHandleServer` `main`, the exit thread, the workers and the threads of the
io_services are scheduled each by itself; of the accept threads it is only assumed
that one of them goes on, because the io_service gives a handler to any thread
that runs it. Clients, signals and errors are not obliged to happen. A worker ends
once it is told to, which is what `ShutdownCompletes` shows of `TaskQueue`.

## What the violated runs show

* `pool_count`: a lost connection with a read and a write outstanding closes
  twice. `on_close` erases by id. If the heart thread reconnects between the two,
  the second close erases the new session from the map. It remains connected, is
  reported by no lookup, and the next round connects again.
* `pool_set`: `set` looks for a hole when the slot numbered by the count is taken,
  stores the session there and pushes the id of the taken slot to `client_list_`
  (`src/src/peer_handle_map.cpp:106`). It needs a failed connect by the heart
  thread while `main` still connects. `ListKeptTogether` proves
  that this is the only way: the two indexes part only while `main` connects and
  only where the counted slot is taken. `pool_starting` checks the same property where
  `set` always finds its slot free, so that there they never part.
* `io_race`: `get_io_service` is called by the accept handler, the heart thread,
  the callback and main, and takes no lock.
* `requests_busy`: the busy responder builds "system service in busy" for the
  requester, and its `response` returns 0 without sending it.
* `messages_push`: the push responder sets `sn`, `service_type`, `payload` and
  `sessid` of a `ServiceResponse` and not `status`, which is required
  (`src/proto/connect_server.pb.h:481`); `SerializeToString` writes the message all
  the same, and `ParseFromString` of a receiver with these classes refuses it.

Not a run, but met on the way: `!= 27 || != 29` (`src/src/group_responser.cpp:114`)
holds of every type, so under command 7818 the branch that serves the two group
types is not reached and the requester gets an empty body. `group_responser` in
`ServiceMessages` and the group parser in `RequestProcessing` are written that way;
`AnswerEchoes` allows the empty body. Two more things the code does by going by id
are in the models and forbidden by no property, since nothing in the repository
speaks against them: the close of an accepted session erases the entry of one that has
come again from the same address (`PeerHandleServer`; `EntryLive` and `MapDrains`
say only that no dead entry stays), and a reply reaches a session that was connected
again under the id of the request (`RequestProcessing`; `AnswerFits` is about ids).

## Theorems

All proofs are for arbitrary values of the constants, under the named
assumptions of the modules (non-empty set of workers, natural bounds, the order of the
widths and limits of the message format, the cells of the peer).

* `TaskQueueProofs`. `TypeCorrect` first. `MutexInv` (the mutex is held between
  two steps exactly by the worker that has decided to wait, and then the queue is
  empty) gives `WakeupKept`: the push cannot fall between test and wait.
  `StopInv` (how far `stop` has come says which flags are set, who has been
  interrupted, and that a worker interrupted before its wait does not wait) gives
  `NoSleeper`. `SlipInv` relates a worker's unmarked messages to its place in the
  loop and gives `SlipOnceAlways`; `OnceInv` does the same for the numbering of
  the messages and gives `EachMessageOnceAlways`. `ChannelRefinement` shows that
  every step is a step of `TaskChannel` or a stutter.
* `SessionBaseProofs`. `QueueInv` (`write_msgs_` is the run of accepted frames
  that ends with the last), `LockInv` (an outstanding write means `inter_lock_` is
  taken, and the wire ends where that write stands) make `WireIntact` and
  `FrontInFlight` inductive: `WireAlwaysIntact`, `FrontAlwaysInFlight`,
  `SessionTypes`. `LockHeld` (in an open session a taken `inter_lock_` means that a
  write is outstanding) with `LockInv` gives `NeverStranded`. `ReadInv` (what the
  peer has sent is a run of frames, of which only the first may have lost its
  header, and that exactly while a body read is outstanding or the chain is over)
  gives `OneReadAlways`.
* `ClientPoolProofs`. `PoolTypes` (map, list and sessions), `LoopTypes` (the threads
  and their rounds) and `HeldTypes` (the sessions the threads have in hand) are
  inductive with `AtInv` (a thread in its loop stands at a slot) and give
  `PoolTyped`. `EntryAlwaysWatched`: an entry's session is open, reading or in the
  hands of a thread that will arm its read (`Opening`), and carries the id of its slot
  or is the one `main` has not named yet (`Unnamed`). This is inductive with `NameInv`
  (until it is named, `main`'s session is found under the slot `set` returned or not at
  all) and `MainInv` (`main` connects only before the io_services run): a
  session that closes erases the only slot it can be found under, since handlers run
  only when every session in the map has its id; a registration puts an unused
  object there, which no other thread holds; and a thread leaves `Opening` only by
  arming the read, or by refusing a session that is not in the map. A lemma for each operation
  on the two indexes says when it keeps them together: `erase` and `fix_set` always
  do, `set` does unless the slot it counts to is taken (`SetMatched`). `fix_set`
  alone is left when `main` takes no part: `ListMatches` states `ListMatchesMap` for
  every pool of that kind. With `main`, `MainInv` gives the action property
  `ListKeptTogether`.
* `PeerHandleServerProofs`, for any number of threads, io_services, workers,
  clients and addresses. First of `IoServiceProvide` alone: `CallerInv` says what the
  index is at each place of a call, given that only one thread is in it
  (`OneCallerInPool`, `OneCallerRoundRobin`); `io_race` shows that the assumption is
  needed. Then the server, which does not assume it: `ChainInv` (where main and the accept threads are; only a
  thread in its handler is in `get_io_service`; at most one thread is in a handler,
  and none while an accept is outstanding) is inductive together with `CallerInv`:
  each needs the other, since a call ends the handler and the handler keeps other
  callers away. It gives `OneAccept`, `ServerIndexInPool` and `ServerRoundRobin` (the run
  checks the second, from which the first follows).
  `Typed` adds that a thread that opens a session has a connection in hand and
  gives `ServerTypes` and `EntriesLive`. `QueueInv` (a connection waits once, and
  before it has a session) and `LifeInv` (a session that is closing has a running
  thread; how far the exit thread is says what has been stopped and joined) give
  `FinalizesAlone`: the exit thread may join before main has created all threads,
  but those find their io_services stopped.
* `FrameStreamProofs`. `AcceptsExactly`: whatever the widths, the length and the
  outcome of the subtraction, `decode_header` accepts the lengths of a body of 0 to
  `MaxBody` and no others, and has made room for the body. `FrameDelivered`: what
  `encode_header` framed is what a worker takes out, whatever `read_msg_` held. These
  are about one call; `StreamInv` carries them along a stream of any number of frames
  of any length: the frames on their way are the last ones sent (`WireInv`), a body
  read has the header of the frame whose number it bears and just its room
  (`ReadInv`), and the queue holds whole frames, in order, each once, none that is
  still being read (`QueuedInv`). It gives `StreamTyped`, `BadLengthsRefused`
  (`LengthRefused`) and `FramesDelivered` (`Delivered`).
* `RequestProcessingProofs`. `AnswersFit`. `AnswerFits` becomes inductive with
  `QueueInv` (the queue holds waiting requests, each once), `HandInv` (a request
  that was taken is in the hands of exactly one worker, who sees its command or
  1010) and `BodyInv` (nobody replies under 1010, and the packet about to be sent
  is of the type after the request's). Lemmas about what each parser returns
  (`ServiceFits`, `GroupFits`, `EmptyFits`) give `BodyInv`; a lemma per kind of
  step (take, move, end, reply, receive) gives the rest. `PushesComplete` rests on
  the invariant of the push loop (`LoopInv`): the user's sessions it has tried and
  those it has left are disjoint, together are the ones it found, and each was tried
  once over a link to its server. `PushInv` says this of every worker in the loop,
  that nothing is written before it, and what a finished push has done; a worker's
  turn leaves the pushes of others alone because `HandInv` gives every request to one
  worker. `PushTypes` adds what the replies did not need and gives `ProcessingTypes`.
* `ServiceMessagesProofs`, for every set of cells, width and bound. The tables of
  the generated classes come first: `ClassesAgree` shows of each class that its four
  tables have the same fields, with the same numbers and types, a bit and a number
  for each of its own, and the tag of the next field where the parser expects one.
  All that follows rests on that and not on the tables. `IsObject` says what an
  object of a class is; the accessors keep it (`SetIsObject`, `ClearIsObject` and the
  like). A text spells an object if it has the unit of each field that is set once,
  in any order, and the unknown ones anywhere among them, in theirs; what
  `SerializeWithCachedSizes` writes does, and so does its reverse. The loops over fields and
  over units are recursive functions; their equations, and what they have done after
  n turns, are proved by induction. They give the theorems about a single object:
  `ParsesBack` (a text that spells an object is parsed to it and refused exactly when
  a required field is missing, whether the parser finds a case by its switch or
  jumps to it by the tag it expects), `SizeIsWritten` and `CopiesWhole`. A message
  in a message has no messages in it, so each is proved once for such a class and
  once for a class that uses it. `MessagesInv` carries this through the connection:
  `StreamInv` of `FrameStreamProofs`, `DraftInv` (what is being put together is an
  object of its class), `MeantInv` (every frame spells what the peer meant by it, and
  under a command with a responder that is a `ServiceRequest`), `AnswersInv` (a frame
  to the peer is for one of its own). It is inductive only as a whole, since a frame
  is known to be one of the stream because of the cells of the object it spells. It gives
  `ConnectionStreams` (the refinement `StreamSpec`), `ConnectionDelivers`,
  `MessagesTyped`, `MessagesRoundTrip` and `DraftsWhole`. For `AnswersEcho`
  (`AnswerEchoes`) a lemma for each responder says that the packet it makes answers
  the one it was given (`RespondAnswers`, `ReplyAnswers`, ..., `TaskResults`), and
  `ParserEchoes` that the text around it parses as a complete response with the
  names of the request. `EchoInv` says so of every frame on its way and of the last
  one received.
* `LeastNumber`. Loops that take the smallest slot or the smallest user choose the
  least element of a set. That there is one is proved by taking a minimal element of
  the well-founded order on the naturals. Induction follows from it for sets
  (`NumbersInduct`: the least number that is not in the set would be the successor
  of one that is), which is how the loops of the generated classes are reasoned
  about; the induction principles of the library range over operators, which the
  provers do not instantiate.

Only model-checked: every liveness property (`ShutdownCompletes`, the liveness of
the channel, which is the part of `ImplementsChannel` that `ChannelRefinement` leaves out,
`Flushes`, `LossNoticed`, `Drains`, `PoolHeals`, `Answered`,
`ClientServed`, `MapDrains`, `SignalExits`), which depend on
fairness and are outside the prover's logic. Every invariant and every action
property of the passing runs is a theorem, `ListMatchesMap` for pools in which `main`
takes no part: with `main` it is not true, as `pool_set` shows.

## Not modelled

* Logging, and the interactive test commands, which nothing starts: no state of the
  system depends on them.
* Reading the configuration file and starting zookeeper, which happen once before
  any other thread runs; their result is the constants of `ClientPool`.
* The vendored JSON library and the Python binding (`src/include/json`,
  `src/include/ffpython.h`): third-party code, seen through the results and
  exceptions its callers handle. The JSON push packet parses an older format that
  nothing creates any more.
* Of the generated classes: reflection, descriptors and their registration, cached
  sizes, `Swap` and the `release_` and `set_allocated_` accessors, which none of the
  code that runs calls (one interactive test command does); and the encoding of
  varints and bytes, which is libprotobuf's.
* Exceptions out of `init_cache_map`, which runs outside the worker's `try`: the
  clients it creates report failures by their results, and that they throw nothing is
  an assumption.
* `close_all`, which the exit thread calls once, when the process is about to end.
* What threads meet after `exit`, which destroys the singletons under them: the
  behaviour is undefined.
* The undefined behaviour of copying a `std::map` during an insertion
  (`src/src/heart_task_thread.cpp:40` and `:92`); that the copy may be partial is
  modelled.
* The layout of the header and its conversion to network order and back, which
  `encode_header` and `decode_header` apply field by field: a header is its numbers.

## Plan

1. A composition of the pool with `get_io_service`, with the heart thread and the
   callback among its callers.
2. `close_all` against sessions that close at the same time.
3. Proofs: the safety part of what the liveness runs rest on, such as that a slot of
   a server in the list with no entry is always in the round of some thread, and
   that a request is answered at most once whatever its command.
