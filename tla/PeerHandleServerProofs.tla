----------------------- MODULE PeerHandleServerProofs -----------------------
(***************************************************************************)
(* get_io_service is right when one thread at a time is in it: with any    *)
(* number of io_services the index stays in the pool and the turns are in  *)
(* order.  The chain of accepts keeps the accept threads apart, so that    *)
(* this holds of the accepting server, for any number of accept threads,   *)
(* io_services, workers, clients and addresses.                            *)
(***************************************************************************)
EXTENDS PeerHandleServer, TLAPS

----------------------------------------------------------------------------
(* get_io_service.                                                          *)

InCall(c) == pc[c] # "index"

\* One step of a call by c.
CallStep(c) == Index(c) \/ Load(c) \/ Store(c) \/ Compare(c) \/ Reset(c)

\* An index is handed out, and it is the one after the last.
TakesTurn ==
  \A c \in Callers : pc[c] = "index" /\ pc'[c] = "load" => last' = (last + 1) % PoolSize

\* What the index is while c is at its place in the call.
CallerAt(c) ==
  /\ pc[c] \in {"index", "load", "store", "compare", "reset"}
  /\ got[c] \in 0..(PoolSize - 1)
  /\ pc[c] = "load" => next_io_service_ = last
  /\ pc[c] = "store" => next_io_service_ = last /\ reg[c] = last
  /\ pc[c] = "compare" => next_io_service_ = last + 1 /\ reg[c] = last + 1
  /\ pc[c] = "reset" => next_io_service_ = PoolSize /\ last = PoolSize - 1

CallerInv ==
  /\ pc = [c \in Callers |-> pc[c]]
  /\ reg = [c \in Callers |-> reg[c]]
  /\ got = [c \in Callers |-> got[c]]
  /\ last \in 0..(PoolSize - 1)
  /\ next_io_service_ \in 0..PoolSize
  /\ (\A c \in Callers : ~InCall(c)) => next_io_service_ = (last + 1) % PoolSize
  /\ \A c \in Callers : CallerAt(c)

\* The successor of an index of the pool, wrapped.
LEMMA Wrap ==
  ASSUME NEW i \in 0..(PoolSize - 1)
  PROVE  (i + 1) % PoolSize = IF i + 1 = PoolSize THEN 0 ELSE i + 1
  BY PoolSizeAssumption

\* A step of one caller leaves the places of the others alone.
LEMMA CallFrame ==
  ASSUME CallerInv, NEW c \in Callers, CallStep(c)
  PROVE  \A d \in Callers \ {c} : pc'[d] = pc[d] /\ got'[d] = got[d]
  BY DEF CallerInv, CallStep, Index, Load, Store, Compare, Reset, Compared, Return

\* A step of the only caller that is in a call keeps what is known, and takes
\* the next turn.
LEMMA CallerStep ==
  ASSUME CallerInv, NEW c \in Callers, CallStep(c),
         \A d \in Callers \ {c} : ~InCall(d)
  PROVE  CallerInv' /\ TakesTurn
<1>1. CallerAt(c) /\ \A d \in Callers : CallerAt(d)
  BY DEF CallerInv
<1>2. (last + 1) % PoolSize = IF last + 1 = PoolSize THEN 0 ELSE last + 1
  BY Wrap DEF CallerInv
<1>3. /\ pc' = [d \in Callers |-> pc'[d]] /\ reg' = [d \in Callers |-> reg'[d]]
      /\ got' = [d \in Callers |-> got'[d]]
      /\ \A d \in Callers \ {c} : pc'[d] = pc[d] /\ got'[d] = got[d]
  BY CallFrame DEF CallerInv, CallStep, Index, Load, Store, Compare, Reset, Compared, Return
<1>4. \A d \in Callers \ {c} : pc'[d] = "index" /\ got'[d] \in 0..(PoolSize - 1)
  BY <1>1, <1>3 DEF CallerAt, InCall
<1>5. SUFFICES /\ CallerAt(c)'
               /\ last' \in 0..(PoolSize - 1)
               /\ next_io_service_' \in 0..PoolSize
               /\ pc'[c] = "index" => next_io_service_' = (last' + 1) % PoolSize
               /\ pc[c] = "index" => last' = (last + 1) % PoolSize
  <2>1. \A d \in Callers \ {c} : CallerAt(d)'
    BY <1>4 DEF CallerAt
  <2>2. TakesTurn
    BY <1>3, <1>5, <1>4 DEF TakesTurn, InCall
  <2> QED BY <1>3, <1>5, <2>1, <2>2 DEF CallerInv, InCall
<1>6. CASE Index(c)
  <2>1. next_io_service_ = (last + 1) % PoolSize
    BY <1>6 DEF CallerInv, InCall, Index
  <2> QED BY <1>2, <1>6, <2>1, PoolSizeAssumption DEF CallerInv, CallerAt, Index
<1>7. CASE Load(c)
  BY <1>1, <1>7, PoolSizeAssumption DEF CallerInv, CallerAt, Load
<1>8. CASE Store(c)
  BY <1>1, <1>8, PoolSizeAssumption DEF CallerInv, CallerAt, Store
<1>9. CASE Compare(c)
  BY <1>1, <1>2, <1>9, PoolSizeAssumption DEF CallerInv, CallerAt, Compare, Compared, Return
<1>10. CASE Reset(c)
  BY <1>1, <1>2, <1>10, PoolSizeAssumption DEF CallerInv, CallerAt, Reset, Return
<1> QED BY <1>6, <1>7, <1>8, <1>9, <1>10 DEF CallStep

\* The state get_io_service starts from.
LEMMA CallerInit == Init => CallerInv
<1> SUFFICES ASSUME Init PROVE CallerInv
  OBVIOUS
<1>1. (last + 1) % PoolSize = 0
  BY PoolSizeAssumption, Wrap DEF Init
<1> QED BY <1>1, PoolSizeAssumption DEF Init, CallerInv, CallerAt, InCall

\* Every index that was handed out is one of the pool.
LEMMA CallerInPool == CallerInv => IndexInPool
<1> SUFFICES ASSUME CallerInv, NEW c \in Callers PROVE got[c] < PoolSize
  BY DEF IndexInPool
<1>1. got[c] \in 0..(PoolSize - 1)
  BY DEF CallerInv, CallerAt
<1> QED BY <1>1, PoolSizeAssumption

\* A step that leaves get_io_service alone.
LEMMA CallerStutter ==
  ASSUME CallerInv, UNCHANGED vars
  PROVE  CallerInv' /\ TakesTurn
  BY DEF vars, CallerInv, CallerAt, InCall, TakesTurn

\* With one calling thread every step is that caller's.
LEMMA OneCallerStep ==
  ASSUME \A c, d \in Callers : c = d, CallerInv, [Next]_vars
  PROVE  CallerInv' /\ [TakesTurn]_vars
<1>1. CASE UNCHANGED vars
  BY <1>1, CallerStutter
<1>2. CASE Next
  <2>1. PICK c \in Callers : CallStep(c)
    BY <1>2 DEF Next, CallStep
  <2> QED BY <2>1, CallerStep
<1> QED BY <1>1, <1>2

\* With one calling thread, io_services_ is never read past its end, whatever
\* the size of the pool.
THEOREM OneCallerInPool ==
  ASSUME \A c, d \in Callers : c = d
  PROVE  Spec => []IndexInPool
<1>1. CallerInv /\ [Next]_vars => CallerInv'
  BY OneCallerStep
<1> QED BY <1>1, CallerInPool, CallerInit, PTL DEF Spec

\* With one calling thread, the io_services are handed out in turn.
THEOREM OneCallerRoundRobin ==
  ASSUME \A c, d \in Callers : c = d
  PROVE  Spec => RoundRobin
<1>1. CallerInv /\ [Next]_vars => CallerInv' /\ [TakesTurn]_vars
  BY OneCallerStep
<1>2. CallerInv /\ [Next]_vars =>
        [\A c \in Callers : pc[c] = "index" /\ pc'[c] = "load" =>
           last' = (last + 1) % PoolSize]_vars
  BY <1>1 DEF TakesTurn
<1> QED BY <1>1, <1>2, CallerInit, PTL DEF Spec, RoundRobin

----------------------------------------------------------------------------
(* The accepting server.                                                    *)

Busy == {"open", "arm", "get"}
AtMain == {"get", "start", "run", "join", "heart"}
AtThread == {"none", "idle", "open", "arm", "get", "ended"}

\* Where main and the accept threads are, and what that means for the accept:
\* it is outstanding exactly when main has started it and no thread handles it.
Places ==
  /\ at \in [Callers -> AtMain \cup AtThread]
  /\ turns \in 0..3
  /\ at[Main] \in AtMain
  /\ \A t \in AcceptThreads : at[t] \in AtThread
  /\ at[Main] = "get" => turns < 3
  /\ turns < 3 => at[Main] = "get"
  /\ at[Main] \in {"get", "start"} => \A t \in AcceptThreads : at[t] = "none"
Calls == \A c \in Callers : InCall(c) => at[c] = "get"
OneBusy ==
  /\ armed \in BOOLEAN
  /\ \A t, u \in AcceptThreads : at[t] \in Busy /\ at[u] \in Busy => t = u
  /\ armed => turns = 3 /\ \A t \in AcceptThreads : at[t] \notin Busy
  /\ turns = 3 /\ ~armed => \E t \in AcceptThreads : at[t] \in Busy
ChainInv == Places /\ Calls /\ OneBusy

\* Steps that concern neither the accepts nor get_io_service.
OffChain == UNCHANGED <<vars, at, armed, turns>>

\* Everything but a step of the chain leaves it alone.
LEMMA StepKinds ==
  ASSUME ServerNext
  PROVE  \/ MainTakesIoService \/ MainStarts \/ MainJoins
         \/ \E i \in IoServices : MainRunsIo(i)
         \/ \E t \in AcceptThreads :
              StartAccept(t) \/ HandleAccept(t) \/ HandleAcceptError(t) \/ Open(t)
                \/ ArmRead(t) \/ AcceptThreadEnds(t)
         \/ OffChain
  BY DEF ServerNext, MainStep, AcceptStep, IoStep, ExitStep, OffChain, OpenThrows, ReadFails,
         OnClose, HandleSignal, IoThreadEnds, SeeStop, StopAccept, StopIo, StopTask, JoinTask,
         JoinIo, Exit, WorkEnds, Connect, Leave, Signal, vars, acceptVars, sessionVars

\* While one thread is at get_io_service no other is in it.
LEMMA Exclusive ==
  ASSUME ChainInv, NEW c \in Callers, at[c] = "get"
  PROVE  \A d \in Callers \ {c} : ~InCall(d)
<1> SUFFICES ASSUME NEW d \in Callers \ {c}, InCall(d) PROVE FALSE
  OBVIOUS
<1>1. at[d] = "get"
  BY DEF ChainInv, Places, Calls, OneBusy
<1>2. CASE c = Main
  BY <1>1, <1>2 DEF ChainInv, Places, Calls, OneBusy, AcceptThreads
<1>3. CASE d = Main
  BY <1>1, <1>3 DEF ChainInv, Places, Calls, OneBusy, AcceptThreads
<1>4. CASE c # Main /\ d # Main
  BY <1>1, <1>4 DEF ChainInv, Places, Calls, OneBusy, AcceptThreads, Busy
<1> QED BY <1>2, <1>3, <1>4

\* A step of the accepts keeps the chain and the calls in it.
LEMMA ChainStep ==
  ASSUME ServerAssumption, CallerInv, ChainInv, [ServerNext]_serverVars
  PROVE  CallerInv' /\ ChainInv' /\ TakesTurn
<1> USE ServerAssumption DEF ServerAssumption
<1>1. CASE UNCHANGED serverVars \/ OffChain
  <2>1. UNCHANGED <<vars, at, armed, turns>>
    BY <1>1 DEF serverVars, acceptVars, OffChain
  <2>2. CallerInv' /\ TakesTurn
    BY <2>1, CallerStutter
  <2>3. ChainInv'
    BY <2>1 DEF ChainInv, Places, Calls, OneBusy, InCall, vars
  <2> QED BY <2>2, <2>3
<1>2. CASE MainTakesIoService
  <2>1. at[Main] = "get" /\ CallStep(Main)
    BY <1>2 DEF MainTakesIoService, GetIoService, CallStep
  <2>2. \A d \in Callers \ {Main} : ~InCall(d)
    BY <2>1, Exclusive
  <2>3. CallerInv' /\ TakesTurn
    BY <2>1, <2>2, CallerStep
  <2>4. \A d \in Callers \ {Main} : pc'[d] = "index"
    BY <2>1, <2>2, CallFrame DEF InCall
  <2>5. \A t \in AcceptThreads : at[t] = "none"
    BY <2>1 DEF ChainInv, Places, Calls, OneBusy
  <2>6. turns \in 0..2 /\ armed = FALSE
    BY <2>1 DEF ChainInv, Places, Calls, OneBusy
  <2>7. CASE UNCHANGED <<at, armed>> /\ turns' \in 0..2
    <3>1. \A c \in Callers : pc'[c] # "index" => at'[c] = "get"
      BY <2>1, <2>4, <2>7
    <3>2. armed' = FALSE /\ at'[Main] = "get" /\ \A t \in AcceptThreads : at'[t] = "none"
      BY <2>1, <2>5, <2>6, <2>7
    <3>3. turns' < 3 /\ turns' # 3 /\ turns' \in 0..3
      BY <2>7
    <3>4. UNCHANGED <<at, armed>>
      BY <2>7
    <3>5. Calls'
      BY <3>1 DEF Calls, InCall
    <3>6. Places'
      BY <3>2, <3>3, <3>4 DEF ChainInv, Places
    <3>7. OneBusy'
      BY <3>2, <3>3 DEF OneBusy, Busy
    <3> QED BY <2>3, <3>5, <3>6, <3>7 DEF ChainInv
  <2>8. CASE /\ pc'[Main] = "index" /\ turns' = 3 /\ armed' = TRUE
             /\ at' = [at EXCEPT ![Main] = "start"]
    <3>1. at'[Main] = "start" /\ \A t \in AcceptThreads : at'[t] = "none"
      BY <2>5, <2>8 DEF ChainInv, Places, Calls, OneBusy, AcceptThreads
    <3>2. at' \in [Callers -> AtMain \cup AtThread]
      BY <2>8 DEF ChainInv, Places, Calls, OneBusy, AtMain
    <3>3. \A c \in Callers : pc'[c] = "index"
      BY <2>4, <2>8
    <3>4. turns' = 3 /\ armed' = TRUE
      BY <2>8
    <3>5. Calls'
      BY <3>3 DEF Calls, InCall
    <3>6. Places'
      BY <3>1, <3>2, <3>4 DEF Places, AtMain, AtThread
    <3>7. OneBusy'
      BY <3>1, <3>4 DEF OneBusy, Busy
    <3> QED BY <2>3, <3>5, <3>6, <3>7 DEF ChainInv
  <2>9. \/ UNCHANGED <<at, armed>> /\ turns' \in 0..2
        \/ /\ pc'[Main] = "index" /\ turns' = 3 /\ armed' = TRUE
           /\ at' = [at EXCEPT ![Main] = "start"]
    BY <1>2, <2>6 DEF MainTakesIoService, Returns, AsyncAccept
  <2> QED BY <2>3, <2>7, <2>8, <2>9
<1>3. CASE MainStarts
  <2>1. UNCHANGED <<vars, turns, armed>>
    BY <1>3 DEF MainStarts
  <2>2. at' = [c \in Callers |-> IF c = Main THEN "run" ELSE "idle"] /\ at[Main] = "start"
    BY <1>3 DEF MainStarts
  <2>3. CallerInv' /\ TakesTurn
    BY <2>1, CallerStutter
  <2>4. turns = 3 /\ armed /\ \A c \in Callers : ~InCall(c)
    BY <2>2 DEF ChainInv, Places, Calls, OneBusy, AcceptThreads, Busy
  <2>5. ChainInv'
    BY <2>1, <2>2, <2>4 DEF ChainInv, Places, Calls, OneBusy, InCall, AcceptThreads,
                            AtMain, AtThread, Busy, vars
  <2> QED BY <2>3, <2>5
<1>4. CASE MainJoins \/ \E i \in IoServices : MainRunsIo(i)
  <2>1. UNCHANGED <<vars, turns, armed>>
    BY <1>4 DEF MainJoins, MainRunsIo
  <2>2. PICK p \in {"run", "join", "heart"} :
          at' = [at EXCEPT ![Main] = p] /\ at[Main] \in {"run", "join"}
    BY <1>4 DEF MainJoins, MainRunsIo
  <2>3. CallerInv' /\ TakesTurn
    BY <2>1, CallerStutter
  <2>4. turns = 3 /\ ~InCall(Main)
    BY <2>2 DEF ChainInv, Places, Calls, OneBusy
  <2>5. at'[Main] = p /\ \A t \in AcceptThreads : at'[t] = at[t]
    BY <2>2 DEF ChainInv, Places, Calls, OneBusy, AcceptThreads
  <2>6. at' \in [Callers -> AtMain \cup AtThread]
    BY <2>2 DEF ChainInv, Places, Calls, OneBusy, AtMain
  <2>7. ChainInv'
    BY <2>1, <2>4, <2>5, <2>6 DEF ChainInv, Places, Calls, OneBusy, InCall, AcceptThreads,
                                  AtMain, AtThread, Busy, vars
  <2> QED BY <2>3, <2>7
<1>5. ASSUME NEW t \in AcceptThreads,
             StartAccept(t) \/ HandleAccept(t) \/ HandleAcceptError(t) \/ Open(t)
               \/ ArmRead(t) \/ AcceptThreadEnds(t)
      PROVE  CallerInv' /\ ChainInv' /\ TakesTurn
  <2> DEFINE Goes(p) == at' = [at EXCEPT ![t] = p]
  <2>1. t \in Callers /\ t # Main
    BY DEF AcceptThreads
  <2>2. at[t] # "none" => turns = 3 /\ at[Main] \in {"run", "join", "heart"}
    BY <2>1 DEF ChainInv, Places, Calls, OneBusy, AtMain
  <2>3. CASE StartAccept(t)
    <3>1. at[t] = "get" /\ CallStep(t) /\ turns' = turns
      BY <2>3 DEF StartAccept, GetIoService, CallStep
    <3>2. \A d \in Callers \ {t} : ~InCall(d)
      BY <2>1, <3>1, Exclusive
    <3>3. CallerInv' /\ TakesTurn
      BY <2>1, <3>1, <3>2, CallerStep
    <3>4. \A d \in Callers \ {t} : pc'[d] = "index"
      BY <2>1, <3>1, <3>2, CallFrame DEF InCall
    <3>5. \A u \in AcceptThreads \ {t} : at[u] \notin Busy
      BY <3>1 DEF ChainInv, Places, Calls, OneBusy, Busy
    <3>6. CASE UNCHANGED <<at, armed>>
      <4>1. \A c \in Callers : pc'[c] # "index" => at'[c] = "get"
        BY <3>1, <3>4, <3>6
      <4>2. Calls'
        BY <4>1 DEF Calls, InCall
      <4>3. Places' /\ OneBusy'
        BY <3>1, <3>6 DEF ChainInv, Places, OneBusy
      <4> QED BY <3>3, <4>2, <4>3 DEF ChainInv
    <3>7. CASE pc'[t] = "index" /\ armed' = TRUE /\ Goes("idle")
      <4>1. /\ at'[t] = "idle" /\ \A u \in Callers \ {t} : at'[u] = at[u]
            /\ at' \in [Callers -> AtMain \cup AtThread]
        BY <2>1, <3>7 DEF ChainInv, Places, Calls, OneBusy, AtThread
      <4>2. \A c \in Callers : pc'[c] = "index"
        BY <3>4, <3>7
      <4>3. turns = 3 /\ at[Main] \in {"run", "join", "heart"}
        BY <2>2, <3>1
      <4>4. \A u \in AcceptThreads : at'[u] \notin Busy /\ at'[u] \in AtThread
        BY <3>5, <4>1 DEF ChainInv, Places, Calls, OneBusy, AcceptThreads, AtThread, Busy
      <4>5. Calls'
        BY <4>2 DEF Calls, InCall
      <4>6. at'[Main] = at[Main]
        BY <2>1, <4>1 DEF ServerAssumption
      <4>7. Places'
        BY <3>1, <4>1, <4>3, <4>4, <4>6 DEF Places, AtMain
      <4>8. OneBusy'
        BY <3>1, <3>7, <4>3, <4>4 DEF OneBusy
      <4> QED BY <3>3, <4>5, <4>7, <4>8 DEF ChainInv
    <3> QED BY <2>3, <3>3, <3>6, <3>7 DEF StartAccept, Returns, AsyncAccept
  <2>4. CASE ~StartAccept(t)
    <3>1. UNCHANGED <<vars, turns>>
      BY <1>5, <2>4 DEF HandleAccept, HandleAcceptError, Open, ArmRead, AcceptThreadEnds
    <3>2. CallerInv' /\ TakesTurn
      BY <3>1, CallerStutter
    <3>3. CASE HandleAccept(t) \/ HandleAcceptError(t)
      <4>1. PICK p \in {"open", "get"} : Goes(p)
        BY <3>3 DEF HandleAccept, HandleAcceptError
      <4>2. at[t] = "idle" /\ armed /\ armed' = FALSE
        BY <3>3 DEF HandleAccept, HandleAcceptError
      <4>3. /\ at'[t] = p /\ \A u \in Callers \ {t} : at'[u] = at[u]
            /\ at' \in [Callers -> AtMain \cup AtThread]
        BY <2>1, <4>1 DEF ChainInv, Places, Calls, OneBusy, AtThread
      <4>4. ChainInv'
        BY <2>1, <2>2, <3>1, <4>2, <4>3
           DEF ChainInv, Places, Calls, OneBusy, InCall, AcceptThreads,
               AtMain, AtThread, Busy, vars
      <4> QED BY <3>2, <4>4
    <3>4. CASE Open(t) \/ ArmRead(t)
      <4>1. PICK p \in {"arm", "get"} : Goes(p)
        BY <3>4 DEF Open, ArmRead
      <4>2. at[t] \in {"open", "arm"} /\ armed' = armed
        BY <3>4 DEF Open, ArmRead
      <4>3. /\ at'[t] = p /\ \A u \in Callers \ {t} : at'[u] = at[u]
            /\ at' \in [Callers -> AtMain \cup AtThread]
        BY <2>1, <4>1 DEF ChainInv, Places, Calls, OneBusy, AtThread
      <4>4. ChainInv'
        BY <2>1, <2>2, <3>1, <4>2, <4>3
           DEF ChainInv, Places, Calls, OneBusy, InCall, AcceptThreads,
               AtMain, AtThread, Busy, vars
      <4> QED BY <3>2, <4>4
    <3>5. CASE AcceptThreadEnds(t)
      <4>1. at[t] = "idle" /\ armed' = armed /\ Goes("ended")
        BY <3>5 DEF AcceptThreadEnds
      <4>3. /\ at'[t] = "ended" /\ \A u \in Callers \ {t} : at'[u] = at[u]
            /\ at' \in [Callers -> AtMain \cup AtThread]
        BY <2>1, <4>1 DEF ChainInv, Places, Calls, OneBusy, AtThread
      <4>4. ChainInv'
        BY <2>1, <2>2, <3>1, <4>1, <4>3
           DEF ChainInv, Places, Calls, OneBusy, InCall, AcceptThreads,
               AtMain, AtThread, Busy, vars
      <4> QED BY <3>2, <4>4
    <3> QED BY <1>5, <2>4, <3>3, <3>4, <3>5
  <2> QED BY <2>3, <2>4
<1> QED BY <1>1, <1>2, <1>3, <1>4, <1>5, StepKinds

\* The chain when main begins.
LEMMA ChainInit == ASSUME ServerAssumption, ServerInit PROVE CallerInv /\ ChainInv
<1>1. CallerInv
  BY CallerInit DEF ServerInit
<1>2. \A c \in Callers : pc[c] = "index"
  BY DEF ServerInit, Init
<1>3. at[Main] = "get" /\ \A t \in AcceptThreads : at[t] = "none"
  BY DEF ServerAssumption, ServerInit, AcceptThreads
<1>4. at \in [Callers -> AtMain \cup AtThread] /\ armed = FALSE /\ turns = 0
  BY DEF ServerInit, AtMain, AtThread
<1>5. ChainInv
  <2>1. Places
    BY <1>3, <1>4 DEF Places, AtMain, AtThread
  <2>2. Calls
    BY <1>2 DEF Calls, InCall
  <2>3. turns # 3 /\ armed = FALSE
    BY <1>4
  <2>4. OneBusy
    BY <1>3, <2>3 DEF OneBusy, Busy
  <2> QED BY <2>1, <2>2, <2>4 DEF ChainInv
<1> QED BY <1>1, <1>5

\* The chain and the calls in it are kept for ever.
LEMMA ChainAlways == ServerSpec => [](CallerInv /\ ChainInv)
<1>1. ServerInit => CallerInv /\ ChainInv
  BY ServerAssumption, ChainInit
<1>2. (CallerInv /\ ChainInv) /\ [ServerNext]_serverVars => (CallerInv /\ ChainInv)'
  BY ServerAssumption, ChainStep
<1> QED BY <1>1, <1>2, PTL DEF ServerSpec

\* However many threads run accept handlers, there is exactly one accept at
\* any time, outstanding or in the hands of one thread.
THEOREM OneAccept == ServerSpec => []AcceptChain
<1>1. ChainInv => AcceptChain
  <2> SUFFICES ASSUME ChainInv, turns = 3
               PROVE \/ armed /\ InHandler = {}
                     \/ ~armed /\ \E t \in AcceptThreads : InHandler = {t}
    BY DEF AcceptChain
  <2>1. CASE armed
    BY <2>1 DEF ChainInv, Places, Calls, OneBusy, InHandler, Busy
  <2>2. CASE ~armed
    <3>1. PICK t \in AcceptThreads : at[t] \in Busy
      BY <2>2 DEF ChainInv, Places, Calls, OneBusy
    <3>2. InHandler = {t}
      BY <3>1 DEF ChainInv, Places, Calls, OneBusy, InHandler, Busy
    <3> QED BY <2>2, <3>1, <3>2
  <2> QED BY <2>1, <2>2 DEF ChainInv, Places, Calls, OneBusy
<1> QED BY <1>1, ChainAlways, PTL

\* The accept threads call get_io_service one at a time, so that the index
\* never leaves the pool although it is not locked.
THEOREM ServerIndexInPool == ServerSpec => []IndexInPool
  BY ChainAlways, CallerInPool, PTL

\* And the io_services are handed out in turn.
THEOREM ServerRoundRobin == ServerSpec => RoundRobin
<1>1. CallerInv /\ ChainInv /\ [ServerNext]_serverVars =>
        [\A c \in Callers : pc[c] = "index" /\ pc'[c] = "load" =>
           last' = (last + 1) % PoolSize]_vars
  BY ServerAssumption, ChainStep DEF TakesTurn
<1> QED BY <1>1, ChainAlways, PTL DEF ServerSpec, RoundRobin

----------------------------------------------------------------------------
(* Types.                                                                   *)

\* The accepts, the sessions and the life of the process, typed apart.
AcceptTypes ==
  /\ at \in [Callers -> {"none", "get", "start", "run", "join", "heart", "idle", "open",
                         "arm", "ended"}]
  /\ hand \in [Callers -> 0..MaxConnections]
  /\ turns \in 0..3 /\ armed \in BOOLEAN /\ target \in IoServices
  /\ errors \in 0..MaxErrors
SessionTypes ==
  /\ queue \in Seq(Connections)
  /\ client \in [Connections -> {"none", "up", "fin", "reset"}]
  /\ addr \in [Connections -> Addresses]
  /\ sess \in [Connections -> {"none", "opened", "reading", "closing", "closed"}]
  /\ io \in [Connections -> IoServices]
  /\ map_ \in [Addresses -> 0..MaxConnections]
LifeTypes ==
  /\ ioThread \in [IoServices -> {"none", "running", "ended"}] /\ ioStop \subseteq IoServices
  /\ worker \in [Workers -> {"in work", "ended"}]

\* A thread that is about to open a session has a connection in hand.
HandHolds == \A t \in AcceptThreads : at[t] \in {"open", "arm"} => hand[t] \in Connections

Typed == AcceptTypes /\ SessionTypes /\ LifeTypes /\ HandHolds

\* The first state is typed.
LEMMA TypedInit == ASSUME ServerAssumption, ServerInit PROVE Typed
<1>0. 0 \in IoServices /\ 0 \in 0..MaxConnections /\ 0 \in 0..MaxErrors
  BY PoolSizeAssumption DEF ServerAssumption, IoServices
<1>1. AcceptTypes
  <2>0. turns = 0 /\ armed = FALSE
    BY DEF ServerInit
  <2>1. turns \in 0..3
    BY <2>0
  <2>2. /\ hand \in [Callers -> 0..MaxConnections] /\ errors \in 0..MaxErrors
        /\ target \in IoServices
    BY <1>0 DEF ServerInit
  <2>3. at \in [Callers -> {"none", "get", "start", "run", "join", "heart", "idle", "open",
                           "arm", "ended"}]
    BY DEF ServerInit
  <2> QED BY <2>0, <2>1, <2>2, <2>3 DEF AcceptTypes
<1>2. SessionTypes
  <2>0. queue = <<>> /\ addr \in [Connections -> Addresses]
    BY DEF ServerInit
  <2>1. queue \in Seq(Connections)
    BY <2>0
  <2>2. io \in [Connections -> IoServices] /\ map_ \in [Addresses -> 0..MaxConnections]
    BY <1>0 DEF ServerInit
  <2> QED BY <2>0, <2>1, <2>2 DEF SessionTypes, ServerInit
<1>3. LifeTypes
  BY DEF LifeTypes, ServerInit
<1>4. HandHolds
  BY DEF HandHolds, AcceptThreads, ServerInit
<1> QED BY <1>1, <1>2, <1>3, <1>4 DEF Typed

\* A step of an accept thread or of main, and what it does to the types.
LEMMA TypedAccept ==
  ASSUME ServerAssumption, CallerInv, ChainInv, Typed, NEW t \in AcceptThreads,
         AcceptStep(t) \/ HandleAccept(t) \/ HandleAcceptError(t)
  PROVE  Typed'
<1> USE ServerAssumption DEF ServerAssumption
<1>0. /\ AcceptTypes /\ SessionTypes /\ LifeTypes /\ HandHolds
      /\ t \in Callers /\ Connections \subseteq 0..MaxConnections
  BY DEF Typed, AcceptThreads, Connections
<1>1. CASE StartAccept(t)
  <2>1. got[t] \in IoServices
    BY <1>0 DEF CallerInv, CallerAt, IoServices
  <2>2. AcceptTypes'
    BY <1>0, <1>1, <2>1 DEF StartAccept, AcceptTypes, AsyncAccept
  <2>3. HandHolds'
    BY <1>0, <1>1 DEF StartAccept, HandHolds, AcceptTypes, AsyncAccept, AcceptThreads
  <2>4. SessionTypes' /\ LifeTypes'
    BY <1>0, <1>1 DEF StartAccept, SessionTypes, LifeTypes, sessionVars, lifeVars
  <2> QED BY <2>2, <2>3, <2>4 DEF Typed
<1>2. CASE HandleAccept(t)
  <2>1. Head(queue) \in Connections /\ Tail(queue) \in Seq(Connections)
    BY <1>0, <1>2 DEF HandleAccept, SessionTypes
  <2>2. AcceptTypes'
    BY <1>0, <1>2, <2>1 DEF HandleAccept, AcceptTypes
  <2>3. HandHolds'
    BY <1>0, <1>2, <2>1 DEF HandleAccept, HandHolds, AcceptTypes, AcceptThreads
  <2>4. SessionTypes'
    BY <1>0, <1>2, <2>1 DEF HandleAccept, SessionTypes, AcceptTypes
  <2>5. LifeTypes'
    BY <1>0, <1>2 DEF HandleAccept, LifeTypes, lifeVars
  <2> QED BY <2>2, <2>3, <2>4, <2>5 DEF Typed
<1>3. CASE HandleAcceptError(t)
  <2>1. AcceptTypes'
    <3>1. errors' \in 0..MaxErrors
      BY <1>0, <1>3 DEF HandleAcceptError, AcceptTypes
    <3>2. at' = [at EXCEPT ![t] = "get"] /\ armed' = FALSE /\ UNCHANGED <<hand, turns, target>>
      BY <1>3 DEF HandleAcceptError
    <3> QED BY <1>0, <3>1, <3>2 DEF AcceptTypes
  <2>2. HandHolds'
    BY <1>0, <1>3 DEF HandleAcceptError, HandHolds, AcceptTypes, AcceptThreads
  <2>3. SessionTypes' /\ LifeTypes'
    BY <1>0, <1>3 DEF HandleAcceptError, SessionTypes, LifeTypes, sessionVars, lifeVars
  <2> QED BY <2>1, <2>2, <2>3 DEF Typed
<1>4. CASE Open(t)
  <2>1. hand[t] \in Connections
    BY <1>0, <1>4 DEF Open, HandHolds
  <2>2. AcceptTypes'
    BY <1>0, <1>4 DEF Open, AcceptTypes
  <2>3. HandHolds'
    BY <1>0, <1>4, <2>1 DEF Open, HandHolds, AcceptTypes, AcceptThreads
  <2>4. SessionTypes'
    BY <1>0, <1>4, <2>1 DEF Open, SessionTypes
  <2>5. LifeTypes'
    BY <1>0, <1>4 DEF Open, LifeTypes, lifeVars
  <2> QED BY <2>2, <2>3, <2>4, <2>5 DEF Typed
<1>5. CASE OpenThrows(t)
  BY <1>0, <1>5 DEF OpenThrows, Typed, AcceptTypes, SessionTypes, LifeTypes, HandHolds,
                    acceptVars, sessionVars
<1>6. CASE ArmRead(t)
  <2>1. hand[t] \in Connections
    BY <1>0, <1>6 DEF ArmRead, HandHolds
  <2>2. AcceptTypes'
    BY <1>0, <1>6 DEF ArmRead, AcceptTypes
  <2>3. HandHolds'
    BY <1>0, <1>6 DEF ArmRead, HandHolds, AcceptTypes, AcceptThreads
  <2>4. SessionTypes'
    BY <1>0, <1>6, <2>1 DEF ArmRead, SessionTypes
  <2>5. LifeTypes'
    BY <1>0, <1>6 DEF ArmRead, LifeTypes, lifeVars
  <2> QED BY <2>2, <2>3, <2>4, <2>5 DEF Typed
<1>7. CASE AcceptThreadEnds(t)
  <2>1. AcceptTypes'
    BY <1>0, <1>7 DEF AcceptThreadEnds, AcceptTypes
  <2>2. HandHolds'
    BY <1>0, <1>7 DEF AcceptThreadEnds, HandHolds, AcceptTypes, AcceptThreads
  <2>3. SessionTypes' /\ LifeTypes'
    BY <1>0, <1>7 DEF AcceptThreadEnds, SessionTypes, LifeTypes, sessionVars, lifeVars
  <2> QED BY <2>1, <2>2, <2>3 DEF Typed
<1> QED BY <1>1, <1>2, <1>3, <1>4, <1>5, <1>6, <1>7 DEF AcceptStep

\* The other steps keep the types.
LEMMA TypedStep ==
  ASSUME ServerAssumption, CallerInv, ChainInv, Typed, [ServerNext]_serverVars
  PROVE  Typed'
<1> USE ServerAssumption DEF ServerAssumption
<1>0. /\ AcceptTypes /\ SessionTypes /\ LifeTypes /\ HandHolds
      /\ Main \in Callers /\ Main \notin AcceptThreads
  BY DEF Typed, AcceptThreads
<1>1. CASE UNCHANGED serverVars
  BY <1>0, <1>1 DEF serverVars, acceptVars, sessionVars, lifeVars, Typed, AcceptTypes,
                    SessionTypes, LifeTypes, HandHolds
<1>2. CASE \E t \in AcceptThreads : AcceptStep(t) \/ HandleAccept(t) \/ HandleAcceptError(t)
  BY <1>2, TypedAccept
<1>3. CASE MainTakesIoService
  <2>1. got[Main] \in IoServices
    BY <1>0 DEF CallerInv, CallerAt, IoServices
  <2>2. turns < 3
    BY <1>3 DEF MainTakesIoService, GetIoService, ChainInv, Places
  <2>3. AcceptTypes'
    <3>1. turns' \in 0..3
      BY <1>0, <1>3, <2>2 DEF MainTakesIoService, AcceptTypes
    <3>2. /\ armed' = armed \/ armed' = TRUE
          /\ target' = target \/ target' = got[Main]
          /\ at' = at \/ at' = [at EXCEPT ![Main] = "start"]
          /\ UNCHANGED <<hand, errors>>
      BY <1>3 DEF MainTakesIoService, AsyncAccept
    <3> QED BY <1>0, <2>1, <3>1, <3>2 DEF AcceptTypes
  <2>4. HandHolds'
    BY <1>0, <1>3 DEF MainTakesIoService, HandHolds, AcceptTypes, AsyncAccept, AcceptThreads
  <2>5. SessionTypes' /\ LifeTypes'
    BY <1>0, <1>3 DEF MainTakesIoService, SessionTypes, LifeTypes, sessionVars, lifeVars
  <2> QED BY <2>3, <2>4, <2>5 DEF Typed
<1>4. CASE MainStarts
  <2>1. AcceptTypes'
    BY <1>0, <1>4 DEF MainStarts, AcceptTypes
  <2>2. HandHolds'
    BY <1>0, <1>4 DEF MainStarts, HandHolds, AcceptThreads
  <2>3. SessionTypes' /\ LifeTypes'
    BY <1>0, <1>4 DEF MainStarts, SessionTypes, LifeTypes, sessionVars
  <2> QED BY <2>1, <2>2, <2>3 DEF Typed
<1>5. ASSUME NEW i \in IoServices, MainRunsIo(i) PROVE Typed'
  <2>1. AcceptTypes'
    BY <1>0, <1>5 DEF MainRunsIo, AcceptTypes
  <2>2. HandHolds'
    BY <1>0, <1>5 DEF MainRunsIo, HandHolds, AcceptTypes, AcceptThreads
  <2>3. SessionTypes' /\ LifeTypes'
    BY <1>0, <1>5 DEF MainRunsIo, SessionTypes, LifeTypes, sessionVars
  <2> QED BY <2>1, <2>2, <2>3 DEF Typed
<1>6. CASE MainJoins
  <2>1. AcceptTypes'
    BY <1>0, <1>6 DEF MainJoins, AcceptTypes
  <2>2. HandHolds'
    BY <1>0, <1>6 DEF MainJoins, HandHolds, AcceptTypes, AcceptThreads
  <2>3. SessionTypes' /\ LifeTypes'
    BY <1>0, <1>6 DEF MainJoins, SessionTypes, LifeTypes, sessionVars, lifeVars
  <2> QED BY <2>1, <2>2, <2>3 DEF Typed
<1>7. ASSUME NEW n \in Connections,
             ReadFails(n) \/ OnClose(n) \/ Connect(n) \/ Leave(n)
      PROVE  Typed'
  <2>1. UNCHANGED <<acceptVars, lifeVars>>
    BY <1>7 DEF ReadFails, OnClose, Connect, Leave
  <2>2. AcceptTypes' /\ LifeTypes' /\ HandHolds'
    BY <1>0, <2>1 DEF acceptVars, lifeVars, AcceptTypes, LifeTypes, HandHolds
  <2>3. SessionTypes'
    <3>1. CASE ReadFails(n)
      BY <1>0, <3>1 DEF ReadFails, SessionTypes
    <3>2. CASE OnClose(n)
      <4>1. 0 \in 0..MaxConnections
        OBVIOUS
      <4> QED BY <1>0, <3>2, <4>1 DEF OnClose, SessionTypes
    <3>3. CASE Connect(n)
      BY <1>0, <3>3 DEF Connect, SessionTypes
    <3>4. CASE Leave(n)
      BY <1>0, <3>4 DEF Leave, SessionTypes
    <3> QED BY <1>7, <3>1, <3>2, <3>3, <3>4
  <2> QED BY <2>2, <2>3 DEF Typed
<1>8. CASE UNCHANGED <<acceptVars, sessionVars>> /\ LifeTypes'
  BY <1>0, <1>8 DEF acceptVars, sessionVars, Typed, AcceptTypes, SessionTypes, HandHolds
<1>9. CASE HandleSignal \/ Signal \/ ExitStep
  <2>1. UNCHANGED <<acceptVars, sessionVars, ioThread, worker>>
    BY <1>9 DEF HandleSignal, Signal, ExitStep, SeeStop, StopAccept, StopIo, StopTask,
                JoinTask, JoinIo, Exit
  <2>2. ioStop' = ioStop \/ \E i \in IoServices : ioStop' = ioStop \cup {i}
    BY <1>9 DEF HandleSignal, Signal, ExitStep, SeeStop, StopAccept, StopIo, StopTask,
                JoinTask, JoinIo, Exit
  <2>3. LifeTypes'
    BY <1>0, <2>1, <2>2 DEF LifeTypes
  <2> QED BY <1>8, <2>1, <2>3
<1>10. ASSUME NEW i \in IoServices, IoThreadEnds(i) PROVE Typed'
  BY <1>0, <1>8, <1>10 DEF IoThreadEnds, LifeTypes
<1>11. ASSUME NEW w \in Workers, WorkEnds(w) PROVE Typed'
  BY <1>0, <1>8, <1>11 DEF WorkEnds, LifeTypes
<1> QED BY <1>1, <1>2, <1>3, <1>4, <1>5, <1>6, <1>7, <1>9, <1>10, <1>11
           DEF ServerNext, MainStep, IoStep

\* What is known of a state: the types, the calls and the chain.
LEMMA TypedAlways == ServerSpec => [](CallerInv /\ ChainInv /\ Typed)
<1>1. ServerInit => Typed
  BY ServerAssumption, TypedInit
<1>2. CallerInv /\ ChainInv /\ Typed /\ [ServerNext]_serverVars => Typed'
  BY ServerAssumption, TypedStep
<1> QED BY <1>1, <1>2, ChainAlways, PTL DEF ServerSpec

\* Types of the accepting side, the sessions and the life cycle, with a
\* connection in every hand that opens one and only io_services of the pool.
THEOREM ServerTypes == ServerSpec => []ServerTypeOK
<1>1. Typed => ServerTypeOK
  BY DEF Typed, AcceptTypes, SessionTypes, LifeTypes, ServerTypeOK
<1> QED BY <1>1, TypedAlways, PTL

----------------------------------------------------------------------------
(* The map of the accepted sessions.                                        *)

\* No step leaves a session in the map that is over.
LEMMA EntryStep ==
  ASSUME Typed, EntryLive, [ServerNext]_serverVars
  PROVE  EntryLive'
<1>0. SessionTypes /\ HandHolds
  BY DEF Typed
<1>1. CASE UNCHANGED <<map_, sess, addr>>
  BY <1>1 DEF EntryLive
<1>2. ASSUME NEW t \in AcceptThreads, Open(t) PROVE EntryLive'
  <2>1. hand[t] \in Connections
    BY <1>0, <1>2 DEF Open, HandHolds
  <2>2. /\ map_' = [map_ EXCEPT ![addr[hand[t]]] = hand[t]]
        /\ sess' = [sess EXCEPT ![hand[t]] = "opened"] /\ addr' = addr
    BY <1>2 DEF Open
  <2>3. ASSUME NEW a \in Addresses, map_'[a] # 0
        PROVE  addr'[map_'[a]] = a /\ sess'[map_'[a]] \in {"opened", "reading", "closing"}
    <3>1. CASE a = addr[hand[t]]
      BY <1>0, <2>1, <2>2, <3>1 DEF SessionTypes
    <3>2. CASE a # addr[hand[t]]
      <4>1. map_'[a] = map_[a] /\ map_[a] \in Connections
        BY <1>0, <2>2, <2>3, <3>2 DEF SessionTypes, Connections
      <4> QED BY <1>0, <2>2, <2>3, <3>2, <4>1 DEF SessionTypes, EntryLive
    <3> QED BY <3>1, <3>2
  <2> QED BY <2>3 DEF EntryLive
<1>3. ASSUME NEW t \in AcceptThreads, ArmRead(t) PROVE EntryLive'
  <2>1. hand[t] \in Connections
    BY <1>0, <1>3 DEF ArmRead, HandHolds
  <2>2. \A n \in Connections : sess'[n] = sess[n] \/ sess'[n] = "reading"
    BY <1>0, <1>3, <2>1 DEF ArmRead, SessionTypes
  <2>3. UNCHANGED <<map_, addr>>
    BY <1>3 DEF ArmRead
  <2> QED BY <1>0, <2>2, <2>3 DEF EntryLive, SessionTypes, Connections
<1>4. ASSUME NEW n \in Connections, ReadFails(n) PROVE EntryLive'
  <2>1. \A m \in Connections : sess'[m] = sess[m] \/ sess'[m] = "closing"
    BY <1>0, <1>4 DEF ReadFails, SessionTypes
  <2>2. UNCHANGED <<map_, addr>>
    BY <1>4 DEF ReadFails
  <2> QED BY <1>0, <2>1, <2>2 DEF EntryLive, SessionTypes, Connections
<1>5. ASSUME NEW n \in Connections, OnClose(n) PROVE EntryLive'
  <2>1. /\ map_' = [map_ EXCEPT ![addr[n]] = 0] /\ addr' = addr
        /\ sess' = [sess EXCEPT ![n] = "closed"]
    BY <1>5 DEF OnClose
  <2>2. ASSUME NEW a \in Addresses, map_'[a] # 0
        PROVE  addr'[map_'[a]] = a /\ sess'[map_'[a]] \in {"opened", "reading", "closing"}
    <3>1. a # addr[n] /\ map_'[a] = map_[a] /\ map_[a] \in Connections
      BY <1>0, <2>1, <2>2 DEF SessionTypes, Connections
    <3> QED BY <1>0, <2>1, <2>2, <3>1 DEF SessionTypes, EntryLive
  <2> QED BY <2>2 DEF EntryLive
<1>6. \/ UNCHANGED <<map_, sess, addr>>
      \/ \E t \in AcceptThreads : Open(t) \/ ArmRead(t)
      \/ \E n \in Connections : ReadFails(n) \/ OnClose(n)
  BY DEF ServerNext, MainStep, AcceptStep, IoStep, ExitStep, MainTakesIoService, MainStarts,
         MainRunsIo, MainJoins, StartAccept, HandleAccept, HandleAcceptError, OpenThrows,
         AcceptThreadEnds, HandleSignal, IoThreadEnds, SeeStop, StopAccept, StopIo, StopTask,
         JoinTask, JoinIo, Exit, WorkEnds, Connect, Leave, Signal, serverVars, sessionVars
<1> QED BY <1>1, <1>2, <1>3, <1>4, <1>5, <1>6

\* The map of accepted sessions never holds a session that is over, although
\* a session that closes erases the entry of its address whoever's it is.
THEOREM EntriesLive == ServerSpec => []EntryLive
<1>1. ServerInit => EntryLive
  BY DEF ServerInit, EntryLive
<1>2. Typed /\ EntryLive /\ [ServerNext]_serverVars => EntryLive'
  BY EntryStep
<1> QED BY <1>1, <1>2, TypedAlways, PTL DEF ServerSpec

----------------------------------------------------------------------------
(* The end of the process.                                                  *)

Waiting(n) == \E j \in 1..Len(queue) : queue[j] = n
InHand(n) == \E t \in AcceptThreads : at[t] \in {"open", "arm"} /\ hand[t] = n

\* A connection is in the queue once, and before it has a session.
QueueInv ==
  /\ \A j, k \in 1..Len(queue) : queue[j] = queue[k] => j = k
  /\ \A n \in Connections : Waiting(n) => sess[n] = "none" /\ client[n] # "none" /\ ~InHand(n)
  /\ \A n \in Connections : InHand(n) => client[n] # "none"
  /\ \A n \in Connections : client[n] = "none" => sess[n] = "none"

\* How far the exit thread is, and what it has stopped and waited for.
LifeInv ==
  /\ \A n \in Connections : sess[n] = "closing" => ioThread[io[n]] = "running"
  /\ exiter \in {"stop task", "join task", "join io", "finalize", "exit"} => ioStop = IoServices
  /\ exiter \in {"join io", "finalize", "exit"} => \A w \in Workers : worker[w] = "ended"
  /\ exiter \in {"finalize", "exit"} => \A n \in Connections : sess[n] # "closing"

\* Steps that neither queue, take nor open a connection.
OffQueue ==
  /\ UNCHANGED <<queue, client, sess, hand>>
  /\ \A t \in AcceptThreads : at'[t] \in {"open", "arm"} => at'[t] = at[t]

\* Which steps concern the queue.
LEMMA QueueKinds ==
  ASSUME ServerAssumption, Typed, [ServerNext]_serverVars
  PROVE  \/ OffQueue
         \/ \E t \in AcceptThreads : HandleAccept(t) \/ Open(t) \/ ArmRead(t)
         \/ \E n \in Connections : ReadFails(n) \/ OnClose(n) \/ Connect(n) \/ Leave(n)
<1>0. at = [c \in Callers |-> at[c]] /\ Main \in Callers
  BY DEF Typed, AcceptTypes, ServerAssumption
<1>1. CASE MainStep
  BY <1>0, <1>1 DEF MainStep, MainTakesIoService, MainStarts, MainRunsIo, MainJoins, OffQueue,
     AsyncAccept, AcceptThreads, sessionVars
<1>2. ASSUME NEW t \in AcceptThreads,
             StartAccept(t) \/ HandleAcceptError(t) \/ AcceptThreadEnds(t)
      PROVE  OffQueue
  BY <1>0, <1>2 DEF StartAccept, HandleAcceptError, AcceptThreadEnds, OffQueue, AsyncAccept,
     AcceptThreads, sessionVars
<1>3. CASE UNCHANGED <<acceptVars, sessionVars>>
  BY <1>3 DEF acceptVars, sessionVars, OffQueue
<1>4. CASE UNCHANGED serverVars \/ HandleSignal \/ Signal \/ ExitStep
  BY <1>3, <1>4 DEF serverVars, HandleSignal, Signal, ExitStep, SeeStop, StopAccept, StopIo,
     StopTask, JoinTask, JoinIo, Exit
<1>5. CASE \/ \E t \in AcceptThreads : OpenThrows(t)
           \/ \E i \in IoServices : IoThreadEnds(i)
           \/ \E w \in Workers : WorkEnds(w)
  BY <1>3, <1>5 DEF OpenThrows, IoThreadEnds, WorkEnds
<1> QED BY <1>1, <1>2, <1>4, <1>5 DEF ServerNext, AcceptStep, IoStep

\* Every step keeps what is known of the queue.
LEMMA QueueStep ==
  ASSUME ServerAssumption, Typed, QueueInv, [ServerNext]_serverVars
  PROVE  QueueInv'
<1>0. SessionTypes /\ AcceptTypes /\ HandHolds /\ queue \in Seq(Connections)
  BY DEF Typed, SessionTypes
<1>1. CASE OffQueue
  <2>1. \A n \in Connections : (Waiting(n)' <=> Waiting(n)) /\ (InHand(n)' => InHand(n))
    BY <1>1 DEF OffQueue, Waiting, InHand
  <2> QED BY <1>1, <2>1 DEF OffQueue, QueueInv
<1>2. ASSUME NEW t \in AcceptThreads, HandleAccept(t) PROVE QueueInv'
  <2>1. /\ queue # <<>> /\ queue' = Tail(queue) /\ UNCHANGED <<client, sess>>
        /\ hand' = [hand EXCEPT ![t] = Head(queue)] /\ at' = [at EXCEPT ![t] = "open"]
        /\ at[t] = "idle"
    BY <1>2 DEF HandleAccept
  <2>2. /\ Len(queue) \in Nat /\ Len(queue) > 0 /\ Len(queue') = Len(queue) - 1
        /\ Head(queue) = queue[1]
        /\ \A j \in 1..Len(queue') : queue'[j] = queue[j + 1]
    BY <1>0, <2>1
  <2>3. \A j, k \in 1..Len(queue') : queue'[j] = queue'[k] => j = k
    <3> SUFFICES ASSUME NEW j \in 1..Len(queue'), NEW k \in 1..Len(queue'),
                        queue'[j] = queue'[k]
                 PROVE  j = k
      OBVIOUS
    <3>1. j + 1 \in 1..Len(queue) /\ k + 1 \in 1..Len(queue) /\ queue[j + 1] = queue[k + 1]
      BY <2>2
    <3>2. j + 1 = k + 1
      BY <3>1 DEF QueueInv
    <3> QED BY <2>2, <3>2
  <2>4. \A n : Waiting(n)' => Waiting(n) /\ n # Head(queue)
    <3> SUFFICES ASSUME NEW n, NEW j \in 1..Len(queue'), queue'[j] = n
                 PROVE  Waiting(n) /\ n # Head(queue)
      BY DEF Waiting
    <3>1. j + 1 \in 1..Len(queue) /\ 1 \in 1..Len(queue) /\ queue[j + 1] = n /\ j + 1 # 1
      BY <2>2
    <3>2. queue[j + 1] # queue[1]
      BY <3>1 DEF QueueInv
    <3> QED BY <2>2, <3>1, <3>2 DEF Waiting
  <2>5. \A n : InHand(n)' => InHand(n) \/ n = Head(queue)
    BY <1>0, <2>1 DEF InHand, AcceptTypes, AcceptThreads
  <2>6. Head(queue) \in Connections /\ client[Head(queue)] # "none"
    <3>1. 1 \in 1..Len(queue) /\ queue[1] = Head(queue)
      BY <2>2
    <3>2. Head(queue) \in Connections
      BY <1>0, <2>1
    <3> QED BY <3>1, <3>2 DEF QueueInv, Waiting
  <2> QED BY <2>1, <2>3, <2>4, <2>5, <2>6 DEF QueueInv
<1>3. ASSUME NEW t \in AcceptThreads, Open(t) \/ ArmRead(t) PROVE QueueInv'
  <2>1. InHand(hand[t]) /\ hand[t] \in Connections
    BY <1>0, <1>3 DEF Open, ArmRead, InHand, HandHolds
  <2>2. UNCHANGED <<queue, client>> /\ \A n : Waiting(n)' <=> Waiting(n)
    BY <1>3 DEF Open, ArmRead, Waiting
  <2>3. \A n \in Connections : sess'[n] = sess[n] \/ n = hand[t]
    BY <1>0, <1>3, <2>1 DEF Open, ArmRead, SessionTypes
  <2>4. \A n : InHand(n)' => InHand(n)
    BY <1>0, <1>3 DEF Open, ArmRead, InHand, AcceptTypes, AcceptThreads
  <2> QED BY <2>1, <2>2, <2>3, <2>4 DEF QueueInv
<1>4. ASSUME NEW n \in Connections, ReadFails(n) \/ OnClose(n) PROVE QueueInv'
  <2>1. UNCHANGED <<queue, client, at, hand>> /\ sess[n] # "none"
    BY <1>4 DEF ReadFails, OnClose, acceptVars
  <2>2. \A m : (Waiting(m)' <=> Waiting(m)) /\ (InHand(m)' <=> InHand(m))
    BY <2>1 DEF Waiting, InHand
  <2>3. \A m \in Connections : sess'[m] = sess[m] \/ m = n
    BY <1>0, <1>4 DEF ReadFails, OnClose, SessionTypes
  <2> QED BY <2>1, <2>2, <2>3 DEF QueueInv
<1>5. ASSUME NEW n \in Connections, Connect(n) PROVE QueueInv'
  <2>1. /\ client[n] = "none" /\ client' = [client EXCEPT ![n] = "up"]
        /\ queue' = Append(queue, n) /\ UNCHANGED <<at, hand, sess>>
    BY <1>5 DEF Connect, acceptVars
  <2>2. ~Waiting(n) /\ ~InHand(n) /\ sess[n] = "none"
    BY <2>1 DEF QueueInv
  <2>3. /\ Len(queue) \in Nat /\ Len(queue') = Len(queue) + 1 /\ queue'[Len(queue) + 1] = n
        /\ \A j \in 1..Len(queue) : queue'[j] = queue[j]
    BY <1>0, <2>1
  <2>4. \A j \in 1..Len(queue') : j = Len(queue) + 1 \/ j \in 1..Len(queue)
    BY <2>3
  <2>5. \A j, k \in 1..Len(queue') : queue'[j] = queue'[k] => j = k
    BY <2>2, <2>3, <2>4 DEF QueueInv, Waiting
  <2>6. \A m : (Waiting(m)' => Waiting(m) \/ m = n) /\ (InHand(m)' <=> InHand(m))
    BY <2>1, <2>3, <2>4 DEF Waiting, InHand
  <2>7. client'[n] = "up" /\ \A m \in Connections : m # n => client'[m] = client[m]
    BY <1>0, <2>1 DEF SessionTypes
  <2> QED BY <2>1, <2>2, <2>5, <2>6, <2>7 DEF QueueInv
<1>6. ASSUME NEW n \in Connections, Leave(n) PROVE QueueInv'
  <2>1. UNCHANGED <<queue, sess, at, hand>> /\ client[n] = "up"
    BY <1>6 DEF Leave, acceptVars
  <2>2. \A m : (Waiting(m)' <=> Waiting(m)) /\ (InHand(m)' <=> InHand(m))
    BY <2>1 DEF Waiting, InHand
  <2>3. \A m \in Connections : client'[m] = "none" <=> client[m] = "none"
    BY <1>0, <1>6 DEF Leave, SessionTypes
  <2> QED BY <2>1, <2>2, <2>3 DEF QueueInv
<1> QED BY <1>1, <1>2, <1>3, <1>4, <1>5, <1>6, QueueKinds

\* Every step keeps what is known of the end.
LEMMA LifeStep ==
  ASSUME ServerAssumption, Typed, QueueInv, LifeInv, [ServerNext]_serverVars
  PROVE  LifeInv'
<1>0. /\ SessionTypes /\ AcceptTypes /\ LifeTypes /\ HandHolds
      /\ \A n \in Connections : sess[n] = "closing" => io[n] \in IoServices
  BY DEF Typed, SessionTypes
<1>1. CASE UNCHANGED <<sess, io, ioThread, ioStop, exiter, worker>>
  BY <1>1 DEF LifeInv
<1>2. ASSUME NEW t \in AcceptThreads, HandleAccept(t) PROVE LifeInv'
  <2>1. 1 \in 1..Len(queue) /\ Head(queue) \in Connections /\ queue[1] = Head(queue)
    BY <1>0, <1>2 DEF HandleAccept, SessionTypes
  <2>2. sess[Head(queue)] = "none"
    BY <2>1 DEF QueueInv, Waiting
  <2>3. \A n \in Connections : n # Head(queue) => io'[n] = io[n]
    BY <1>0, <1>2 DEF HandleAccept, SessionTypes
  <2>4. UNCHANGED <<sess, ioThread, ioStop, exiter, worker>>
    BY <1>2 DEF HandleAccept, lifeVars
  <2> QED BY <2>2, <2>3, <2>4 DEF LifeInv
<1>3. ASSUME NEW t \in AcceptThreads, Open(t) \/ ArmRead(t) PROVE LifeInv'
  <2>1. \A n \in Connections : sess'[n] = "closing" => sess[n] = "closing"
    BY <1>0, <1>3 DEF Open, ArmRead, HandHolds, SessionTypes
  <2>2. UNCHANGED <<io, ioThread, ioStop, exiter, worker>>
    BY <1>3 DEF Open, ArmRead, lifeVars
  <2> QED BY <2>1, <2>2 DEF LifeInv
<1>4. ASSUME NEW i \in IoServices, NEW n \in Connections, io[n] = i, ReadFails(n)
      PROVE  LifeInv'
  <2>1. /\ ioThread[io[n]] = "running" /\ io[n] \notin ioStop
        /\ UNCHANGED <<io, ioThread, ioStop, exiter, worker>>
    BY <1>4 DEF ReadFails, CanHandle, lifeVars
  <2>2. \A m \in Connections : sess'[m] = sess[m] \/ m = n
    BY <1>0, <1>4 DEF ReadFails, SessionTypes
  <2>3. exiter \notin {"stop task", "join task", "join io", "finalize", "exit"}
    BY <1>4, <2>1 DEF LifeInv
  <2> QED BY <2>1, <2>2, <2>3 DEF LifeInv
<1>5. ASSUME NEW n \in Connections, OnClose(n) PROVE LifeInv'
  <2>1. \A m \in Connections : sess'[m] = "closing" => sess[m] = "closing"
    BY <1>0, <1>5 DEF OnClose, SessionTypes
  <2>2. UNCHANGED <<io, ioThread, ioStop, exiter, worker>>
    BY <1>5 DEF OnClose, lifeVars
  <2> QED BY <2>1, <2>2 DEF LifeInv
<1>6. ASSUME NEW i \in IoServices, IoThreadEnds(i) \/ MainRunsIo(i) PROVE LifeInv'
  <2>1. UNCHANGED <<sess, io, ioStop, exiter, worker>>
    BY <1>6 DEF IoThreadEnds, MainRunsIo, sessionVars
  <2>2. \A n \in Connections : sess[n] = "closing" => ioThread'[io[n]] = ioThread[io[n]]
    <3> SUFFICES ASSUME NEW n \in Connections, sess[n] = "closing"
                 PROVE  ioThread'[io[n]] = ioThread[io[n]]
      OBVIOUS
    <3>1. ioThread[io[n]] = "running" /\ io[n] \in IoServices
      BY <1>0 DEF LifeInv
    <3>2. io[n] # i
      BY <1>6, <3>1 DEF IoThreadEnds, MainRunsIo, Handling
    <3> QED BY <1>0, <1>6, <3>1, <3>2 DEF IoThreadEnds, MainRunsIo, LifeTypes
  <2> QED BY <2>1, <2>2 DEF LifeInv
<1>7. ASSUME NEW w \in Workers, WorkEnds(w) PROVE LifeInv'
  <2>1. \A v \in Workers : worker[v] = "ended" => worker'[v] = "ended"
    BY <1>0, <1>7 DEF WorkEnds, LifeTypes
  <2>2. UNCHANGED <<sess, io, ioThread, ioStop, exiter>>
    BY <1>7 DEF WorkEnds, sessionVars
  <2> QED BY <2>1, <2>2 DEF LifeInv
<1>8. CASE MainStarts
  <2>1. exiter' = "poll" /\ UNCHANGED <<sess, io, ioThread, ioStop, worker>>
    BY <1>8 DEF MainStarts, sessionVars
  <2> QED BY <2>1 DEF LifeInv
<1>9. CASE ExitStep
  <2>1. UNCHANGED <<sess, io, ioThread, worker>>
    BY <1>9 DEF ExitStep, SeeStop, StopAccept, StopIo, StopTask, JoinTask, JoinIo, Exit,
                sessionVars
  <2>2. CASE SeeStop \/ StopAccept
    BY <2>1, <2>2 DEF SeeStop, StopAccept, ExiterGoes, LifeInv
  <2>3. ASSUME NEW i \in IoServices, StopIo(i) PROVE LifeInv'
    <3>1. CASE i = PoolSize - 1
      <4>1. ioStop' = IoServices
        <5>1. \A j \in IoServices : j < i \/ j = i
          BY <3>1, PoolSizeAssumption DEF IoServices
        <5>2. ioStop' = ioStop \cup {i} /\ \A j \in IoServices : j < i => j \in ioStop
          BY <2>3 DEF StopIo
        <5> QED BY <1>0, <5>1, <5>2 DEF LifeTypes
      <4>2. exiter' = "stop task"
        BY <2>3, <3>1 DEF StopIo, ExiterGoes
      <4> QED BY <2>1, <4>1, <4>2 DEF LifeInv
    <3>2. CASE i # PoolSize - 1
      <4>1. exiter' = "stop io"
        BY <2>3, <3>2 DEF StopIo, ExiterGoes
      <4> QED BY <2>1, <4>1 DEF LifeInv
    <3> QED BY <3>1, <3>2
  <2>4. CASE StopTask \/ JoinTask
    BY <2>1, <2>4 DEF StopTask, JoinTask, ExiterGoes, LifeInv
  <2>5. CASE JoinIo
    <3>1. \A n \in Connections : sess[n] # "closing"
      BY <1>0, <2>5 DEF JoinIo, LifeInv
    <3>2. exiter = "join io" /\ exiter' = "finalize" /\ ioStop' = ioStop
      BY <2>5 DEF JoinIo, ExiterGoes
    <3> QED BY <2>1, <3>1, <3>2 DEF LifeInv
  <2>6. CASE Exit
    <3>1. exiter = "finalize" /\ exiter' = "exit" /\ ioStop' = ioStop
      BY <2>6 DEF Exit, ExiterGoes
    <3> QED BY <2>1, <3>1 DEF LifeInv
  <2> QED BY <1>9, <2>2, <2>3, <2>4, <2>5, <2>6 DEF ExitStep
<1>10. \/ UNCHANGED <<sess, io, ioThread, ioStop, exiter, worker>>
       \/ MainStarts \/ ExitStep
       \/ \E t \in AcceptThreads : HandleAccept(t) \/ Open(t) \/ ArmRead(t)
       \/ \E i \in IoServices : IoThreadEnds(i) \/ MainRunsIo(i)
       \/ \E i \in IoServices : \E n \in Connections : io[n] = i /\ ReadFails(n)
       \/ \E n \in Connections : OnClose(n)
       \/ \E w \in Workers : WorkEnds(w)
  BY DEF ServerNext, MainStep, AcceptStep, IoStep, MainTakesIoService, MainJoins, StartAccept,
         HandleAcceptError, OpenThrows, AcceptThreadEnds, HandleSignal, Connect, Leave, Signal,
         serverVars, sessionVars, lifeVars
<1> QED BY <1>1, <1>2, <1>3, <1>4, <1>5, <1>6, <1>7, <1>8, <1>9, <1>10

\* When Py_Finalize runs, the workers have ended and no handler of a session
\* is running, even if the exit thread overtakes main, which still creates
\* threads for the io_services: those are stopped before.
THEOREM FinalizesAlone == ServerSpec => []FinalizeAlone
<1>1. ServerInit => QueueInv /\ LifeInv
  <2> SUFFICES ASSUME ServerInit PROVE QueueInv /\ LifeInv
    OBVIOUS
  <2>1. Len(queue) = 0 /\ \A n \in Connections : client[n] = "none" /\ sess[n] = "none"
    BY DEF ServerInit
  <2>2. \A n : ~Waiting(n)
    BY <2>1 DEF Waiting
  <2>3. \A n : ~InHand(n)
    BY DEF InHand, ServerInit, AcceptThreads
  <2>4. QueueInv
    BY <2>1, <2>2, <2>3 DEF QueueInv
  <2>5. LifeInv
    BY <2>1 DEF LifeInv, ServerInit
  <2> QED BY <2>4, <2>5
<1>2. Typed /\ QueueInv /\ LifeInv /\ [ServerNext]_serverVars => QueueInv' /\ LifeInv'
  BY ServerAssumption, QueueStep, LifeStep
<1>3. LifeInv => FinalizeAlone
  BY DEF LifeInv, FinalizeAlone, Handling
<1> QED BY <1>1, <1>2, <1>3, TypedAlways, PTL DEF ServerSpec
=============================================================================
