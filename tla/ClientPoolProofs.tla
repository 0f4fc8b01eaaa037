-------------------------- MODULE ClientPoolProofs --------------------------
(***************************************************************************)
(* Proofs about ClientPool: whatever the threads and the handlers do, in   *)
(* any order and for any number of servers, connections and sessions, an   *)
(* entry of the map is an open session that notices its own loss, or that  *)
(* the thread which connected it is about to have noticed; and the map and *)
(* client_list_ have the same ids, unless set is given a server whose      *)
(* counted slot is taken.                                                  *)
(***************************************************************************)
EXTENDS ClientPool, FiniteSetTheorems, LeastNumber, TLAPS

\* A thread in its loop is at a slot.
AtInv ==
  /\ pc = [t \in AllThreads |-> pc[t]]
  /\ at = [t \in AllThreads |-> at[t]]
  /\ \A t \in {"heart", "zk"} : pc[t] \in {"check", "connect"} => at[t] \in Slots

----------------------------------------------------------------------------

\* None is neither a session nor a slot.
LEMMA NoneIsOther == None \notin Sessions /\ None \notin Slots
  BY DEF None, Sessions, Slots

\* The slots are numbered from 0.
LEMMA SlotCount ==
  /\ NServers * connect_count \in Nat
  /\ IsFiniteSet(Slots) /\ Cardinality(Slots) = NServers * connect_count
<1> DEFINE n == NServers * connect_count
<1>1. n \in Nat
  BY PoolAssumption
<1> HIDE DEF n
<1>2. IsFiniteSet(0..(n - 1)) /\ Cardinality(0..(n - 1)) = n
  <2>1. 0 \in Int /\ n - 1 \in Int
    BY <1>1
  <2>2. Cardinality(0..(n - 1)) = (IF 0 > n - 1 THEN 0 ELSE (n - 1) - 0 + 1)
    BY <2>1, FS_Interval
  <2> QED BY <1>1, <2>1, <2>2, FS_Interval
<1>3. Slots = 0..(n - 1)
  BY DEF Slots, n
<1> QED BY <1>1, <1>2, <1>3 DEF n

\* The i-th slot of a server is a slot.
LEMMA SlotOfTyped ==
  ASSUME NEW s \in Servers, NEW i \in Nat, i < connect_count
  PROVE  SlotOf(s, i) \in Slots
<1> DEFINE c == connect_count
<1>1. s \in Nat /\ s + 1 <= NServers /\ c \in Nat /\ NServers \in Nat
  BY PoolAssumption DEF Servers
<1>2. (s + 1) * c <= NServers * c
  BY <1>1
<1>3. (s + 1) * c = s * c + c /\ s * c \in Nat /\ NServers * c \in Nat
  BY <1>1
<1>4. s * c + i \in 0..(NServers * c - 1)
  <2> HIDE DEF c
  <2> QED BY <1>1, <1>2, <1>3 DEF c
<1> QED BY <1>4 DEF SlotOf, Slots

\* find_matched counts.
LEMMA MatchedIsNat == ASSUME NEW s PROVE find_matched(s) \in Nat
<1>1. {k \in Slots : map_[k] # None /\ <<s, ServerOf(k)>> \in Contains} \subseteq Slots
  OBVIOUS
<1> QED BY <1>1, SlotCount, FS_Subset, FS_CardinalityType DEF find_matched

\* set finds one of the server's slots, or none.
LEMMA SetSlotTyped ==
  ASSUME NEW s \in Servers
  PROVE  SetSlot(s) \in Slots \cup {None}
<1> DEFINE count == find_matched(s)
           holes == Holes(s, count)
           i == CHOOSE h \in holes : \A j \in holes : h <= j
<1>1. count \in Nat
  BY MatchedIsNat
<1>2. \/ SetSlot(s) = None
      \/ count < connect_count /\ SetSlot(s) = SlotOf(s, count)
      \/ count < connect_count /\ SetSlot(s) = SlotOf(s, i) /\ holes # {}
  BY DEF SetSlot
<1>3. ASSUME holes # {} PROVE i \in holes
  <2>1. holes \subseteq Nat
    BY DEF Holes
  <2>2. \E h \in holes : \A j \in holes : h <= j
    BY <1>3, <2>1, LeastExists
  <2> QED BY <2>2
<1>4. ASSUME holes # {}, count < connect_count PROVE i \in Nat /\ i < connect_count
  <2>1. i \in 0..(count - 1)
    BY <1>3, <1>4 DEF Holes
  <2>2. connect_count \in Nat
    BY PoolAssumption
  <2> HIDE DEF i, count
  <2> QED BY <1>1, <1>4, <2>1, <2>2
<1> HIDE DEF i, count, holes
<1> QED BY <1>1, <1>2, <1>4, SlotOfTyped

\* A loop goes on at a slot or past the last one.
LEMMA NextSlotTyped ==
  ASSUME NEW k, NEW S
  PROVE  NextSlot(k, S) \in 0..Cardinality(Slots)
<1> DEFINE rest == {j \in Slots : j >= k /\ ServerOf(j) \in S}
<1>1. rest \subseteq Slots /\ Slots \subseteq Nat
  BY DEF Slots
<1>2. Slots \subseteq 0..Cardinality(Slots) /\ Cardinality(Slots) \in 0..Cardinality(Slots)
  BY SlotCount DEF Slots
<1>3. CASE rest = {}
  BY <1>2, <1>3 DEF NextSlot
<1>4. CASE rest # {}
  <2>1. \E j \in rest : \A i \in rest : j <= i
    <3> HIDE DEF rest
    <3> QED BY <1>1, <1>4, LeastExists
  <2>2. NextSlot(k, S) = CHOOSE j \in rest : \A i \in rest : j <= i
    BY <1>4 DEF NextSlot
  <2> HIDE DEF rest
  <2>3. NextSlot(k, S) \in rest
    BY <2>1, <2>2
  <2> QED BY <1>1, <1>2, <2>3
<1> QED BY <1>3, <1>4

----------------------------------------------------------------------------
(* The types.                                                               *)

Maps == [Slots -> Sessions \cup {None}]
Lists == [Slots -> Nat]
Objects == [Sessions -> SessionRecord]
Places == {"idle", "insert", "check", "connect", "name", "arm", "registe"}

PoolTypes == map_ \in Maps /\ client_list_ \in Lists /\ sess \in Objects

LoopTypes ==
  /\ server_map_ \subseteq Servers
  /\ pc \in [AllThreads -> Places]
  /\ at \in [AllThreads -> 0..Cardinality(Slots)]
  /\ todo \in [AllThreads -> SUBSET Servers]
  /\ running \in BOOLEAN
  /\ losses \in 0..MaxLost /\ failures \in 0..MaxFaults /\ callbacks \in 0..MaxCallbacks

\* The sessions the threads hold, and what set returned to main.
HeldTypes == conn \in [AllThreads -> Sessions \cup {None}] /\ got \in Slots \cup {None}

\* The sessions a thread, a handler or a connect leave are sessions.
LEMMA RecordTyped ==
  /\ Free \in SessionRecord
  /\ \A k \in Slots \cup {None} : Fresh(k) \in SessionRecord
  /\ \A r \in SessionRecord :
       /\ \A k \in Slots \cup {None} : [r EXCEPT !.id = k] \in SessionRecord
       /\ [r EXCEPT !.open = FALSE] \in SessionRecord
       /\ [r EXCEPT !.lost = TRUE] \in SessionRecord
       /\ \A b \in BOOLEAN : [r EXCEPT !.reading = b] \in SessionRecord
       /\ \A v \in {"idle", "busy", "stuck"} : [r EXCEPT !.writing = v] \in SessionRecord
       /\ \A c \in 0..MaxPosted : [r EXCEPT !.calls = c] \in SessionRecord
<1>1. Free \in SessionRecord
  BY DEF SessionRecord, Free, MaxPosted
<1>2. \A k \in Slots \cup {None} : Fresh(k) \in SessionRecord
  BY DEF SessionRecord, Fresh, MaxPosted
<1>3. ASSUME NEW r \in SessionRecord
      PROVE  /\ \A k \in Slots \cup {None} : [r EXCEPT !.id = k] \in SessionRecord
             /\ [r EXCEPT !.open = FALSE] \in SessionRecord
             /\ [r EXCEPT !.lost = TRUE] \in SessionRecord
             /\ \A b \in BOOLEAN : [r EXCEPT !.reading = b] \in SessionRecord
             /\ \A v \in {"idle", "busy", "stuck"} : [r EXCEPT !.writing = v] \in SessionRecord
             /\ \A c \in 0..MaxPosted : [r EXCEPT !.calls = c] \in SessionRecord
  BY DEF SessionRecord
<1> QED BY <1>1, <1>2, <1>3

\* One more write posted, up to the bound.
LEMMA PostedTyped == \A r \in SessionRecord : Posted(r) \in SessionRecord
<1> SUFFICES ASSUME NEW r \in SessionRecord PROVE Posted(r) \in SessionRecord
  OBVIOUS
<1> DEFINE c == IF r.calls < MaxPosted THEN r.calls + 1 ELSE r.calls
<1>1. c \in 0..MaxPosted
  BY DEF SessionRecord, MaxPosted
<1>2. Posted(r) = [r EXCEPT !.calls = c]
  BY DEF Posted
<1> HIDE DEF c
<1> QED BY <1>1, <1>2, RecordTyped

\* The operations of the map.
LEMMA ErasedTyped ==
  ASSUME PoolTypes, NEW k
  PROVE  Erased(k).map \in Maps /\ Erased(k).list \in Lists
<1> DEFINE v == IF client_list_[k] > 0 THEN client_list_[k] - 1 ELSE 0
<1>1. /\ Erased(k).map = [map_ EXCEPT ![k] = None]
      /\ Erased(k).list = [client_list_ EXCEPT ![k] = v]
  BY DEF Erased
<1>2. k \in Slots => v \in Nat
  BY DEF PoolTypes, Lists
<1> HIDE DEF v
<1> QED BY <1>1, <1>2 DEF PoolTypes, Maps, Lists

LEMMA FixSetTyped ==
  ASSUME PoolTypes, NEW k, NEW x \in Sessions
  PROVE  FixSet(k, x).map \in Maps /\ FixSet(k, x).list \in Lists
  BY DEF PoolTypes, FixSet, Maps, Lists

LEMMA SetTyped ==
  ASSUME PoolTypes, NEW s, NEW x \in Sessions
  PROVE  Set(s, x).map \in Maps /\ Set(s, x).list \in Lists
<1> DEFINE k == SlotOf(s, find_matched(s))
<1>1. /\ Set(s, x).map = [map_ EXCEPT ![SetSlot(s)] = x]
      /\ Set(s, x).list = [client_list_ EXCEPT ![k] = client_list_[k] + 1]
  BY DEF Set
<1>2. k \in Slots => client_list_[k] + 1 \in Nat
  BY DEF PoolTypes, Lists
<1> HIDE DEF k
<1> QED BY <1>1, <1>2 DEF PoolTypes, Maps, Lists

LEMMA BecomesTyped ==
  ASSUME NEW m, m.map \in Maps, m.list \in Lists, NEW f \in Objects, NEW c,
         PoolBecomes(m, f, c)
  PROVE  PoolTypes'
<1>1. map_' = m.map /\ client_list_' = m.list /\ sess' = Collect(f, m.map, c)
  BY DEF PoolBecomes
<1>2. Collect(f, m.map, c) \in Objects
  BY RecordTyped DEF Collect, Objects
<1> QED BY <1>1, <1>2 DEF PoolTypes

LEMMA SameTyped == PoolTypes => Same.map \in Maps /\ Same.list \in Lists
  BY DEF PoolTypes, Same

\* A session that is given another record.
LEMMA ObjectTyped ==
  ASSUME PoolTypes, NEW x, NEW r, x \in Sessions => r \in SessionRecord
  PROVE  [sess EXCEPT ![x] = r] \in Objects
  BY DEF PoolTypes, Objects

\* A session whose record changes.
LEMMA SessionTyped ==
  PoolTypes => \A x \in Sessions : sess[x] \in SessionRecord
  BY DEF PoolTypes, Objects

\* A new session is one of the unused objects.
LEMMA NewIsUnused == Unused # {} => NewSession \in Unused /\ NewSession \in Sessions
  BY DEF NewSession, Unused

\* The initial threads are idle, main apart.
LEMMA AtInit == Init => AtInv
  BY DEF Init, AtInv, AllThreads

\* GoOn leaves a thread in its loop only at a slot.
LEMMA GoOnKeeps ==
  ASSUME AtInv, NEW t \in {"heart", "zk"}, NEW k, NEW S, GoOn(t, k, S, "check")
  PROVE  AtInv'
<1> DEFINE j == NextSlot(k, S)
<1>1. pc' = [pc EXCEPT ![t] = IF j \in Slots THEN "check" ELSE "idle"] /\ at' = [at EXCEPT ![t] = j]
  BY DEF GoOn
<1> HIDE DEF j
<1> QED BY <1>1 DEF AtInv, AllThreads

\* Every step leaves the threads in their loops at slots.
LEMMA AtKeeps ==
  ASSUME AtInv, [Next]_vars
  PROVE  AtInv'
<1> USE DEF AllThreads
<1>1. ASSUME NEW x \in Sessions, SessionStep(x) \/ Lose(x) PROVE AtInv'
  BY <1>1 DEF SessionStep, Lose, ReadFails, Write, WriteDone, WriteFails, AtInv
<1>2. ASSUME NEW k \in Slots, Dispatch(k) PROVE AtInv'
  BY <1>2 DEF Dispatch, AtInv
<1>3. CASE HeartRound
  BY <1>3, GoOnKeeps DEF HeartRound
<1>4. ASSUME NEW S \in SUBSET Servers, CallbackClears(S) PROVE AtInv'
  BY <1>4 DEF CallbackClears, AtInv
<1>5. ASSUME NEW s \in Servers, CallbackInserts(s) PROVE AtInv'
  <2>1. CASE GoOn("zk", 0, server_map_', "check")
    BY <2>1, GoOnKeeps
  <2>2. CASE UNCHANGED <<pc, at>>
    BY <2>2 DEF AtInv
  <2> QED BY <1>5, <2>1, <2>2 DEF CallbackInserts
<1>6. ASSUME NEW t \in {"heart", "zk"}, ThreadStep(t) PROVE AtInv'
  <2>1. CASE CheckFound(t) \/ Registe(t) \/ ConnectFails(t)
    <3>1. GoOn(t, at[t] + 1, todo[t], "check")
      BY <2>1 DEF CheckFound, Registe, ConnectFails
    <3> QED BY <3>1, GoOnKeeps
  <2>2. CASE CheckMissing(t) \/ Connected(t) \/ ArmRead(t)
    BY <2>2 DEF CheckMissing, EndRound, Connected, ArmRead, AtInv
  <2> QED BY <1>6, <2>1, <2>2 DEF ThreadStep
<1>7. CASE MainStep
  <2>1. CASE MainGivesUp
    BY <2>1 DEF MainGivesUp, AtInv
  <2>2. CASE MainGoesOn(at["main"] + 1)
    BY <2>2 DEF MainGoesOn, AtInv
  <2>3. CASE \E p : pc' = [pc EXCEPT !["main"] = p] /\ UNCHANGED at
    BY <2>3 DEF AtInv
  <2> QED BY <1>7, <2>1, <2>2, <2>3
        DEF MainStep, MainUnresolved, MainConnectFails, MainOpenThrows, MainConnected,
            MainNamed, MainRefused, ArmRead, MainRegiste
<1>8. CASE UNCHANGED vars
  BY <1>8 DEF vars, AtInv
<1> QED BY <1>1, <1>2, <1>3, <1>4, <1>5, <1>6, <1>7, <1>8 DEF Next

\* What a step may count: one lost connection or one failed connect.
Faulty ==
  /\ losses' = losses \/ (losses < MaxLost /\ losses' = losses + 1)
  /\ failures' = failures \/ (losses + failures < MaxFaults /\ failures' = failures + 1)

\* The loops of the threads.
LEMMA LoopTypesKeep ==
  ASSUME LoopTypes, [Next]_vars
  PROVE  LoopTypes'
<1>1. ASSUME NEW t \in AllThreads, NEW k, NEW S, NEW p \in {"check", "connect"}, GoOn(t, k, S, p)
      PROVE  /\ pc' \in [AllThreads -> Places]
             /\ at' \in [AllThreads -> 0..Cardinality(Slots)]
  <2>1. PICK j \in 0..Cardinality(Slots), q \in {p, "idle"} :
          pc' = [pc EXCEPT ![t] = q] /\ at' = [at EXCEPT ![t] = j]
    BY <1>1, NextSlotTyped DEF GoOn
  <2> QED BY <2>1 DEF LoopTypes, Places
<1>0. ASSUME Faulty PROVE losses' \in 0..MaxLost /\ failures' \in 0..MaxFaults
  BY <1>0, PoolAssumption DEF LoopTypes, Faulty
<1>2. ASSUME UNCHANGED <<server_map_, pc, at, todo, running, callbacks>>, Faulty
      PROVE  LoopTypes'
  BY <1>0, <1>2 DEF LoopTypes
<1>3. ASSUME NEW x \in Sessions, SessionStep(x) \/ Lose(x) PROVE LoopTypes'
  BY <1>2, <1>3 DEF SessionStep, Lose, ReadFails, Write, WriteDone, WriteFails, counters, Faulty
<1>4. ASSUME NEW k \in Slots, Dispatch(k) PROVE LoopTypes'
  BY <1>2, <1>4 DEF Dispatch, counters, Faulty
<1>5. CASE HeartRound
  <2>1. GoOn("heart", 0, server_map_, "check") /\ "heart" \in AllThreads
    BY <1>5 DEF HeartRound, AllThreads
  <2>2. todo' = [todo EXCEPT !["heart"] = server_map_]
        /\ UNCHANGED <<server_map_, running, losses, failures, callbacks>>
    BY <1>5 DEF HeartRound, counters
  <2> QED BY <1>1, <2>1, <2>2 DEF LoopTypes
<1>6. ASSUME NEW S \in SUBSET Servers, CallbackClears(S) PROVE LoopTypes'
  <2>1. callbacks' \in 0..MaxCallbacks
    BY <1>6, PoolAssumption DEF CallbackClears, LoopTypes
  <2>2. /\ server_map_' = {} /\ UNCHANGED <<at, running, losses, failures>>
        /\ todo' = [todo EXCEPT !["zk"] = S] /\ pc' = [pc EXCEPT !["zk"] = "insert"]
    BY <1>6 DEF CallbackClears
  <2>3. todo' \in [AllThreads -> SUBSET Servers]
    BY <2>2 DEF LoopTypes
  <2>4. pc' \in [AllThreads -> Places]
    BY <2>2 DEF LoopTypes, Places
  <2> QED BY <2>1, <2>2, <2>3, <2>4 DEF LoopTypes
<1>7. ASSUME NEW s \in Servers, CallbackInserts(s) PROVE LoopTypes'
  <2>1. server_map_' = server_map_ \cup {s} /\ UNCHANGED <<todo, running, losses, failures, callbacks>>
    BY <1>7 DEF CallbackInserts, counters
  <2>2. CASE GoOn("zk", 0, server_map_', "check")
    BY <1>1, <2>1, <2>2 DEF LoopTypes, AllThreads
  <2>3. CASE UNCHANGED <<pc, at>>
    BY <2>1, <2>3 DEF LoopTypes
  <2> QED BY <1>7, <2>2, <2>3 DEF CallbackInserts
<1>8. ASSUME NEW t \in {"heart", "zk"}, ThreadStep(t) PROVE LoopTypes'
  <2>1. /\ UNCHANGED <<server_map_, todo, running, callbacks>>
        /\ Faulty
    BY <1>8 DEF ThreadStep, CheckFound, CheckMissing, ConnectFails, Connected, ArmRead, Registe,
                counters, Faulty
  <2>2. CASE GoOn(t, at[t] + 1, todo[t], "check")
    BY <1>0, <1>1, <2>1, <2>2 DEF LoopTypes, AllThreads
  <2>3. CASE \E p \in Places : pc' = [pc EXCEPT ![t] = p] /\ UNCHANGED at
    <3>1. pc' \in [AllThreads -> Places] /\ at' = at
      BY <2>3 DEF LoopTypes
    <3> QED BY <1>0, <2>1, <3>1 DEF LoopTypes
  <2> QED BY <1>8, <2>2, <2>3
        DEF ThreadStep, CheckFound, CheckMissing, EndRound, ConnectFails, Connected, ArmRead,
            Registe, Places
<1>9. CASE MainStep
  <2>1. /\ UNCHANGED <<server_map_, todo, callbacks>>
        /\ Faulty
    BY <1>9 DEF MainStep, MainUnresolved, MainConnectFails, MainOpenThrows, MainConnected,
                MainNamed, MainRefused, ArmRead, MainRegiste, counters, Faulty
  <2>2. CASE MainGivesUp
    <3>1. pc' \in [AllThreads -> Places] /\ at' = at
      BY <2>2 DEF MainGivesUp, LoopTypes, Places
    <3>2. running' \in BOOLEAN
      BY <2>2 DEF MainGivesUp
    <3> QED BY <1>0, <2>1, <3>1, <3>2 DEF LoopTypes
  <2>3. CASE MainGoesOn(at["main"] + 1)
    <3>1. PICK j \in 0..Cardinality(Slots), q \in {"connect", "idle"} :
            /\ pc' = [pc EXCEPT !["main"] = q] /\ at' = [at EXCEPT !["main"] = j]
            /\ running' = (j \notin Slots)
      BY <2>3, NextSlotTyped DEF MainGoesOn
    <3>2. running' \in BOOLEAN
      BY <3>1
    <3>3. pc' \in [AllThreads -> Places]
      BY <3>1 DEF LoopTypes, Places
    <3>4. at' \in [AllThreads -> 0..Cardinality(Slots)]
      BY <3>1 DEF LoopTypes
    <3> QED BY <1>0, <2>1, <3>2, <3>3, <3>4 DEF LoopTypes
  <2>4. CASE \E p \in Places : pc' = [pc EXCEPT !["main"] = p] /\ UNCHANGED <<at, running>>
    <3>1. pc' \in [AllThreads -> Places] /\ at' = at /\ running' = running
      BY <2>4 DEF LoopTypes
    <3> QED BY <1>0, <2>1, <3>1 DEF LoopTypes
  <2> QED BY <1>9, <2>2, <2>3, <2>4
        DEF MainStep, MainUnresolved, MainConnectFails, MainOpenThrows, MainConnected,
            MainNamed, MainRefused, ArmRead, MainRegiste, Places
<1>10. CASE UNCHANGED vars
  BY <1>10 DEF vars, LoopTypes
<1> QED BY <1>3, <1>4, <1>5, <1>6, <1>7, <1>8, <1>9, <1>10 DEF Next

LEMMA TypesInit == Init => PoolTypes /\ LoopTypes /\ HeldTypes
<1> SUFFICES ASSUME Init PROVE PoolTypes /\ LoopTypes /\ HeldTypes
  OBVIOUS
<1>1. PoolTypes
  <2>1. /\ map_ = [k \in Slots |-> None] /\ client_list_ = [k \in Slots |-> 0]
        /\ sess = [x \in Sessions |-> Free]
    BY DEF Init
  <2>2. Free \in SessionRecord
    BY RecordTyped
  <2> HIDE DEF Free
  <2> QED BY <2>1, <2>2 DEF PoolTypes, Maps, Lists, Objects
<1>2. LoopTypes
  <2>1. 0 \in 0..Cardinality(Slots)
    BY SlotCount
  <2>2. running \in BOOLEAN
    BY DEF Init
  <2> QED BY <2>1, <2>2, PoolAssumption DEF Init, LoopTypes, Places
<1>3. HeldTypes
  BY DEF Init, HeldTypes
<1> QED BY <1>1, <1>2, <1>3

----------------------------------------------------------------------------

\* Main connects before the io_services run, and only if it takes part.
MainInv == pc["main"] # "idle" => ~running /\ "main" \in Threads

LEMMA MainInit == Init => MainInv
  BY DEF Init, MainInv, AllThreads

LEMMA MainInvKeeps ==
  ASSUME LoopTypes, MainInv, [Next]_vars
  PROVE  MainInv'
<1> USE DEF AllThreads
<1>1. CASE UNCHANGED <<pc, running>>
  BY <1>1 DEF MainInv
<1>2. ASSUME NEW t \in {"heart", "zk"}, NEW p, pc' = [pc EXCEPT ![t] = p], running' = running
      PROVE  MainInv'
  BY <1>2 DEF MainInv, LoopTypes
<1>3. ASSUME NEW t \in {"heart", "zk"}, NEW k, NEW S, GoOn(t, k, S, "check"), running' = running
      PROVE  MainInv'
  <2>1. \E p : pc' = [pc EXCEPT ![t] = p]
    BY <1>3 DEF GoOn
  <2> QED BY <1>2, <1>3, <2>1
<1>4. ASSUME NEW x \in Sessions, SessionStep(x) \/ Lose(x) PROVE MainInv'
  BY <1>1, <1>4 DEF SessionStep, Lose, ReadFails, Write, WriteDone, WriteFails
<1>5. ASSUME NEW k \in Slots, Dispatch(k) PROVE MainInv'
  BY <1>1, <1>5 DEF Dispatch
<1>6. CASE HeartRound
  BY <1>3, <1>6 DEF HeartRound
<1>7. ASSUME NEW S \in SUBSET Servers, CallbackClears(S) PROVE MainInv'
  BY <1>2, <1>7 DEF CallbackClears
<1>8. ASSUME NEW s \in Servers, CallbackInserts(s) PROVE MainInv'
  BY <1>1, <1>3, <1>8 DEF CallbackInserts
<1>9. ASSUME NEW t \in {"heart", "zk"}, ThreadStep(t) PROVE MainInv'
  <2>1. running' = running
    BY <1>9 DEF ThreadStep, CheckFound, CheckMissing, ConnectFails, Connected, ArmRead, Registe
  <2>2. GoOn(t, at[t] + 1, todo[t], "check")
        \/ \E p : pc' = [pc EXCEPT ![t] = p]
    BY <1>9 DEF ThreadStep, CheckFound, CheckMissing, EndRound, ConnectFails, Connected,
                ArmRead, Registe
  <2> QED BY <1>2, <1>3, <2>1, <2>2
<1>10. CASE MainStep
  <2>1. pc["main"] # "idle"
    BY <1>10 DEF MainStep, MainUnresolved, MainConnectFails, MainOpenThrows, MainConnected,
                 MainNamed, MainRefused, ArmRead, MainRegiste
  <2>2. CASE MainGivesUp
    BY <2>2 DEF MainGivesUp, MainInv, LoopTypes
  <2>3. CASE MainGoesOn(at["main"] + 1)
    <3>1. PICK j : /\ pc' = [pc EXCEPT !["main"] = IF j \in Slots THEN "connect" ELSE "idle"]
                   /\ running' = (j \notin Slots)
      BY <2>3 DEF MainGoesOn
    <3> QED BY <2>1, <3>1 DEF MainInv, LoopTypes
  <2>4. CASE running' = running
    BY <2>1, <2>4 DEF MainInv
  <2> QED BY <1>10, <2>2, <2>3, <2>4
        DEF MainStep, MainUnresolved, MainConnectFails, MainOpenThrows, MainConnected,
            MainNamed, MainRefused, ArmRead, MainRegiste
<1>11. CASE UNCHANGED vars
  BY <1>1, <1>11 DEF vars
<1> QED BY <1>4, <1>5, <1>6, <1>7, <1>8, <1>9, <1>10, <1>11 DEF Next

----------------------------------------------------------------------------
(* Every step keeps the types.                                              *)

\* A step of the handlers of a session.
LEMMA SessionTypes ==
  ASSUME PoolTypes, NEW x \in Sessions, SessionStep(x) \/ Lose(x)
  PROVE  PoolTypes'
<1>1. sess[x] \in SessionRecord
  BY DEF PoolTypes, Objects
<1>2. ASSUME NEW r \in SessionRecord, Close(x, r) PROVE PoolTypes'
  <2> DEFINE m == IF r.id = None THEN Same ELSE Erased(r.id)
             f == [sess EXCEPT ![x] = [r EXCEPT !.open = FALSE]]
  <2>1. PoolBecomes(m, f, conn)
    BY <1>2 DEF Close
  <2>2. m.map \in Maps /\ m.list \in Lists
    BY ErasedTyped, SameTyped
  <2>3. f \in Objects
    BY RecordTyped, ObjectTyped
  <2> HIDE DEF m, f
  <2> QED BY <2>1, <2>2, <2>3, BecomesTyped
<1>3. ASSUME NEW r \in SessionRecord, PoolBecomes(Same, [sess EXCEPT ![x] = r], conn)
      PROVE  PoolTypes'
  BY <1>3, SameTyped, ObjectTyped, BecomesTyped
<1>4. CASE ReadFails(x)
  <2>1. [sess[x] EXCEPT !.reading = FALSE] \in SessionRecord
    BY <1>1, RecordTyped
  <2>2. Close(x, [sess[x] EXCEPT !.reading = FALSE])
    BY <1>4 DEF ReadFails
  <2> QED BY <1>2, <2>1, <2>2
<1>5. CASE WriteFails(x)
  <2>1. [sess[x] EXCEPT !.writing = "stuck"] \in SessionRecord
    BY <1>1, RecordTyped
  <2>2. Close(x, [sess[x] EXCEPT !.writing = "stuck"])
    BY <1>5 DEF WriteFails
  <2> QED BY <1>2, <2>1, <2>2
<1>6. CASE Write(x)
  <2> DEFINE a == [sess[x] EXCEPT !.calls = sess[x].calls - 1]
             w == IF sess[x].writing = "idle" THEN "busy" ELSE sess[x].writing
             r == [a EXCEPT !.writing = w]
  <2>1. sess[x].calls > 0 /\ PoolBecomes(Same, [sess EXCEPT ![x] = r], conn)
    BY <1>6 DEF Write
  <2>2. sess[x].calls - 1 \in 0..MaxPosted /\ w \in {"idle", "busy", "stuck"}
    BY <1>1, <2>1 DEF SessionRecord, MaxPosted
  <2>3. a \in SessionRecord
    BY <1>1, <2>2, RecordTyped
  <2> HIDE DEF a, w
  <2>4. r \in SessionRecord
    BY <2>2, <2>3, RecordTyped
  <2> QED BY <1>3, <2>1, <2>4
<1>7. CASE WriteDone(x)
  <2>1. [sess[x] EXCEPT !.writing = "idle"] \in SessionRecord
    BY <1>1, RecordTyped
  <2>2. PoolBecomes(Same, [sess EXCEPT ![x] = [sess[x] EXCEPT !.writing = "idle"]], conn)
    BY <1>7 DEF WriteDone
  <2> QED BY <1>3, <2>1, <2>2
<1>8. CASE Lose(x)
  <2>1. [sess[x] EXCEPT !.lost = TRUE] \in SessionRecord
    BY <1>1, RecordTyped
  <2>2. /\ UNCHANGED <<map_, client_list_>>
        /\ sess' = [sess EXCEPT ![x] = [sess[x] EXCEPT !.lost = TRUE]]
    BY <1>8 DEF Lose
  <2> QED BY <2>1, <2>2, ObjectTyped DEF PoolTypes
<1> QED BY <1>4, <1>5, <1>6, <1>7, <1>8 DEF SessionStep

\* A thread or a worker changes the record of one session, whichever it is.
LEMMA RecordTypes ==
  ASSUME PoolTypes, NEW x, NEW r, x \in Sessions => r \in SessionRecord,
         sess' = [sess EXCEPT ![x] = r], UNCHANGED <<map_, client_list_>>
  PROVE  PoolTypes'
  BY ObjectTyped DEF PoolTypes

\* A step of one of the threads that connect.
LEMMA ConnectTypes ==
  ASSUME PoolTypes, HeldTypes, AtInv
  PROVE  /\ \A t \in {"heart", "zk"} : ThreadStep(t) => PoolTypes'
         /\ MainStep => PoolTypes'
<1>0. \A x \in Sessions : Posted(sess[x]) \in SessionRecord
  BY SessionTyped, PostedTyped
<1>1. ASSUME NEW t, ArmRead(t) PROVE PoolTypes'
  <2> DEFINE r == [sess[conn[t]] EXCEPT !.reading = TRUE]
  <2>1. sess' = [sess EXCEPT ![conn[t]] = r] /\ UNCHANGED <<map_, client_list_>>
    BY <1>1 DEF ArmRead
  <2>2. conn[t] \in Sessions => r \in SessionRecord
    BY SessionTyped, RecordTyped
  <2> HIDE DEF r
  <2> QED BY <2>1, <2>2, RecordTypes
<1>2. ASSUME NEW x, NEW c, PoolBecomes(Same, [sess EXCEPT ![x] = Posted(sess[x])], c)
      PROVE  PoolTypes'
  BY <1>0, <1>2, SameTyped, ObjectTyped, BecomesTyped
<1>3. ASSUME NEW t \in {"heart", "zk"}, ThreadStep(t) PROVE PoolTypes'
  <2>1. CASE CheckFound(t)
    <3>1. CASE sess' = sess
      BY <2>1, <3>1 DEF CheckFound, PoolTypes
    <3>2. CASE sess' = [sess EXCEPT ![map_[at[t]]] = Posted(sess[map_[at[t]]])]
      BY <1>0, <2>1, <3>2, RecordTypes DEF CheckFound
    <3> QED BY <2>1, <3>1, <3>2 DEF CheckFound
  <2>2. CASE CheckMissing(t)
    BY <2>2 DEF CheckMissing, PoolTypes
  <2>3. CASE Connected(t)
    <3>1. NewSession \in Sessions /\ at[t] \in Slots
      BY <2>3, NewIsUnused DEF Connected, AtInv
    <3>2. PICK c : PoolBecomes(FixSet(at[t], NewSession),
                               [sess EXCEPT ![NewSession] = Fresh(at[t])], c)
      BY <2>3 DEF Connected
    <3>3. [sess EXCEPT ![NewSession] = Fresh(at[t])] \in Objects
      BY <3>1, RecordTyped, ObjectTyped
    <3> QED BY <3>1, <3>2, <3>3, FixSetTyped, BecomesTyped
  <2>4. CASE ConnectFails(t)
    <3>1. PoolBecomes(Erased(at[t]), sess, conn)
      BY <2>4 DEF ConnectFails
    <3> QED BY <3>1, ErasedTyped, BecomesTyped DEF PoolTypes
  <2>5. CASE Registe(t)
    BY <1>2, <2>5 DEF Registe
  <2> QED BY <1>1, <1>3, <2>1, <2>2, <2>3, <2>4, <2>5 DEF ThreadStep
<1>4. ASSUME MainStep PROVE PoolTypes'
  <2>1. CASE MainUnresolved \/ MainConnectFails \/ MainOpenThrows
    BY <2>1 DEF MainUnresolved, MainConnectFails, MainOpenThrows, PoolTypes
  <2>2. CASE MainConnected
    <3> DEFINE s == ServerOf(at["main"])
               f == [sess EXCEPT ![NewSession] = Fresh(None)]
    <3>1. NewSession \in Sessions
      BY <2>2, NewIsUnused DEF MainConnected
    <3>2. f \in Objects
      BY <3>1, RecordTyped, ObjectTyped
    <3>3. PICK c : PoolBecomes(Same, f, c) \/ PoolBecomes(Set(s, NewSession), f, c)
      BY <2>2 DEF MainConnected
    <3> HIDE DEF s, f
    <3> QED BY <3>1, <3>2, <3>3, SetTyped, SameTyped, BecomesTyped
  <2>3. CASE MainNamed
    <3> DEFINE x == conn["main"]
               r == [sess[x] EXCEPT !.id = got]
    <3>1. sess' = [sess EXCEPT ![x] = r] /\ UNCHANGED <<map_, client_list_>>
      BY <2>3 DEF MainNamed
    <3>2. x \in Sessions => r \in SessionRecord
      BY SessionTyped, RecordTyped DEF HeldTypes
    <3> HIDE DEF x, r
    <3> QED BY <3>1, <3>2, RecordTypes
  <2>4. CASE MainRefused
    <3> DEFINE x == conn["main"]
               r == [sess[x] EXCEPT !.open = FALSE]
    <3>1. sess' = [sess EXCEPT ![x] = r] /\ UNCHANGED <<map_, client_list_>>
      BY <2>4 DEF MainRefused
    <3>2. x \in Sessions => r \in SessionRecord
      BY SessionTyped, RecordTyped
    <3> HIDE DEF x, r
    <3> QED BY <3>1, <3>2, RecordTypes
  <2>5. CASE MainRegiste
    BY <1>2, <2>5 DEF MainRegiste
  <2> QED BY <1>1, <1>4, <2>1, <2>2, <2>3, <2>4, <2>5 DEF MainStep
<1> QED BY <1>3, <1>4

LEMMA PoolTypesKeep ==
  ASSUME PoolTypes, HeldTypes, AtInv, [Next]_vars
  PROVE  PoolTypes'
<1>1. ASSUME NEW x \in Sessions, SessionStep(x) \/ Lose(x) PROVE PoolTypes'
  BY <1>1, SessionTypes
<1>2. ASSUME NEW k \in Slots, Dispatch(k) PROVE PoolTypes'
  <2>1. sess' = [sess EXCEPT ![map_[k]] = Posted(sess[map_[k]])] /\ UNCHANGED <<map_, client_list_>>
    BY <1>2 DEF Dispatch
  <2> QED BY <2>1, SessionTyped, PostedTyped, RecordTypes
<1>3. HeartRound \/ (\E S \in SUBSET Servers : CallbackClears(S))
      \/ (\E s \in Servers : CallbackInserts(s)) \/ UNCHANGED vars
      => UNCHANGED <<map_, client_list_, sess>>
  BY DEF HeartRound, CallbackClears, CallbackInserts, vars
<1>4. CASE UNCHANGED <<map_, client_list_, sess>>
  BY <1>4 DEF PoolTypes
<1> QED BY <1>1, <1>2, <1>3, <1>4, ConnectTypes DEF Next

\* What a step does to what the threads hold: nothing, or a thread takes a new
\* session, or lets go of it.
LEMMA HeldTypesKeep ==
  ASSUME HeldTypes, [Next]_vars
  PROVE  HeldTypes'
<1>1. ASSUME UNCHANGED <<conn, got>> PROVE HeldTypes'
  BY <1>1 DEF HeldTypes
<1>2. ASSUME NEW t, NEW x \in Sessions \cup {None}, conn' = [conn EXCEPT ![t] = x],
             got' \in Slots \cup {None}
      PROVE  HeldTypes'
  BY <1>2 DEF HeldTypes
<1>3. ASSUME NEW x \in Sessions, SessionStep(x) \/ Lose(x) PROVE HeldTypes'
  BY <1>1, <1>3 DEF SessionStep, ReadFails, Write, WriteDone, WriteFails, Lose, Close, PoolBecomes
<1>4. ASSUME NEW t, ArmRead(t) PROVE HeldTypes'
  BY <1>1, <1>4 DEF ArmRead
<1>5. ASSUME NEW t \in {"heart", "zk"}, ThreadStep(t) PROVE HeldTypes'
  <2>1. CASE CheckFound(t) \/ CheckMissing(t) \/ ConnectFails(t)
    BY <1>1, <2>1 DEF CheckFound, CheckMissing, ConnectFails, PoolBecomes
  <2>2. CASE Connected(t)
    <3>1. conn' = [conn EXCEPT ![t] = NewSession] /\ got' = got /\ NewSession \in Sessions
      BY <2>2, NewIsUnused DEF Connected, PoolBecomes
    <3> QED BY <1>2, <3>1 DEF HeldTypes
  <2>3. CASE Registe(t)
    <3>1. conn' = [conn EXCEPT ![t] = None] /\ got' = got
      BY <2>3 DEF Registe, PoolBecomes
    <3> QED BY <1>2, <3>1 DEF HeldTypes
  <2> QED BY <1>4, <1>5, <2>1, <2>2, <2>3 DEF ThreadStep
<1>6. CASE MainStep
  <2>1. CASE MainUnresolved \/ MainConnectFails \/ MainOpenThrows \/ MainRefused
    BY <1>1, <2>1 DEF MainUnresolved, MainConnectFails, MainOpenThrows, MainRefused
  <2>2. CASE MainConnected
    <3>1. /\ conn' = [conn EXCEPT !["main"] = NewSession] /\ NewSession \in Sessions
          /\ ServerOf(at["main"]) \in Servers /\ got' = SetSlot(ServerOf(at["main"]))
      BY <2>2, NewIsUnused, PoolAssumption DEF MainConnected, PoolBecomes
    <3> QED BY <1>2, <3>1, SetSlotTyped
  <2>3. CASE MainNamed
    BY <2>3 DEF MainNamed, HeldTypes
  <2>4. CASE MainRegiste
    <3>1. conn' = [conn EXCEPT !["main"] = None] /\ got' = got
      BY <2>4 DEF MainRegiste, PoolBecomes
    <3> QED BY <1>2, <3>1 DEF HeldTypes
  <2> QED BY <1>4, <1>6, <2>1, <2>2, <2>3, <2>4 DEF MainStep
<1>7. HeartRound \/ (\E S \in SUBSET Servers : CallbackClears(S))
      \/ (\E s \in Servers : CallbackInserts(s)) \/ (\E k \in Slots : Dispatch(k))
      \/ UNCHANGED vars
      => UNCHANGED <<conn, got>>
  BY DEF HeartRound, CallbackClears, CallbackInserts, Dispatch, vars
<1> QED BY <1>1, <1>3, <1>5, <1>6, <1>7 DEF Next

----------------------------------------------------------------------------
(* The list and the map.                                                    *)

\* The list of m has the ids of its map, each once.
Matched(m) == \A k \in Slots : m.list[k] = IF m.map[k] = None THEN 0 ELSE 1

\* Erasing by id and overwriting keep the two together, whatever was there.
LEMMA ErasedMatched ==
  ASSUME PoolTypes, ListMatchesMap, NEW k
  PROVE  Matched(Erased(k))
<1> DEFINE v == IF client_list_[k] > 0 THEN client_list_[k] - 1 ELSE 0
<1>1. /\ Erased(k).map = [map_ EXCEPT ![k] = None]
      /\ Erased(k).list = [client_list_ EXCEPT ![k] = v]
  BY DEF Erased
<1>2. k \in Slots => v = 0
  BY DEF ListMatchesMap
<1> HIDE DEF v
<1> QED BY <1>1, <1>2 DEF Matched, ListMatchesMap, PoolTypes, Maps, Lists

LEMMA FixSetMatched ==
  ASSUME PoolTypes, ListMatchesMap, NEW k, NEW x \in Sessions
  PROVE  Matched(FixSet(k, x))
<1> DEFINE v == IF client_list_[k] > 0 THEN client_list_[k] ELSE 1
<1>1. /\ FixSet(k, x).map = [map_ EXCEPT ![k] = x]
      /\ FixSet(k, x).list = [client_list_ EXCEPT ![k] = v]
  BY DEF FixSet
<1>2. k \in Slots => v = 1
  BY DEF ListMatchesMap
<1> HIDE DEF v
<1> QED BY <1>1, <1>2, NoneIsOther DEF Matched, ListMatchesMap, PoolTypes, Maps, Lists

\* set keeps them together if the slot it counts to is free: that is the slot
\* it takes then.
LEMMA SetMatched ==
  ASSUME PoolTypes, ListMatchesMap, NEW s, NEW x \in Sessions, SetSlot(s) # None,
         ~NumberTaken(s)
  PROVE  Matched(Set(s, x))
<1> DEFINE k == SlotOf(s, find_matched(s))
<1>1. find_matched(s) \in Nat /\ connect_count \in Nat
  BY MatchedIsNat, PoolAssumption
<1>2. ~(find_matched(s) >= connect_count)
  BY <1>1 DEF SetSlot
<1>3. map_[k] = None
  BY <1>1, <1>2 DEF NumberTaken
<1>4. SetSlot(s) = k
  BY <1>1, <1>2, <1>3 DEF SetSlot
<1>5. /\ Set(s, x).map = [map_ EXCEPT ![k] = x]
      /\ Set(s, x).list = [client_list_ EXCEPT ![k] = client_list_[k] + 1]
  BY <1>4 DEF Set
<1>6. k \in Slots => client_list_[k] + 1 = 1
  BY <1>3 DEF ListMatchesMap
<1> HIDE DEF k
<1> QED BY <1>5, <1>6, NoneIsOther DEF Matched, ListMatchesMap, PoolTypes, Maps, Lists

LEMMA BecomesMatched ==
  ASSUME NEW m, NEW f, NEW c, Matched(m), PoolBecomes(m, f, c)
  PROVE  ListMatchesMap'
  BY DEF Matched, PoolBecomes, ListMatchesMap

\* A step parts the list from the map only if main registers, with set, a
\* session of a server whose counted slot is taken.
LEMMA ListSteps ==
  ASSUME PoolTypes, MainInv, ListMatchesMap, [Next]_vars
  PROVE  \/ ListMatchesMap'
         \/ /\ ~running /\ "main" \in Threads
            /\ \E s \in Servers : NumberTaken(s)
<1>1. ASSUME UNCHANGED <<map_, client_list_>> PROVE ListMatchesMap'
  BY <1>1 DEF ListMatchesMap
<1>2. ASSUME NEW f, NEW c, PoolBecomes(Same, f, c) PROVE ListMatchesMap'
  BY <1>1, <1>2 DEF PoolBecomes, Same
<1>3. ASSUME NEW x \in Sessions, NEW r, Close(x, r) PROVE ListMatchesMap'
  <2>1. PICK f : PoolBecomes(Same, f, conn) \/ PoolBecomes(Erased(r.id), f, conn)
    BY <1>3 DEF Close
  <2> QED BY <1>2, <2>1, ErasedMatched, BecomesMatched
<1>4. ASSUME NEW x \in Sessions, SessionStep(x) \/ Lose(x) PROVE ListMatchesMap'
  <2>1. CASE ReadFails(x) \/ WriteFails(x)
    BY <1>3, <2>1 DEF ReadFails, WriteFails
  <2>2. CASE Write(x) \/ WriteDone(x)
    BY <1>2, <2>2 DEF Write, WriteDone
  <2>3. CASE Lose(x)
    BY <1>1, <2>3 DEF Lose
  <2> QED BY <1>4, <2>1, <2>2, <2>3 DEF SessionStep
<1>5. ASSUME NEW t \in {"heart", "zk"}, ThreadStep(t) PROVE ListMatchesMap'
  <2>1. CASE CheckFound(t) \/ CheckMissing(t) \/ ArmRead(t)
    BY <1>1, <2>1 DEF CheckFound, CheckMissing, ArmRead
  <2>2. CASE Connected(t)
    <3>1. NewSession \in Sessions
      BY <2>2, NewIsUnused DEF Connected
    <3>2. PICK f, c : PoolBecomes(FixSet(at[t], NewSession), f, c)
      BY <2>2 DEF Connected
    <3> QED BY <3>1, <3>2, FixSetMatched, BecomesMatched
  <2>3. CASE ConnectFails(t)
    <3>1. PoolBecomes(Erased(at[t]), sess, conn)
      BY <2>3 DEF ConnectFails
    <3> QED BY <3>1, ErasedMatched, BecomesMatched
  <2>4. CASE Registe(t)
    BY <1>2, <2>4 DEF Registe
  <2> QED BY <1>5, <2>1, <2>2, <2>3, <2>4 DEF ThreadStep
<1>6. CASE MainStep
  <2>1. CASE MainUnresolved \/ MainConnectFails \/ MainOpenThrows \/ MainNamed \/ MainRefused
             \/ ArmRead("main")
    BY <1>1, <2>1 DEF MainUnresolved, MainConnectFails, MainOpenThrows, MainNamed, MainRefused,
                      ArmRead
  <2>2. CASE MainConnected
    <3> DEFINE s == ServerOf(at["main"])
    <3>1. NewSession \in Sessions
      BY <2>2, NewIsUnused DEF MainConnected
    <3>2. s \in Servers /\ ~running /\ "main" \in Threads
      BY <2>2, PoolAssumption DEF MainConnected, MainInv
    <3>3. (SetSlot(s) # None /\ \E f, c : PoolBecomes(Set(s, NewSession), f, c))
          \/ \E f, c : PoolBecomes(Same, f, c)
      BY <2>2 DEF MainConnected
    <3> HIDE DEF s
    <3>4. CASE NumberTaken(s)
      BY <3>2, <3>4
    <3>5. CASE ~NumberTaken(s)
      BY <1>2, <3>1, <3>3, <3>5, SetMatched, BecomesMatched
    <3> QED BY <3>4, <3>5
  <2>3. CASE MainRegiste
    BY <1>2, <2>3 DEF MainRegiste
  <2> QED BY <1>6, <2>1, <2>2, <2>3 DEF MainStep
<1>7. HeartRound \/ (\E S \in SUBSET Servers : CallbackClears(S))
      \/ (\E s \in Servers : CallbackInserts(s)) \/ (\E k \in Slots : Dispatch(k))
      \/ UNCHANGED vars
      => UNCHANGED <<map_, client_list_>>
  BY DEF HeartRound, CallbackClears, CallbackInserts, Dispatch, vars
<1> QED BY <1>1, <1>4, <1>5, <1>6, <1>7 DEF Next

Inductive == PoolTypes /\ LoopTypes /\ HeldTypes /\ AtInv /\ MainInv

LEMMA PoolInductive == Spec => []Inductive
<1>1. Inductive /\ [Next]_vars => Inductive'
  BY PoolTypesKeep, LoopTypesKeep, HeldTypesKeep, AtKeeps, MainInvKeeps DEF Inductive
<1>2. Init => Inductive
  BY TypesInit, AtInit, MainInit DEF Inductive
<1> QED BY <1>1, <1>2, PTL DEF Spec

\* The map, the list, the session objects and the loops keep their types for
\* any number of servers, connections, sessions and faults: the slot that set
\* finds is a slot of its server, a loop never runs past the last slot, and no
\* erase takes an id out of client_list_ that is not in it.
THEOREM PoolTyped == Spec => []TypeOK
<1>1. Inductive => TypeOK
  BY DEF Inductive, PoolTypes, LoopTypes, HeldTypes, TypeOK, Maps, Lists, Objects, Places
<1> QED BY <1>1, PoolInductive, PTL

\* When the process connects only through the heart thread and the callback
\* (fix_set), client_list_ has exactly the ids of map_, however often and in
\* whatever order connections are made, lost and erased: get finds a link
\* whenever there is one.  With main's set it does not hold.
THEOREM ListMatches == "main" \notin Threads => (Spec => []ListMatchesMap)
<1> SUFFICES ASSUME "main" \notin Threads PROVE Spec => []ListMatchesMap
  OBVIOUS
<1>1. Init => ListMatchesMap
  BY DEF Init, ListMatchesMap
<1>2. Inductive /\ ListMatchesMap /\ [Next]_vars => ListMatchesMap'
  BY ListSteps DEF Inductive
<1> QED BY <1>1, <1>2, PoolInductive, PTL DEF Spec

\* With every thread taking part, the list parts from the map only while main
\* is connecting, and only if the slot that find_matched counts to is taken:
\* the heart thread has filled it, or ids of another server were counted.
THEOREM ListKeptTogether == Spec => ListKept
<1>1. Inductive /\ [Next]_vars
      => [ListMatchesMap /\ ~ListMatchesMap' =>
            ~running /\ \E s \in Servers : NumberTaken(s)]_vars
  BY ListSteps DEF Inductive
<1> QED BY <1>1, PoolInductive, PTL DEF Spec, ListKept

----------------------------------------------------------------------------
(* Entries of the map.                                                      *)

\* The entries of the map m are open sessions of f, reading or in O, that carry
\* the id they are found under or are in N.
EntriesOK(m, f, O, N) ==
  \A k \in Slots : m[k] # None =>
    /\ f[m[k]].open
    /\ f[m[k]].reading \/ m[k] \in O
    /\ f[m[k]].id = k \/ m[k] \in N

\* While main has not given its session the id, the session is found under
\* that id or not at all.
NameInv ==
  pc["main"] = "name" =>
    conn["main"] \in Sessions /\ \A k \in Slots : map_[k] = conn["main"] => k = got

EntryInv == EntriesOK(map_, sess, Opening, Unnamed) /\ NameInv

\* A thread t that moves, and may take or drop a session, leaves the sessions of
\* the others as they are.
LEMMA OpeningMoves ==
  ASSUME LoopTypes, HeldTypes, NEW t \in AllThreads, NEW p, NEW x,
         pc' = [pc EXCEPT ![t] = p], conn' = [conn EXCEPT ![t] = x]
  PROVE  /\ Opening \ {conn[t]} \subseteq Opening'
         /\ pc[t] \notin {"name", "arm"} => Opening \subseteq Opening'
         /\ p \in {"name", "arm"} => x \in Opening'
         /\ t # "main" => Unnamed' = Unnamed
         /\ Unnamed \ {conn[t]} \subseteq Unnamed'
         /\ pc["main"] # "name" => Unnamed = {}
         /\ t = "main" /\ p = "name" => x \in Unnamed'
<1>1. \A u \in AllThreads : /\ pc'[u] = IF u = t THEN p ELSE pc[u]
                            /\ conn'[u] = IF u = t THEN x ELSE conn[u]
  BY DEF LoopTypes, HeldTypes
<1>2. "main" \in AllThreads
  BY DEF AllThreads
<1>3. \A y : y \in Opening <=> \E u \in AllThreads : pc[u] \in {"name", "arm"} /\ y = conn[u]
  BY DEF Opening
<1>4. \A y : y \in Opening' <=> \E u \in AllThreads : pc'[u] \in {"name", "arm"} /\ y = conn'[u]
  BY DEF Opening
<1>5. \A y : y \in Unnamed <=> pc["main"] = "name" /\ y = conn["main"]
  BY DEF Unnamed
<1>6. \A y : y \in Unnamed' <=> pc'["main"] = "name" /\ y = conn'["main"]
  BY DEF Unnamed
<1>7. /\ Opening \ {conn[t]} \subseteq Opening'
      /\ pc[t] \notin {"name", "arm"} => Opening \subseteq Opening'
  BY <1>1, <1>3, <1>4
<1>8. p \in {"name", "arm"} => x \in Opening'
  BY <1>1, <1>4
<1>9. /\ t # "main" => Unnamed' = Unnamed
      /\ Unnamed \ {conn[t]} \subseteq Unnamed'
      /\ pc["main"] # "name" => Unnamed = {}
      /\ t = "main" /\ p = "name" => x \in Unnamed'
  BY <1>1, <1>2, <1>5, <1>6
<1> QED BY <1>7, <1>8, <1>9

\* Collecting the unreferenced sessions leaves the entries of the map alone.
LEMMA CollectKeeps ==
  ASSUME NEW m \in Maps, NEW f, NEW c, NEW O, NEW N, EntriesOK(m, f, O, N)
  PROVE  EntriesOK(m, Collect(f, m, c), O, N)
<1>1. ASSUME NEW k \in Slots, m[k] # None
      PROVE  Collect(f, m, c)[m[k]] = f[m[k]]
  BY <1>1 DEF Maps, Collect, Unreferenced
<1> QED BY <1>1 DEF EntriesOK

LEMMA BecomesKeeps ==
  ASSUME NEW m, m.map \in Maps, NEW f, NEW c, NEW O, NEW N, EntriesOK(m.map, f, O, N),
         PoolBecomes(m, f, c)
  PROVE  EntriesOK(map_', sess', O, N)
<1>1. map_' = m.map /\ sess' = Collect(f, m.map, c)
  BY DEF PoolBecomes
<1> QED BY <1>1, CollectKeeps

\* The session x gets the record r; whatever P and Q lose of O and N is x.
LEMMA UpdateKeeps ==
  ASSUME PoolTypes, NEW O, NEW N, EntriesOK(map_, sess, O, N), NEW x, NEW r, NEW P, NEW Q,
         O \ {x} \subseteq P, N \ {x} \subseteq Q,
         \A k \in Slots : map_[k] = x /\ x # None =>
           r.open /\ (r.reading \/ x \in P) /\ (r.id = k \/ x \in Q)
  PROVE  EntriesOK(map_, [sess EXCEPT ![x] = r], P, Q)
<1> DEFINE f == [sess EXCEPT ![x] = r]
<1>1. \A y \in Sessions : f[y] = IF y = x THEN r ELSE sess[y]
  BY DEF PoolTypes, Objects
<1>2. \A k \in Slots : map_[k] # None => map_[k] \in Sessions
  BY DEF PoolTypes, Maps
<1> HIDE DEF f
<1>3. EntriesOK(map_, f, P, Q)
  BY <1>1, <1>2 DEF EntriesOK
<1> QED BY <1>3 DEF f

\* A session that keeps its id, open and reading.
LEMMA FieldsKeep ==
  ASSUME PoolTypes, NEW O, NEW N, EntriesOK(map_, sess, O, N), NEW x, NEW r,
         x \in Sessions =>
           r.id = sess[x].id /\ r.open = sess[x].open /\ r.reading = sess[x].reading
  PROVE  EntriesOK(map_, [sess EXCEPT ![x] = r], O, N)
<1>1. \A k \in Slots : map_[k] = x /\ x # None =>
        r.open /\ (r.reading \/ x \in O) /\ (r.id = k \/ x \in N)
  BY DEF PoolTypes, Maps, EntriesOK
<1> QED BY <1>1, UpdateKeeps

\* The fields a handler changes, and those it leaves.
LEMMA FieldsOf ==
  ASSUME NEW r \in SessionRecord, NEW v
  PROVE  /\ [r EXCEPT !.lost = v].id = r.id /\ [r EXCEPT !.lost = v].open = r.open
         /\ [r EXCEPT !.lost = v].reading = r.reading
         /\ [r EXCEPT !.writing = v].id = r.id /\ [r EXCEPT !.writing = v].open = r.open
         /\ [r EXCEPT !.writing = v].reading = r.reading
         /\ [r EXCEPT !.calls = v].id = r.id /\ [r EXCEPT !.calls = v].open = r.open
         /\ [r EXCEPT !.calls = v].reading = r.reading
         /\ [r EXCEPT !.reading = v].id = r.id /\ [r EXCEPT !.reading = v].open = r.open
         /\ [r EXCEPT !.reading = v].reading = v
         /\ [r EXCEPT !.id = v].id = v /\ [r EXCEPT !.id = v].open = r.open
         /\ [r EXCEPT !.id = v].reading = r.reading
  BY DEF SessionRecord

LEMMA PostedFields ==
  ASSUME NEW r \in SessionRecord
  PROVE  Posted(r).id = r.id /\ Posted(r).open = r.open /\ Posted(r).reading = r.reading
  BY FieldsOf DEF Posted

\* Entries come and go under the id of main's session only by main's own hand.
LEMMA NameKept ==
  ASSUME NameInv,
         pc'["main"] = "name" =>
           pc["main"] = "name" /\ conn'["main"] = conn["main"] /\ got' = got,
         \A k \in Slots : map_'[k] \in {map_[k], None} \cup Unused
  PROVE  NameInv'
<1> SUFFICES ASSUME pc'["main"] = "name"
             PROVE  /\ conn'["main"] \in Sessions
                    /\ \A k \in Slots : map_'[k] = conn'["main"] => k = got'
  BY DEF NameInv
<1>1. conn["main"] \in Sessions /\ conn["main"] \notin Unused
  BY DEF NameInv, Unused, AllThreads
<1> QED BY <1>1, NoneIsOther DEF NameInv

\* An entry is erased, or none is.
LEMMA ErasedEntries ==
  ASSUME PoolTypes, NEW k, NEW j \in Slots
  PROVE  Erased(k).map[j] = (IF j = k THEN None ELSE map_[j]) /\ Same.map[j] = map_[j]
  BY DEF PoolTypes, Maps, Erased, Same

\* The handlers run when main has named all its sessions.
LEMMA AllNamed ==
  ASSUME MainInv, running
  PROVE  Unnamed = {}
  BY DEF MainInv, Unnamed

\* A session that closes, with new fields r, is no longer in the map: if it
\* was there, it was under the id it erases.
LEMMA CloseKeeps ==
  ASSUME PoolTypes, MainInv, running, EntryInv, NEW x \in Sessions, NEW r,
         r.id = sess[x].id, Close(x, r), UNCHANGED <<pc, got>>
  PROVE  EntryInv'
<1> DEFINE m == IF r.id = None THEN Same ELSE Erased(r.id)
           c == [r EXCEPT !.open = FALSE]
           f == [sess EXCEPT ![x] = c]
<1>1. PoolBecomes(m, f, conn)
  BY DEF Close
<1>2. m.map \in Maps
  BY SameTyped, ErasedTyped
<1>3. \A k \in Slots : m.map[k] = IF k = r.id THEN None ELSE map_[k]
  BY ErasedEntries, NoneIsOther
<1>4. \A y \in Sessions : f[y] = IF y = x THEN c ELSE sess[y]
  BY DEF PoolTypes, Objects
<1>5. \A k \in Slots : map_[k] # None => map_[k] \in Sessions
  BY DEF PoolTypes, Maps
<1>6. conn' = conn /\ map_' = m.map
  BY <1>1 DEF PoolBecomes
<1>7. Opening' = Opening /\ Unnamed' = Unnamed /\ Unnamed = {}
  BY <1>6, AllNamed DEF Opening, Unnamed
<1> HIDE DEF m, f, c
<1>8. \A k \in Slots : map_[k] = x => k = r.id
  BY <1>7, NoneIsOther DEF EntryInv, EntriesOK
<1>9. EntriesOK(m.map, f, Opening, Unnamed)
  BY <1>3, <1>4, <1>5, <1>8 DEF EntryInv, EntriesOK
<1>10. EntriesOK(map_', sess', Opening', Unnamed')
  BY <1>1, <1>2, <1>7, <1>9, BecomesKeeps
<1>11. NameInv'
  <2>1. \A k \in Slots : map_'[k] \in {map_[k], None} \cup Unused
    BY <1>3, <1>6
  <2> QED BY <1>6, <2>1, NameKept DEF EntryInv
<1> QED BY <1>10, <1>11 DEF EntryInv

\* A step of the handlers of a session keeps the invariant.
LEMMA SessionKeeps ==
  ASSUME PoolTypes, MainInv, EntryInv, NEW x \in Sessions, SessionStep(x) \/ Lose(x)
  PROVE  EntryInv'
<1>1. sess[x] \in SessionRecord /\ UNCHANGED <<pc, got>>
  BY SessionTyped DEF SessionStep, ReadFails, Write, WriteDone, WriteFails, Lose
<1>2. ASSUME NEW r, r.id = sess[x].id, r.open = sess[x].open, r.reading = sess[x].reading,
             \/ PoolBecomes(Same, [sess EXCEPT ![x] = r], conn)
             \/ sess' = [sess EXCEPT ![x] = r] /\ UNCHANGED <<map_, conn>>
      PROVE  EntryInv'
  <2>1. UNCHANGED <<map_, conn>>
    BY <1>2 DEF PoolBecomes, Same
  <2>2. Opening' = Opening /\ Unnamed' = Unnamed
    BY <1>1, <2>1 DEF Opening, Unnamed
  <2>3. EntriesOK(map_, [sess EXCEPT ![x] = r], Opening, Unnamed)
    BY <1>2, FieldsKeep DEF EntryInv
  <2>4. Same.map = map_ /\ Same.map \in Maps
    BY DEF Same, PoolTypes
  <2>5. EntriesOK(map_', sess', Opening', Unnamed')
    BY <1>2, <2>1, <2>2, <2>3, <2>4, BecomesKeeps
  <2>6. NameInv'
    BY <1>1, <2>1 DEF EntryInv, NameInv
  <2> QED BY <2>5, <2>6 DEF EntryInv
<1>3. CASE ReadFails(x)
  <2>1. running /\ Close(x, [sess[x] EXCEPT !.reading = FALSE])
    BY <1>3 DEF ReadFails
  <2> QED BY <1>1, <2>1, FieldsOf, CloseKeeps
<1>4. CASE WriteFails(x)
  <2>1. running /\ Close(x, [sess[x] EXCEPT !.writing = "stuck"])
    BY <1>4 DEF WriteFails
  <2> QED BY <1>1, <2>1, FieldsOf, CloseKeeps
<1>5. CASE Write(x)
  <2> DEFINE a == [sess[x] EXCEPT !.calls = sess[x].calls - 1]
             w == IF sess[x].writing = "idle" THEN "busy" ELSE sess[x].writing
             r == [a EXCEPT !.writing = w]
  <2>1. sess[x].calls > 0 /\ PoolBecomes(Same, [sess EXCEPT ![x] = r], conn)
    BY <1>5 DEF Write
  <2>2. sess[x].calls - 1 \in 0..MaxPosted
    BY <1>1, <2>1 DEF SessionRecord, MaxPosted
  <2>3. a \in SessionRecord
    BY <1>1, <2>2, RecordTyped
  <2>4. a.id = sess[x].id /\ a.open = sess[x].open /\ a.reading = sess[x].reading
    BY <1>1, FieldsOf
  <2> HIDE DEF a, w
  <2>5. r.id = a.id /\ r.open = a.open /\ r.reading = a.reading
    BY <2>3, FieldsOf
  <2> HIDE DEF r
  <2> QED BY <1>2, <2>1, <2>4, <2>5
<1>6. CASE WriteDone(x)
  <2> DEFINE r == [sess[x] EXCEPT !.writing = "idle"]
  <2>1. PoolBecomes(Same, [sess EXCEPT ![x] = r], conn)
    BY <1>6 DEF WriteDone
  <2>2. r.id = sess[x].id /\ r.open = sess[x].open /\ r.reading = sess[x].reading
    BY <1>1, FieldsOf
  <2> HIDE DEF r
  <2> QED BY <1>2, <2>1, <2>2
<1>7. CASE Lose(x)
  <2> DEFINE r == [sess[x] EXCEPT !.lost = TRUE]
  <2>1. sess' = [sess EXCEPT ![x] = r] /\ UNCHANGED <<map_, conn>>
    BY <1>7 DEF Lose
  <2>2. r.id = sess[x].id /\ r.open = sess[x].open /\ r.reading = sess[x].reading
    BY <1>1, FieldsOf
  <2> HIDE DEF r
  <2> QED BY <1>2, <2>1, <2>2
<1> QED BY <1>3, <1>4, <1>5, <1>6, <1>7 DEF SessionStep

\* A new session x is entered into the map under slot k, by the thread that will
\* arm its read; it carries that id, or is in Q.
LEMMA RegisterKeeps ==
  ASSUME PoolTypes, NEW O, NEW N, EntriesOK(map_, sess, O, N), NEW k, NEW x \in Unused,
         NEW j, NEW P, NEW Q, O \subseteq P, N \subseteq Q, x \in P, j = k \/ x \in Q
  PROVE  EntriesOK([map_ EXCEPT ![k] = x], [sess EXCEPT ![x] = Fresh(j)], P, Q)
<1> DEFINE m == [map_ EXCEPT ![k] = x]
           f == [sess EXCEPT ![x] = Fresh(j)]
<1>1. x \in Sessions /\ \A i \in Slots : map_[i] # x
  BY DEF Unused
<1>2. \A i \in Slots : m[i] = IF i = k THEN x ELSE map_[i]
  BY DEF PoolTypes, Maps
<1>3. \A y \in Sessions : f[y] = IF y = x THEN Fresh(j) ELSE sess[y]
  BY DEF PoolTypes, Objects
<1>4. Fresh(j).id = j /\ Fresh(j).open
  BY DEF Fresh
<1>5. \A i \in Slots : map_[i] # None => map_[i] \in Sessions
  BY DEF PoolTypes, Maps
<1> HIDE DEF m, f
<1>6. EntriesOK(m, f, P, Q)
  BY <1>1, <1>2, <1>3, <1>4, <1>5 DEF EntriesOK
<1> QED BY <1>6 DEF m, f

\* A thread that only moves.
LEMMA MoveKeeps ==
  ASSUME PoolTypes, LoopTypes, HeldTypes, EntryInv, NEW t \in {"heart", "zk"}, NEW p,
         pc' = [pc EXCEPT ![t] = p], pc[t] \notin {"name", "arm"}, UNCHANGED <<conn, got>>
  PROVE  /\ Opening \subseteq Opening' /\ Unnamed' = Unnamed
         /\ pc'["main"] = pc["main"]
<1>1. t \in AllThreads /\ "main" \in AllThreads /\ t # "main"
  BY DEF AllThreads
<1>2. conn' = [conn EXCEPT ![t] = conn[t]]
  BY DEF HeldTypes
<1> QED BY <1>1, <1>2, OpeningMoves DEF LoopTypes

LEMMA WiderKeeps ==
  ASSUME NEW m, NEW f, NEW O, NEW N, EntriesOK(m, f, O, N), NEW P, O \subseteq P
  PROVE  EntriesOK(m, f, P, N)
  BY DEF EntriesOK

\* A step of the heart thread or the callback keeps the invariant.
LEMMA ThreadKeeps ==
  ASSUME PoolTypes, LoopTypes, HeldTypes, EntryInv, NEW t \in {"heart", "zk"}, ThreadStep(t)
  PROVE  EntryInv'
<1>1. t \in AllThreads /\ "main" \in AllThreads /\ t # "main" /\ got' = got
  BY DEF AllThreads, ThreadStep, CheckFound, CheckMissing, ConnectFails, Connected, ArmRead, Registe
<1>2. PICK p : pc' = [pc EXCEPT ![t] = p] /\ (Connected(t) => p = "arm")
  <2>1. CASE GoOn(t, at[t] + 1, todo[t], "check") /\ ~Connected(t)
    BY <2>1 DEF GoOn
  <2>2. CASE CheckMissing(t) \/ ArmRead(t) \/ Connected(t)
    <3>1. CASE Connected(t) BY <3>1 DEF Connected
    <3>2. CASE ~Connected(t) BY <2>2, <3>2 DEF CheckMissing, EndRound, ArmRead
    <3> QED BY <3>1, <3>2
  <2> QED BY <2>1, <2>2 DEF ThreadStep, CheckFound, ConnectFails, Registe
<1>3. /\ pc'["main"] = pc["main"]
      /\ \A x : conn' = [conn EXCEPT ![t] = x] => conn'["main"] = conn["main"]
  BY <1>1, <1>2 DEF LoopTypes, HeldTypes
<1>4. conn = [conn EXCEPT ![t] = conn[t]]
  BY DEF HeldTypes
<1>5. CASE CheckFound(t)
  <2>1. pc[t] = "check" /\ UNCHANGED <<map_, conn>>
    BY <1>5 DEF CheckFound
  <2>2. Opening \subseteq Opening' /\ Unnamed' = Unnamed
    BY <1>1, <1>2, <2>1, MoveKeeps
  <2>3. EntriesOK(map_, sess', Opening, Unnamed)
    <3> DEFINE x == map_[at[t]]
    <3>1. x \in Sessions => Posted(sess[x]).id = sess[x].id /\ Posted(sess[x]).open = sess[x].open
                            /\ Posted(sess[x]).reading = sess[x].reading
      BY SessionTyped, PostedFields
    <3>2. sess' = sess \/ sess' = [sess EXCEPT ![x] = Posted(sess[x])]
      BY <1>5 DEF CheckFound
    <3> HIDE DEF x
    <3> QED BY <3>1, <3>2, FieldsKeep DEF EntryInv
  <2>4. EntriesOK(map_', sess', Opening', Unnamed')
    BY <2>1, <2>2, <2>3, WiderKeeps
  <2> QED BY <1>1, <1>3, <2>1, <2>4 DEF EntryInv, NameInv
<1>6. CASE CheckMissing(t)
  <2>1. pc[t] = "check" /\ UNCHANGED <<map_, sess, conn>>
    BY <1>6 DEF CheckMissing
  <2>2. Opening \subseteq Opening' /\ Unnamed' = Unnamed
    BY <1>1, <1>2, <2>1, MoveKeeps
  <2>3. EntriesOK(map_', sess', Opening', Unnamed')
    BY <2>1, <2>2, WiderKeeps DEF EntryInv
  <2> QED BY <1>1, <1>3, <2>1, <2>3 DEF EntryInv, NameInv
<1>7. CASE ConnectFails(t)
  <2> DEFINE m == Erased(at[t])
  <2>1. pc[t] = "connect" /\ PoolBecomes(m, sess, conn)
    BY <1>7 DEF ConnectFails
  <2>2. conn' = conn /\ map_' = m.map
    BY <2>1 DEF PoolBecomes
  <2>3. Opening \subseteq Opening' /\ Unnamed' = Unnamed
    BY <1>1, <1>2, <2>1, <2>2, MoveKeeps
  <2>4. m.map \in Maps /\ \A k \in Slots : m.map[k] \in {map_[k], None}
    BY ErasedTyped, ErasedEntries
  <2> HIDE DEF m
  <2>5. EntriesOK(m.map, sess, Opening, Unnamed)
    BY <2>4 DEF EntryInv, EntriesOK
  <2>6. EntriesOK(map_', sess', Opening', Unnamed')
    BY <2>1, <2>3, <2>4, <2>5, WiderKeeps, BecomesKeeps
  <2>7. NameInv'
    BY <1>1, <1>3, <2>2, <2>4, NameKept DEF EntryInv
  <2> QED BY <2>6, <2>7 DEF EntryInv
<1>8. CASE Connected(t)
  <2> DEFINE x == NewSession
             m == FixSet(at[t], x)
             f == [sess EXCEPT ![x] = Fresh(at[t])]
             c == [conn EXCEPT ![t] = x]
  <2>1. pc[t] = "connect" /\ PoolBecomes(m, f, c)
    BY <1>8 DEF Connected
  <2>2. conn' = c /\ map_' = m.map
    BY <2>1 DEF PoolBecomes
  <2>3. x \in Unused /\ x \in Sessions
    BY <1>8, NewIsUnused DEF Connected
  <2>4. m.map = [map_ EXCEPT ![at[t]] = x] /\ m.map \in Maps
    BY <2>3, FixSetTyped DEF FixSet
  <2>5. \A k \in Slots : m.map[k] \in {map_[k], None} \cup Unused
    BY <2>3, <2>4 DEF PoolTypes, Maps
  <2>6. Opening \subseteq Opening' /\ x \in Opening' /\ Unnamed' = Unnamed
    BY <1>1, <1>2, <1>8, <2>1, <2>2, OpeningMoves
  <2>7. EntriesOK(m.map, f, Opening', Unnamed')
    <3> HIDE DEF x, m
    <3>1. EntriesOK(map_, sess, Opening, Unnamed)
      BY DEF EntryInv
    <3>2. EntriesOK([map_ EXCEPT ![at[t]] = x], f, Opening', Unnamed')
      BY <2>3, <2>6, <3>1, RegisterKeeps
    <3> QED BY <2>4, <3>2
  <2>8. conn'["main"] = conn["main"]
    BY <1>3, <2>2
  <2> HIDE DEF x, m, f, c
  <2>9. EntriesOK(map_', sess', Opening', Unnamed')
    BY <2>1, <2>4, <2>7, BecomesKeeps
  <2>10. NameInv'
    BY <1>1, <1>3, <2>2, <2>5, <2>8, NameKept DEF EntryInv
  <2> QED BY <2>9, <2>10 DEF EntryInv
<1>9. CASE ArmRead(t)
  <2> DEFINE x == conn[t]
             r == [sess[x] EXCEPT !.reading = TRUE]
  <2>1. sess' = [sess EXCEPT ![x] = r] /\ UNCHANGED <<map_, conn>>
    BY <1>9 DEF ArmRead
  <2>2. Opening \ {x} \subseteq Opening' /\ Unnamed' = Unnamed
    BY <1>1, <1>2, <1>4, <2>1, OpeningMoves
  <2>3. x \in Sessions => r.id = sess[x].id /\ r.open = sess[x].open /\ r.reading
    BY SessionTyped, FieldsOf
  <2> HIDE DEF x, r
  <2>4. \A k \in Slots : map_[k] = x /\ x # None =>
          r.open /\ (r.reading \/ x \in Opening') /\ (r.id = k \/ x \in Unnamed')
    BY <2>2, <2>3 DEF PoolTypes, Maps, EntryInv, EntriesOK
  <2>5. EntriesOK(map_, [sess EXCEPT ![x] = r], Opening', Unnamed')
    BY <2>2, <2>4, UpdateKeeps DEF EntryInv
  <2> QED BY <1>1, <1>3, <2>1, <2>5 DEF EntryInv, NameInv
<1>10. CASE Registe(t)
  <2> DEFINE x == conn[t]
             f == [sess EXCEPT ![x] = Posted(sess[x])]
             c == [conn EXCEPT ![t] = None]
  <2>1. pc[t] = "registe" /\ PoolBecomes(Same, f, c)
    BY <1>10 DEF Registe
  <2>2. conn' = c /\ map_' = map_ /\ Same.map = map_ /\ map_ \in Maps
    BY <2>1 DEF PoolBecomes, Same, PoolTypes
  <2>3. Opening \subseteq Opening' /\ Unnamed' = Unnamed
    BY <1>1, <1>2, <2>1, <2>2, OpeningMoves
  <2>4. conn'["main"] = conn["main"]
    BY <1>3, <2>2
  <2>5. x \in Sessions => Posted(sess[x]).id = sess[x].id /\ Posted(sess[x]).open = sess[x].open
                          /\ Posted(sess[x]).reading = sess[x].reading
    BY SessionTyped, PostedFields
  <2>6. EntriesOK(map_, f, Opening, Unnamed)
    BY <2>5, FieldsKeep DEF EntryInv
  <2> HIDE DEF x, f, c
  <2>7. EntriesOK(map_', sess', Opening', Unnamed')
    BY <2>1, <2>2, <2>3, <2>6, WiderKeeps, BecomesKeeps
  <2> QED BY <1>1, <1>3, <2>2, <2>4, <2>7 DEF EntryInv, NameInv
<1> QED BY <1>5, <1>6, <1>7, <1>8, <1>9, <1>10 DEF ThreadStep

\* A step of main keeps the invariant: between set and the naming the session is
\* found under the slot that set returned, and no handler runs.
LEMMA MainKeeps ==
  ASSUME PoolTypes, LoopTypes, HeldTypes, EntryInv, MainStep
  PROVE  EntryInv'
<1> DEFINE x == conn["main"]
<1>1. "main" \in AllThreads /\ conn = [conn EXCEPT !["main"] = x]
  BY DEF AllThreads, HeldTypes
<1>2. ASSUME NEW p, pc' = [pc EXCEPT !["main"] = p] PROVE pc'["main"] = p
  BY <1>1, <1>2 DEF LoopTypes
<1>3. EntriesOK(map_, sess, Opening, Unnamed) /\ NameInv
  BY DEF EntryInv
<1>4. x \in Sessions => sess[x] \in SessionRecord
  BY SessionTyped
<1>5. CASE MainUnresolved \/ MainConnectFails \/ MainOpenThrows
  <2>1. pc["main"] = "connect" /\ UNCHANGED <<map_, sess, conn>>
    BY <1>5 DEF MainUnresolved, MainConnectFails, MainOpenThrows
  <2>2. PICK p \in {"connect", "idle"} : pc' = [pc EXCEPT !["main"] = p]
    BY <1>5 DEF MainUnresolved, MainConnectFails, MainOpenThrows, MainGivesUp, MainGoesOn
  <2>3. Opening \subseteq Opening' /\ Unnamed \subseteq Unnamed'
    BY <1>1, <2>1, <2>2, OpeningMoves
  <2>4. pc'["main"] # "name"
    BY <1>2, <2>2
  <2>5. EntriesOK(map_', sess', Opening', Unnamed')
    BY <1>3, <2>1, <2>3 DEF EntriesOK
  <2> QED BY <2>4, <2>5 DEF EntryInv, NameInv
<1>6. CASE MainConnected
  <2> DEFINE s == ServerOf(at["main"])
             y == NewSession
             k == SetSlot(s)
             m == IF k = None THEN Same ELSE Set(s, y)
             f == [sess EXCEPT ![y] = Fresh(None)]
             c == [conn EXCEPT !["main"] = y]
  <2>1. /\ pc["main"] = "connect" /\ PoolBecomes(m, f, c)
        /\ pc' = [pc EXCEPT !["main"] = "name"] /\ got' = k
    BY <1>6 DEF MainConnected
  <2>2. y \in Unused /\ y \in Sessions
    BY <1>6, NewIsUnused DEF MainConnected
  <2>3. conn' = c /\ map_' = m.map
    BY <2>1 DEF PoolBecomes
  <2>4. m.map \in Maps
    BY <2>2, SetTyped, SameTyped
  <2>5. m.map = IF k = None THEN map_ ELSE [map_ EXCEPT ![k] = y]
    BY DEF Set, Same
  <2>6. \A i \in Slots : map_[i] # y
    BY <2>2 DEF Unused
  <2> HIDE DEF k, m, y, s
  <2>7. /\ Opening \subseteq Opening' /\ y \in Opening'
        /\ Unnamed \subseteq Unnamed' /\ y \in Unnamed'
    BY <1>1, <2>1, <2>3, OpeningMoves
  <2>8. EntriesOK(m.map, f, Opening', Unnamed')
    <3>1. CASE k = None
      <4>1. EntriesOK(map_, f, Opening', Unnamed')
        BY <1>3, <2>6, <2>7, UpdateKeeps
      <4> QED BY <2>5, <3>1, <4>1
    <3>2. CASE k # None
      <4>1. EntriesOK([map_ EXCEPT ![k] = y], f, Opening', Unnamed')
        BY <1>3, <2>2, <2>7, RegisterKeeps
      <4> QED BY <2>5, <3>2, <4>1
    <3> QED BY <3>1, <3>2
  <2>9. conn'["main"] = y
    BY <1>1, <2>3 DEF HeldTypes
  <2>10. \A i \in Slots : map_'[i] = y => i = k
    BY <2>3, <2>5, <2>6 DEF PoolTypes, Maps
  <2> HIDE DEF f, c
  <2>11. EntriesOK(map_', sess', Opening', Unnamed')
    BY <2>1, <2>4, <2>8, BecomesKeeps
  <2> QED BY <2>1, <2>2, <2>9, <2>10, <2>11 DEF EntryInv, NameInv
<1>7. CASE MainNamed
  <2> DEFINE r == [sess[x] EXCEPT !.id = got]
  <2>1. /\ pc["main"] = "name" /\ sess' = [sess EXCEPT ![x] = r] /\ UNCHANGED <<map_, conn>>
        /\ pc' = [pc EXCEPT !["main"] = "arm"]
    BY <1>7 DEF MainNamed
  <2>2. /\ Opening \ {x} \subseteq Opening' /\ x \in Opening'
        /\ Unnamed \ {x} \subseteq Unnamed'
    BY <1>1, <2>1, OpeningMoves
  <2>3. x \in Sessions => r.id = got /\ r.open = sess[x].open
    BY <1>4, FieldsOf
  <2>4. \A k \in Slots : map_[k] = x => k = got /\ x \in Sessions /\ x # None
    BY <1>3, <2>1, NoneIsOther DEF NameInv
  <2> HIDE DEF x, r
  <2>5. \A k \in Slots : map_[k] = x /\ x # None =>
          r.open /\ (r.reading \/ x \in Opening') /\ (r.id = k \/ x \in Unnamed')
    BY <1>3, <2>2, <2>3, <2>4 DEF EntriesOK
  <2>6. EntriesOK(map_, [sess EXCEPT ![x] = r], Opening', Unnamed')
    BY <1>3, <2>2, <2>5, UpdateKeeps
  <2>7. pc'["main"] # "name"
    BY <1>2, <2>1
  <2> QED BY <2>1, <2>6, <2>7 DEF EntryInv, NameInv
<1>8. CASE MainRefused
  <2> DEFINE r == [sess[x] EXCEPT !.open = FALSE]
  <2>1. /\ pc["main"] = "name" /\ got = None /\ UNCHANGED <<map_, conn>>
        /\ sess' = [sess EXCEPT ![x] = r] /\ pc' = [pc EXCEPT !["main"] = "registe"]
    BY <1>8 DEF MainRefused
  <2>2. Opening \ {x} \subseteq Opening' /\ Unnamed \ {x} \subseteq Unnamed'
    BY <1>1, <2>1, OpeningMoves
  <2>3. \A k \in Slots : map_[k] # x
    BY <1>3, <2>1, NoneIsOther DEF NameInv
  <2> HIDE DEF x, r
  <2>4. EntriesOK(map_, [sess EXCEPT ![x] = r], Opening', Unnamed')
    BY <1>3, <2>2, <2>3, UpdateKeeps
  <2>5. pc'["main"] # "name"
    BY <1>2, <2>1
  <2> QED BY <2>1, <2>4, <2>5 DEF EntryInv, NameInv
<1>9. CASE ArmRead("main")
  <2> DEFINE r == [sess[x] EXCEPT !.reading = TRUE]
  <2>1. /\ pc["main"] = "arm" /\ sess' = [sess EXCEPT ![x] = r] /\ UNCHANGED <<map_, conn>>
        /\ pc' = [pc EXCEPT !["main"] = "registe"]
    BY <1>9 DEF ArmRead
  <2>2. /\ Opening \ {x} \subseteq Opening' /\ Unnamed \subseteq Unnamed'
    BY <1>1, <2>1, OpeningMoves
  <2>3. x \in Sessions => r.id = sess[x].id /\ r.open = sess[x].open /\ r.reading
    BY <1>4, FieldsOf
  <2> HIDE DEF x, r
  <2>4. \A k \in Slots : map_[k] = x /\ x # None =>
          r.open /\ (r.reading \/ x \in Opening') /\ (r.id = k \/ x \in Unnamed')
    BY <1>3, <2>2, <2>3 DEF PoolTypes, Maps, EntriesOK
  <2>5. EntriesOK(map_, [sess EXCEPT ![x] = r], Opening', Unnamed')
    BY <1>3, <2>2, <2>4, UpdateKeeps
  <2>6. pc'["main"] # "name"
    BY <1>2, <2>1
  <2> QED BY <2>1, <2>5, <2>6 DEF EntryInv, NameInv
<1>10. CASE MainRegiste
  <2> DEFINE f == [sess EXCEPT ![x] = Posted(sess[x])]
             c == [conn EXCEPT !["main"] = None]
  <2>1. pc["main"] = "registe" /\ PoolBecomes(Same, f, c)
    BY <1>10 DEF MainRegiste
  <2>2. PICK p \in {"connect", "idle"} : pc' = [pc EXCEPT !["main"] = p]
    BY <1>10 DEF MainRegiste, MainGoesOn
  <2>3. conn' = c /\ map_' = map_ /\ Same.map = map_ /\ map_ \in Maps
    BY <2>1 DEF PoolBecomes, Same, PoolTypes
  <2>4. Opening \subseteq Opening' /\ Unnamed \subseteq Unnamed'
    BY <1>1, <2>1, <2>2, <2>3, OpeningMoves
  <2>5. x \in Sessions => Posted(sess[x]).id = sess[x].id /\ Posted(sess[x]).open = sess[x].open
                          /\ Posted(sess[x]).reading = sess[x].reading
    BY <1>4, PostedFields
  <2>6. EntriesOK(map_, f, Opening, Unnamed)
    BY <1>3, <2>5, FieldsKeep
  <2>7. pc'["main"] # "name"
    BY <1>2, <2>2
  <2> HIDE DEF x, f, c
  <2>8. EntriesOK(map_', sess', Opening, Unnamed)
    BY <2>1, <2>3, <2>6, BecomesKeeps
  <2>9. EntriesOK(map_', sess', Opening', Unnamed')
    BY <2>4, <2>8 DEF EntriesOK
  <2> QED BY <2>7, <2>9 DEF EntryInv, NameInv
<1> QED BY <1>5, <1>6, <1>7, <1>8, <1>9, <1>10 DEF MainStep

LEMMA EntryKeeps ==
  ASSUME Inductive, EntryInv, [Next]_vars
  PROVE  EntryInv'
<1>0. PoolTypes /\ LoopTypes /\ HeldTypes /\ MainInv
  BY DEF Inductive
<1>1. ASSUME NEW x \in Sessions, SessionStep(x) \/ Lose(x) PROVE EntryInv'
  BY <1>0, <1>1, SessionKeeps
<1>2. ASSUME NEW k \in Slots, Dispatch(k) PROVE EntryInv'
  <2> DEFINE x == map_[k]
  <2>1. sess' = [sess EXCEPT ![x] = Posted(sess[x])] /\ UNCHANGED <<map_, pc, conn, got>>
    BY <1>2 DEF Dispatch
  <2>2. Opening' = Opening /\ Unnamed' = Unnamed
    BY <2>1 DEF Opening, Unnamed
  <2>3. x \in Sessions => Posted(sess[x]).id = sess[x].id /\ Posted(sess[x]).open = sess[x].open
                          /\ Posted(sess[x]).reading = sess[x].reading
    BY <1>0, SessionTyped, PostedFields
  <2> HIDE DEF x
  <2>4. EntriesOK(map_, sess', Opening, Unnamed)
    BY <1>0, <2>1, <2>3, FieldsKeep DEF EntryInv
  <2> QED BY <2>1, <2>2, <2>4 DEF EntryInv, NameInv
<1>3. ASSUME NEW t \in {"heart", "zk"}, NEW p, pc' = [pc EXCEPT ![t] = p],
             pc[t] \notin {"name", "arm"}, UNCHANGED <<map_, sess, conn, got>>
      PROVE  EntryInv'
  <2>1. Opening \subseteq Opening' /\ Unnamed' = Unnamed /\ pc'["main"] = pc["main"]
    BY <1>0, <1>3, MoveKeeps
  <2>2. EntriesOK(map_', sess', Opening', Unnamed')
    BY <1>3, <2>1, WiderKeeps DEF EntryInv
  <2> QED BY <1>3, <2>1, <2>2 DEF EntryInv, NameInv
<1>4. CASE HeartRound
  <2>1. PICK p : pc' = [pc EXCEPT !["heart"] = p]
    BY <1>4 DEF HeartRound, GoOn
  <2> QED BY <1>3, <1>4, <2>1 DEF HeartRound
<1>5. ASSUME NEW S \in SUBSET Servers, CallbackClears(S) PROVE EntryInv'
  BY <1>3, <1>5 DEF CallbackClears
<1>6. ASSUME NEW s \in Servers, CallbackInserts(s) PROVE EntryInv'
  <2>1. PICK p : pc' = [pc EXCEPT !["zk"] = p]
    <3>1. CASE GoOn("zk", 0, server_map_', "check")
      BY <3>1 DEF GoOn
    <3>2. CASE UNCHANGED <<pc, at>>
      <4>1. pc = [pc EXCEPT !["zk"] = pc["zk"]]
        BY <1>0 DEF LoopTypes
      <4> QED BY <3>2, <4>1
    <3> QED BY <1>6, <3>1, <3>2 DEF CallbackInserts
  <2> QED BY <1>3, <1>6, <2>1 DEF CallbackInserts
<1>7. ASSUME NEW t \in {"heart", "zk"}, ThreadStep(t) PROVE EntryInv'
  BY <1>0, <1>7, ThreadKeeps
<1>8. CASE MainStep
  BY <1>0, <1>8, MainKeeps
<1>9. CASE UNCHANGED vars
  BY <1>9 DEF vars, EntryInv, EntriesOK, NameInv, Opening, Unnamed
<1> QED BY <1>1, <1>2, <1>4, <1>5, <1>6, <1>7, <1>8, <1>9 DEF Next

\* The initial pool is empty.
LEMMA EntryInit == Init => EntryInv
  BY DEF Init, EntryInv, EntriesOK, NameInv, AllThreads

\* A session found in the pool is open, for any number of servers, connections,
\* threads and faults.  It has a read outstanding or the thread that entered it
\* is between its map operation and its async_read; it carries the id it is
\* found under, or main is between set and the naming and no handler runs.  So
\* handle_connect_fix_id, set, fix_set and the erase by id of on_close leave no
\* dead session behind.
THEOREM EntryAlwaysWatched == Spec => []EntryWatched
<1>1. Inductive /\ EntryInv => EntryWatched
  <2> SUFFICES ASSUME Inductive, EntryInv PROVE EntryWatched
    OBVIOUS
  <2>1. \A k \in Slots : map_[k] # None /\ map_[k] \in Unnamed => got = k /\ ~running
    BY DEF Inductive, MainInv, EntryInv, NameInv, Unnamed
  <2> QED BY <2>1 DEF EntryInv, EntriesOK, EntryWatched
<1>2. Inductive /\ EntryInv /\ [Next]_vars => EntryInv'
  BY EntryKeeps
<1> QED BY <1>1, <1>2, EntryInit, PoolInductive, PTL DEF Spec
=============================================================================
