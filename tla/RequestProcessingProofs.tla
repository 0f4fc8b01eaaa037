---------------------- MODULE RequestProcessingProofs ----------------------
(***************************************************************************)
(* For any number of workers, links and requests: a reply answers its      *)
(* request.                                                                *)
(***************************************************************************)
EXTENDS RequestProcessing, SequenceTheorems, LeastNumber, TLAPS

\* The part of TypeOK the argument needs.
CoreTypes ==
  /\ deque_ \in Seq(Nat)
  /\ req \in Seq(Requests)
  /\ fate \in Seq(Fates) /\ Len(fate) = Len(req)
  /\ links \subseteq Links
  /\ pc \in [Workers -> {"starting", "try", "wait", "parse", "python", "reply", "push"}]
  /\ hand \in [Workers -> Nat]
  /\ cmd \in [Workers -> Nat]
  /\ body \in [Workers -> Bodies]
  /\ replies \in Seq(Seq(Answers))
  /\ Len(replies) = Len(req)

Holding(w) == pc[w] \in {"parse", "python", "reply", "push"}

\* The queue holds each waiting request once.
QueueInv ==
  /\ \A i \in 1..Len(deque_) : deque_[i] \in 1..Len(req) /\ fate[deque_[i]] = "waiting"
  /\ \A i, j \in 1..Len(deque_) : i # j => deque_[i] # deque_[j]

\* Every request that was taken is in the hands of one worker, who sees its
\* command unless it was marked.
HandInv ==
  /\ \A w \in Workers : Holding(w) =>
       /\ hand[w] \in 1..Len(req)
       /\ fate[hand[w]] = "taken"
       /\ cmd[w] \in {1010, req[hand[w]].cmd}
  /\ \A v, w \in Workers : Holding(v) /\ Holding(w) /\ hand[v] = hand[w] => v = w

\* What is about to be sent fits the request in hand.
BodyInv ==
  /\ \A w \in Workers : pc[w] = "python" => req[hand[w]].packet = 31 /\ cmd[w] # 1010
  /\ \A w \in Workers : pc[w] = "reply" =>
       /\ cmd[w] # 1010
       /\ body[w].type > 0 => body[w].type = req[hand[w]].packet + 1

IInv == CoreTypes /\ QueueInv /\ HandInv /\ BodyInv /\ AnswerFits

----------------------------------------------------------------------------

\* Requests are records with a number as command.
LEMMA RequestFields ==
  ASSUME NEW k \in Requests
  PROVE  k.cmd \in Nat /\ k.packet \in Nat
BY RequestsAssumption

\* Changing one element of a sequence, and appending one.
LEMMA SeqUpdate ==
  ASSUME NEW S, NEW q \in Seq(S), NEW i \in 1..Len(q), NEW x \in S
  PROVE  /\ [q EXCEPT ![i] = x] \in Seq(S)
         /\ Len([q EXCEPT ![i] = x]) = Len(q)
         /\ \A m \in 1..Len(q) : [q EXCEPT ![i] = x][m] = IF m = i THEN x ELSE q[m]
OBVIOUS

LEMMA SeqAppend ==
  ASSUME NEW S, NEW q \in Seq(S), NEW x \in S
  PROVE  /\ Append(q, x) \in Seq(S)
         /\ Len(Append(q, x)) = Len(q) + 1
         /\ Append(q, x)[Len(q) + 1] = x
         /\ \A m \in 1..Len(q) : Append(q, x)[m] = q[m]
OBVIOUS

\* A step that leaves queue, requests, fates and replies alone, and moves one
\* worker to a place where it still holds what it held, with a fitting body.
Moved(w, p, b) ==
  /\ Holding(w) /\ p \in {"python", "reply", "push"} /\ b \in Bodies
  /\ pc' = [pc EXCEPT ![w] = p] /\ body' = [body EXCEPT ![w] = b]
  /\ p = "python" => req[hand[w]].packet = 31 /\ cmd[w] # 1010
  /\ p = "reply" => cmd[w] # 1010 /\ (b.type > 0 => b.type = req[hand[w]].packet + 1)
  /\ UNCHANGED <<deque_, req, fate, links, hand, cmd, replies>>

LEMMA MoveKeeps ==
  ASSUME IInv, NEW w \in Workers, NEW p, NEW b, Moved(w, p, b)
  PROVE  IInv'
<1> USE DEF IInv, Holding, Moved
<1>1. CoreTypes'
  BY DEF CoreTypes
<1>2. QueueInv'
  BY DEF QueueInv
<1>3. HandInv'
  BY DEF HandInv, CoreTypes
<1>4. BodyInv'
  BY DEF BodyInv, CoreTypes
<1>5. AnswerFits'
  BY DEF AnswerFits
<1> QED
  BY <1>1, <1>2, <1>3, <1>4, <1>5

\* A worker that holds nothing moves, and still holds nothing.
LEMMA IdleKeeps ==
  ASSUME IInv, NEW w \in Workers, NEW p \in {"try", "wait"}, ~Holding(w),
         pc' = [pc EXCEPT ![w] = p],
         UNCHANGED <<deque_, req, fate, links, hand, cmd, body, replies>>
  PROVE  IInv'
<1> USE DEF IInv, Holding
<1>1. CoreTypes'
  BY DEF CoreTypes
<1>2. QueueInv'
  BY DEF QueueInv
<1>3. HandInv'
  BY DEF HandInv, CoreTypes
<1>4. BodyInv'
  BY DEF BodyInv, CoreTypes
<1>5. AnswerFits'
  BY DEF AnswerFits
<1> QED
  BY <1>1, <1>2, <1>3, <1>4, <1>5

\* A request in hand was received and taken.
LEMMA HeldIsTaken ==
  ASSUME IInv, NEW w \in Workers, Holding(w)
  PROVE  /\ hand[w] \in 1..Len(req)
         /\ fate[hand[w]] = "taken"
         /\ cmd[w] \in {1010, req[hand[w]].cmd}
<1>1. HandInv
  BY DEF IInv
<1> QED
  BY <1>1 DEF HandInv, Holding

\* The front of the queue passes to a worker that holds nothing.
LEMMA TakeKeeps ==
  ASSUME IInv, NEW w \in Workers, ~Holding(w), deque_ # <<>>,
         NEW c \in {1010, req[Head(deque_)].cmd}, Take(w, c)
  PROVE  IInv'
<1> USE DEF IInv
<1> DEFINE n == Head(deque_)
<1>1. /\ n = deque_[1] /\ 1 \in 1..Len(deque_)
      /\ n \in 1..Len(req) /\ fate[n] = "waiting"
  BY DEF QueueInv
<1>2. /\ deque_' \in Seq(Nat) /\ Len(deque_') = Len(deque_) - 1
      /\ \A i \in 1..Len(deque_') : deque_'[i] = deque_[i + 1]
  BY DEF Take, CoreTypes
<1>3. c \in Nat
  <2>1. req[n] \in Requests
    BY <1>1 DEF CoreTypes
  <2> QED
    BY <2>1, RequestFields
<1>4. /\ fate' \in Seq(Fates) /\ Len(fate') = Len(fate)
      /\ \A m \in 1..Len(req) : fate'[m] = IF m = n THEN "taken" ELSE fate[m]
  <2>1. /\ fate \in Seq(Fates) /\ n \in 1..Len(fate) /\ Len(fate) = Len(req)
        /\ fate' = [fate EXCEPT ![n] = "taken"]
    BY <1>1 DEF Take, CoreTypes
  <2>2. "taken" \in Fates
    BY DEF Fates
  <2> QED
    BY <2>1, <2>2, SeqUpdate
<1>5. CoreTypes'
  <2>1. pc' = [pc EXCEPT ![w] = "parse"] /\ hand' = [hand EXCEPT ![w] = n]
        /\ cmd' = [cmd EXCEPT ![w] = c] /\ UNCHANGED <<req, links, body, replies>>
    BY DEF Take, outVars
  <2>2. n \in Nat
    BY <1>1 DEF CoreTypes
  <2> HIDE DEF n
  <2> QED
    BY <2>1, <2>2, <1>2, <1>3, <1>4 DEF CoreTypes
<1>6. QueueInv'
  <2>1. \A i \in 1..Len(deque_') : i + 1 \in 1..Len(deque_) /\ i + 1 # 1
    BY <1>2
  <2>2. \A i \in 1..Len(deque_') : deque_'[i] # n
    BY <2>1, <1>1, <1>2 DEF QueueInv
  <2>3. \A i \in 1..Len(deque_') : deque_'[i] \in 1..Len(req) /\ fate'[deque_'[i]] = "waiting"
    <3>0. \A k \in 1..Len(deque_) : deque_[k] \in 1..Len(req) /\ fate[deque_[k]] = "waiting"
      BY DEF QueueInv
    <3>1. ASSUME NEW i \in 1..Len(deque_')
          PROVE  deque_'[i] \in 1..Len(req) /\ fate[deque_'[i]] = "waiting"
      <4>1. i + 1 \in 1..Len(deque_) /\ deque_'[i] = deque_[i + 1]
        BY <2>1, <1>2
      <4> QED
        BY <4>1, <3>0
    <3> QED
      BY <3>1, <2>2, <1>4
  <2>4. ASSUME NEW i \in 1..Len(deque_'), NEW j \in 1..Len(deque_'), i # j
        PROVE  deque_'[i] # deque_'[j]
    <3>1. i + 1 \in 1..Len(deque_) /\ j + 1 \in 1..Len(deque_) /\ i + 1 # j + 1
      BY <2>1, <2>4
    <3> QED
      BY <3>1, <1>2 DEF QueueInv
  <2>5. req' = req
    BY DEF Take
  <2> QED
    BY <2>3, <2>4, <2>5 DEF QueueInv
<1>7. HandInv'
  <2>1. /\ req' = req
        /\ pc'[w] = "parse" /\ hand'[w] = n /\ cmd'[w] = c
        /\ \A v \in Workers : v # w => pc'[v] = pc[v] /\ hand'[v] = hand[v] /\ cmd'[v] = cmd[v]
    BY DEF Take, CoreTypes
  <2>2. HandInv
    OBVIOUS
  <2>3. \A v \in Workers : Holding(v) => hand[v] # n
    BY <2>2, <1>1 DEF HandInv, Holding
  <2> HIDE DEF n, IInv
  <2>4. ASSUME NEW v \in Workers, Holding(v)'
        PROVE  /\ hand'[v] \in 1..Len(req) /\ fate'[hand'[v]] = "taken"
               /\ cmd'[v] \in {1010, req[hand'[v]].cmd}
    <3>1. CASE v = w
      BY <3>1, <2>1, <1>1, <1>4 DEF n
    <3>2. CASE v # w
      <4>1. Holding(v) /\ hand'[v] = hand[v] /\ cmd'[v] = cmd[v]
        BY <3>2, <2>1, <2>4 DEF Holding
      <4>2. hand[v] \in 1..Len(req) /\ fate[hand[v]] = "taken" /\ hand[v] # n
            /\ cmd[v] \in {1010, req[hand[v]].cmd}
        BY <4>1, <2>3, HeldIsTaken DEF Holding
      <4> QED
        BY <4>1, <4>2, <1>4
    <3> QED
      BY <3>1, <3>2
  <2>5. ASSUME NEW u \in Workers, NEW v \in Workers, Holding(u)', Holding(v)',
               hand'[u] = hand'[v]
        PROVE  u = v
    BY <2>1, <2>2, <2>3, <2>5 DEF HandInv, Holding
  <2> QED
    BY <2>1, <2>4, <2>5 DEF HandInv
<1>8. BodyInv'
  <2>1. /\ UNCHANGED <<req, body>> /\ pc'[w] = "parse"
        /\ \A v \in Workers : v # w => pc'[v] = pc[v] /\ hand'[v] = hand[v] /\ cmd'[v] = cmd[v]
    BY DEF Take, CoreTypes
  <2> QED
    BY <2>1 DEF BodyInv
<1>9. AnswerFits'
  <2>1. replies' = replies /\ req' = req
    BY DEF Take, outVars
  <2> QED
    BY <2>1, <1>1, <1>4 DEF AnswerFits
<1> QED
  BY <1>5, <1>6, <1>7, <1>8, <1>9

\* A worker gives up what it holds; the others hold other requests, and no
\* finished request is in the queue.
Ended(w, f) ==
  /\ Holding(w) /\ f \in Fates \ {"waiting", "taken"}
  /\ Done(w, f)
  /\ deque_' = deque_ /\ req' = req /\ links' = links
  /\ replies' \in Seq(Seq(Answers)) /\ Len(replies') = Len(req)

LEMMA DoneKeeps ==
  ASSUME IInv, NEW w \in Workers, NEW f, Ended(w, f)
  PROVE  /\ QueueInv' /\ HandInv' /\ BodyInv' /\ CoreTypes'
         /\ hand[w] \in 1..Len(req) /\ fate[hand[w]] = "taken"
         /\ \A m \in 1..Len(req) : fate'[m] = IF m = hand[w] THEN f ELSE fate[m]
<1>0. /\ Holding(w) /\ f \in Fates /\ f # "waiting" /\ f # "taken"
      /\ Done(w, f) /\ UNCHANGED <<deque_, req, links>>
      /\ replies' \in Seq(Seq(Answers)) /\ Len(replies') = Len(req)
  BY DEF Ended
<1> USE DEF IInv
<1>1. hand[w] \in 1..Len(req) /\ fate[hand[w]] = "taken"
  BY <1>0, HeldIsTaken DEF Holding
<1>2. /\ fate' \in Seq(Fates) /\ Len(fate') = Len(fate)
      /\ \A m \in 1..Len(req) : fate'[m] = IF m = hand[w] THEN f ELSE fate[m]
  <2>1. /\ fate \in Seq(Fates) /\ hand[w] \in 1..Len(fate) /\ Len(fate) = Len(req)
        /\ fate' = [fate EXCEPT ![hand[w]] = f]
    BY <1>0, <1>1 DEF Done, CoreTypes
  <2> QED
    BY <1>0, <2>1, SeqUpdate
<1>3. QueueInv'
  BY <1>0, <1>1, <1>2 DEF QueueInv
<1>4. /\ pc' = [pc EXCEPT ![w] = "try"] /\ hand' = [hand EXCEPT ![w] = 0]
      /\ cmd' = [cmd EXCEPT ![w] = 0] /\ body' = [body EXCEPT ![w] = NoBody("")]
  BY <1>0 DEF Done
<1>a. /\ pc'[w] = "try"
      /\ \A v \in Workers : v # w =>
           pc'[v] = pc[v] /\ hand'[v] = hand[v] /\ cmd'[v] = cmd[v] /\ body'[v] = body[v]
  BY <1>4 DEF CoreTypes
<1>b. req' = req /\ HandInv /\ BodyInv
  BY <1>0
<1>5. HandInv'
  <2> HIDE DEF IInv
  <2>1. \A v \in Workers : Holding(v)' =>
          Holding(v) /\ v # w /\ hand'[v] = hand[v] /\ cmd'[v] = cmd[v]
    BY <1>a DEF Holding
  <2>2. \A v \in Workers : Holding(v) /\ v # w => hand[v] # hand[w]
    BY <1>0, <1>b DEF HandInv, Holding
  <2>3. ASSUME NEW v \in Workers, Holding(v)'
        PROVE  /\ hand'[v] \in 1..Len(req) /\ fate'[hand'[v]] = "taken"
               /\ cmd'[v] \in {1010, req[hand'[v]].cmd}
    <3>1. Holding(v) /\ v # w /\ hand'[v] = hand[v] /\ cmd'[v] = cmd[v]
      BY <2>1, <2>3 DEF Holding
    <3>2. hand[v] \in 1..Len(req) /\ fate[hand[v]] = "taken" /\ hand[v] # hand[w]
          /\ cmd[v] \in {1010, req[hand[v]].cmd}
      BY <3>1, <2>2, HeldIsTaken DEF Holding
    <3> QED
      BY <3>1, <3>2, <1>2
  <2>4. ASSUME NEW u \in Workers, NEW v \in Workers, Holding(u)', Holding(v)',
               hand'[u] = hand'[v]
        PROVE  u = v
    BY <2>1, <2>4, <1>b DEF HandInv, Holding
  <2> QED
    BY <2>3, <2>4, <1>b DEF HandInv
<1>6. BodyInv'
  <2> HIDE DEF IInv
  <2> QED
    BY <1>a, <1>b DEF BodyInv
<1>7. NoBody("") \in Bodies
  BY DEF NoBody, Bodies, Types, Texts
<1>8. /\ pc' \in [Workers -> {"starting", "try", "wait", "parse", "python", "reply", "push"}]
      /\ hand' \in [Workers -> Nat] /\ cmd' \in [Workers -> Nat]
      /\ body' \in [Workers -> Bodies]
  BY <1>4, <1>7 DEF CoreTypes
<1> QED
  BY <1>0, <1>1, <1>2, <1>3, <1>5, <1>6, <1>8 DEF CoreTypes

\* A request ends without a reply.
LEMMA EndKeeps ==
  ASSUME IInv, NEW w \in Workers, Holding(w),
         NEW f \in {"ignored", "threw", "busy", "no link", "pushed"},
         Done(w, f), UNCHANGED <<deque_, req, links, replies>>
  PROVE  IInv'
<1>1. f \in Fates /\ f \notin {"waiting", "taken"}
  BY DEF Fates
<1>2. /\ QueueInv' /\ HandInv' /\ BodyInv' /\ CoreTypes'
      /\ hand[w] \in 1..Len(req) /\ fate[hand[w]] = "taken"
      /\ \A m \in 1..Len(req) : fate'[m] = IF m = hand[w] THEN f ELSE fate[m]
  <2>1. replies \in Seq(Seq(Answers)) /\ Len(replies) = Len(req) /\ replies' = replies
    BY DEF IInv, CoreTypes
  <2>2. Ended(w, f)
    <3>1. Done(w, f) /\ Holding(w) /\ deque_' = deque_ /\ req' = req /\ links' = links
      OBVIOUS
    <3>2. f \in Fates \ {"waiting", "taken"}
      BY <1>1, Zenon
    <3>3. replies' \in Seq(Seq(Answers)) /\ Len(replies') = Len(req)
      BY <2>1
    <3> QED
      BY <3>1, <3>2, <3>3, Zenon DEF Ended
  <2> QED
    BY <2>2, DoneKeeps
<1>4. AnswerFits'
  BY <1>2 DEF IInv, AnswerFits
<1> QED
  BY <1>2, <1>4 DEF IInv

\* A request ends with the reply: nothing was written for it before, and the
\* worker sees the request's own command.
LEMMA ReplyKeeps ==
  ASSUME IInv, NEW w \in Workers, Reply(w)
  PROVE  IInv'
<1> USE DEF IInv
<1> DEFINE n == hand[w]
<1>1. Holding(w) /\ pc[w] = "reply" /\ Done(w, "replied") /\ UNCHANGED <<deque_, req, links>>
  BY DEF Reply, Holding
<1>2. n \in 1..Len(req) /\ fate[n] = "taken" /\ cmd[w] = req[n].cmd
  <2>1. n \in 1..Len(req) /\ fate[n] = "taken" /\ cmd[w] \in {1010, req[n].cmd}
    BY <1>1, HeldIsTaken DEF Holding
  <2>2. cmd[w] # 1010
    BY <1>1 DEF BodyInv
  <2> QED
    BY <2>1, <2>2
<1>3. replies[n] = <<>>
  BY <1>2 DEF AnswerFits
<1>4. PICK l \in links \cap {req[n].id} :
        replies' = [replies EXCEPT ![n] =
                      Append(@, [to |-> l, cmd |-> cmd[w] + 1, type |-> body[w].type,
                                 data |-> body[w].data])]
  BY DEF Reply, Target, InHand
<1> DEFINE r == [to |-> l, cmd |-> cmd[w] + 1, type |-> body[w].type, data |-> body[w].data]
<1>5. r \in Answers
  BY <1>4 DEF CoreTypes, Answers, Bodies
<1>6. /\ replies' \in Seq(Seq(Answers))
      /\ Len(replies') = Len(req)
      /\ replies'[n] = <<r>>
      /\ \A m \in 1..Len(req) : m # n => replies'[m] = replies[m]
  <2> HIDE DEF r
  <2>1. replies' = [replies EXCEPT ![n] = Append(@, r)]
    BY <1>4 DEF r
  <2>2. Append(replies[n], r) = <<r>> /\ <<r>> \in Seq(Answers)
    BY <1>3, <1>5
  <2> QED
    BY <2>1, <2>2, <1>2 DEF CoreTypes
<1>7. "replied" \in Fates /\ "replied" \notin {"waiting", "taken"}
  BY DEF Fates
<1>8. /\ QueueInv' /\ HandInv' /\ BodyInv' /\ CoreTypes'
      /\ \A m \in 1..Len(req) : fate'[m] = IF m = n THEN "replied" ELSE fate[m]
  <2>1. Ended(w, "replied")
    BY <1>1, <1>6, <1>7 DEF Ended
  <2> QED
    BY <2>1, DoneKeeps
<1>9. r.to = req[n].id /\ r.cmd = req[n].cmd + 1
      /\ (r.type > 0 => r.type = req[n].packet + 1)
  BY <1>1, <1>2, <1>4 DEF BodyInv
<1>10. AnswerFits'
  <2> HIDE DEF r
  <2>1. req' = req
    BY <1>1
  <2>2. ASSUME NEW m \in 1..Len(req), m # n
        PROVE  /\ Len(replies'[m]) <= 1
               /\ replies'[m] # <<>> =>
                    /\ fate'[m] = "replied"
                    /\ replies'[m][1].to = req[m].id
                    /\ replies'[m][1].cmd = req[m].cmd + 1
                    /\ replies'[m][1].type > 0 => replies'[m][1].type = req[m].packet + 1
    BY <2>2, <1>6, <1>8 DEF AnswerFits
  <2>3. /\ Len(replies'[n]) <= 1 /\ replies'[n][1] = r /\ fate'[n] = "replied"
    BY <1>2, <1>6, <1>8
  <2> QED
    BY <2>1, <2>2, <2>3, <1>9 DEF AnswerFits
<1> QED
  BY <1>8, <1>10

\* A new request waits at the end of the queue, or was dropped.
LEMMA ReceiveKeeps ==
  ASSUME IInv, NEW k \in Requests, AfterBodyGet(k)
  PROVE  IInv'
<1> USE DEF IInv
<1> DEFINE new == Len(req) + 1
<1>1. /\ req' \in Seq(Requests) /\ Len(req') = new /\ req'[new] = k
      /\ \A m \in 1..Len(req) : req'[m] = req[m]
  BY DEF AfterBodyGet, CoreTypes
<1>2. /\ replies' = Append(replies, <<>>)
      /\ UNCHANGED <<links, pc, hand, cmd, body>>
  BY DEF AfterBodyGet, workVars
<1>3. /\ replies' \in Seq(Seq(Answers))
      /\ Len(replies') = new /\ replies'[new] = <<>>
      /\ \A m \in 1..Len(req) : replies'[m] = replies[m]
  BY <1>2 DEF CoreTypes
<1>4. PICK f \in {"ignored", "waiting"} :
        /\ fate' = Append(fate, f)
        /\ deque_' = IF f = "waiting" THEN Append(deque_, new) ELSE deque_
  BY <1>1 DEF AfterBodyGet, CoreTypes
<1>5. /\ fate' \in Seq(Fates) /\ Len(fate') = new /\ fate'[new] = f
      /\ \A m \in 1..Len(req) : fate'[m] = fate[m]
  <2>1. fate \in Seq(Fates) /\ Len(fate) = Len(req) /\ f \in Fates
    BY DEF CoreTypes, Fates
  <2> QED
    BY <2>1, <1>4, SeqAppend
<1>6. deque_' \in Seq(Nat)
  BY <1>4 DEF CoreTypes
<1>7. CoreTypes'
  BY <1>1, <1>2, <1>3, <1>5, <1>6 DEF CoreTypes
<1>8. QueueInv'
  <2>1. CASE f = "ignored"
    BY <2>1, <1>1, <1>4, <1>5 DEF QueueInv
  <2>2. CASE f = "waiting"
    <3>1. /\ Len(deque_') = Len(deque_) + 1 /\ deque_'[Len(deque_) + 1] = new
          /\ \A i \in 1..Len(deque_) : deque_'[i] = deque_[i]
      BY <2>2, <1>4
    <3>2. \A i \in 1..Len(deque_) : deque_[i] \in 1..Len(req) /\ deque_[i] # new
      BY DEF QueueInv
    <3>3. \A i \in 1..Len(deque_') : i \in 1..Len(deque_) \/ i = Len(deque_) + 1
      BY <3>1
    <3>4. \A i \in 1..Len(deque_') :
            deque_'[i] \in 1..Len(req') /\ fate'[deque_'[i]] = "waiting"
      BY <3>1, <3>2, <3>3, <2>2, <1>1, <1>5 DEF QueueInv
    <3>5. \A i, j \in 1..Len(deque_') : i # j => deque_'[i] # deque_'[j]
      BY <3>1, <3>2, <3>3 DEF QueueInv
    <3> QED
      BY <3>4, <3>5 DEF QueueInv
  <2> QED
    BY <2>1, <2>2
<1>9. HandInv'
  BY <1>1, <1>2, <1>5 DEF HandInv, Holding
<1>10. BodyInv'
  <2>1. \A w \in Workers : Holding(w) => hand[w] \in 1..Len(req) /\ req'[hand[w]] = req[hand[w]]
    BY <1>1 DEF HandInv
  <2> QED
    BY <2>1, <1>2 DEF BodyInv, Holding
<1>11. AnswerFits'
  <2>1. \A m \in 1..Len(req') : m \in 1..Len(req) \/ m = new
    BY <1>1
  <2>2. replies'[new] = <<>> /\ Len(replies'[new]) <= 1
    BY <1>3
  <2>3. \A m \in 1..Len(req) :
          replies'[m] = replies[m] /\ req'[m] = req[m] /\ fate'[m] = fate[m]
    BY <1>1, <1>3, <1>5
  <2> QED
    BY <2>1, <2>2, <2>3 DEF AnswerFits
<1> QED
  BY <1>7, <1>8, <1>9, <1>10, <1>11

\* What a parser returns for a packet of type t: of the type of its answer,
\* or without a type.
Fits(x, t) ==
  /\ x.type \in Types /\ x.data \in Texts
  /\ x.type > 0 => x.type = t + 1

LEMMA ResultFits ==
  ASSUME NEW s, NEW u \in Types, NEW d \in Texts, NEW t \in Nat, u > 0 => u = t + 1
  PROVE  Fits(Result(s, u, d), t)
BY DEF Fits, Result

LEMMA GroupFits ==
  ASSUME NEW w, NEW t \in {27, 29}, NEW x \in GroupRequest(w, t)
  PROVE  Fits(x, t)
<1>1. t + 1 \in Types /\ t \in Nat
  BY DEF Types
<1>2. PICK s \in {0, -1}, d \in {"data", "error", "connetion error"} : x = Result(s, t + 1, d)
  BY DEF GroupRequest
<1>3. d \in Texts
  BY DEF Texts
<1> QED
  BY <1>1, <1>2, <1>3, ResultFits

LEMMA NoType == 0 \in Types /\ ~(0 > 0)
BY DEF Types

LEMMA EmptyFits ==
  ASSUME NEW s, NEW t \in Nat, NEW d \in {"", "garbled", "invalid"}
  PROVE  Fits(Result(s, 0, d), t)
<1>1. d \in Texts
  BY Zenon DEF Texts
<1> QED
  BY <1>1, NoType, ResultFits

LEMMA ServiceFits ==
  ASSUME NEW w, NEW t \in Nat, NEW x \in ServicePackage(w, t)
  PROVE  Fits(x, t)
<1>1. CASE t \in {21, 23, 25}
  <2>1. PICK d \in Curl : x = Result(0, DoRequest(t), d)
    <3>1. ServicePackage(w, t) = {Result(0, DoRequest(t), d) : d \in Curl}
      BY <1>1 DEF ServicePackage
    <3> QED
      BY <3>1, Zenon
  <2>2. DoRequest(t) \in Types /\ DoRequest(t) = t + 1
    BY <1>1 DEF DoRequest, Types
  <2>3. d \in Texts
    BY Zenon DEF Curl, Texts
  <2> QED
    BY <2>1, <2>2, <2>3, ResultFits
<1>2. CASE t \in {27, 29}
  BY <1>2, GroupFits DEF ServicePackage
<1>3. CASE t \notin {21, 23, 25} /\ t \notin {27, 29}
  <2>1. x = Result(0, 0, "")
    BY <1>3, Zenon DEF ServicePackage
  <2> QED
    BY <2>1, EmptyFits
<1> QED
  BY <1>1, <1>2, <1>3

\* So what is put into the reply fits the packet asked about.
LEMMA ParsedFits ==
  ASSUME NEW w \in Workers, NEW r \in Results(w), InHand(w).packet \in Nat
  PROVE  /\ Wrapped(r) \in Bodies
         /\ Wrapped(r).type > 0 => Wrapped(r).type = InHand(w).packet + 1
<1> DEFINE t == InHand(w).packet
<1>1. Fits(r, t)
  <2>1. CASE cmd[w] = 200
    BY <2>1, ServiceFits DEF Results
  <2>2. CASE cmd[w] = 7818
    <3>1. PICK d \in {"garbled", "invalid"} : r = Result(-1, 0, d)
      BY <2>2 DEF Results, Group
    <3> QED
      BY <3>1, EmptyFits
  <2>3. CASE cmd[w] # 200 /\ cmd[w] # 7818
    <3>1. Results(w) = PythonRefused
      BY <2>3 DEF Results
    <3>2. r = Result(0, 0, "")
      BY <3>1, Zenon DEF PythonRefused
    <3> QED
      BY <3>2, EmptyFits
  <2> QED
    BY <2>1, <2>2, <2>3
<1>2. CASE r.status = 0
  <2>1. Wrapped(r) = [type |-> r.type, data |-> r.data]
    BY <1>2 DEF Wrapped, Packet
  <2> QED
    BY <2>1, <1>1 DEF Bodies, Fits
<1>3. CASE r.status # 0
  <2>1. Wrapped(r) = [type |-> -1, data |-> r.data]
    BY <1>3 DEF Wrapped, NoBody
  <2> QED
    BY <2>1, <1>1 DEF Bodies, Types, Fits
<1> QED
  BY <1>2, <1>3

----------------------------------------------------------------------------

\* Parse puts one of the possible answers together.
LEMMA ParseChooses ==
  ASSUME NEW w \in Workers, Parse(w)
  PROVE  \E b \in Parsed(w) : body' = [body EXCEPT ![w] = b]
BY DEF Parse

\* The steps on which a worker gets or keeps a request.
LEMMA WorkKeeps ==
  ASSUME IInv, NEW w \in Workers,
         \/ InitCacheMap(w) \/ TryPop(w) \/ TryPopEmpty(w) \/ WaitAndPop(w)
         \/ Parse(w) \/ EnterPython(w) \/ PythonReturns(w) \/ PushStarts(w)
  PROVE  IInv'
<1> USE DEF outVars
<1>0. body[w] \in Bodies /\ body' = [body EXCEPT ![w] = body[w]] <=> body' = body
  BY DEF IInv, CoreTypes
<1>1. CASE InitCacheMap(w)
  <2>1. ~Holding(w) /\ pc' = [pc EXCEPT ![w] = "try"]
        /\ UNCHANGED <<deque_, req, fate, links, hand, cmd, body, replies>>
    BY <1>1 DEF InitCacheMap, Holding
  <2> QED
    BY <2>1, IdleKeeps
<1>2. CASE TryPopEmpty(w)
  <2>1. ~Holding(w) /\ pc' = [pc EXCEPT ![w] = "wait"]
        /\ UNCHANGED <<deque_, req, fate, links, hand, cmd, body, replies>>
    BY <1>2 DEF TryPopEmpty, Holding
  <2> QED
    BY <2>1, IdleKeeps
<1>3. CASE TryPop(w)
  <2> DEFINE c == IF Len(deque_) > task_queue_max THEN 1010 ELSE req[Head(deque_)].cmd
  <2>1. ~Holding(w) /\ deque_ # <<>> /\ c \in {1010, req[Head(deque_)].cmd} /\ Take(w, c)
    BY <1>3 DEF TryPop, Holding
  <2> HIDE DEF c
  <2> QED
    BY <2>1, TakeKeeps
<1>4. CASE WaitAndPop(w)
  <2>1. ~Holding(w) /\ deque_ # <<>> /\ Take(w, req[Head(deque_)].cmd)
    BY <1>4 DEF WaitAndPop, Holding
  <2> QED
    BY <2>1, TakeKeeps
<1>5. CASE Parse(w)
  <2>1. /\ Holding(w) /\ cmd[w] # 1010 /\ pc' = [pc EXCEPT ![w] = "reply"]
        /\ UNCHANGED <<deque_, req, fate, links, hand, cmd, replies>>
    BY <1>5 DEF Parse, Holding
  <2>2. InHand(w).packet \in Nat /\ InHand(w) = req[hand[w]]
    <3>1. req[hand[w]] \in Requests
      BY <2>1 DEF IInv, CoreTypes, HandInv
    <3> QED
      BY <3>1, RequestFields DEF InHand
  <2>3. PICK b \in Parsed(w) : body' = [body EXCEPT ![w] = b]
    BY <1>5, ParseChooses
  <2>4. b \in Bodies /\ (b.type > 0 => b.type = InHand(w).packet + 1)
    <3>1. CASE Payload(w)
      <4>1. PICK r \in Results(w) : b = Wrapped(r)
        BY <3>1 DEF Parsed
      <4> QED
        BY <4>1, <2>2, ParsedFits
    <3>2. CASE ~Payload(w)
      <4>1. b = [type |-> -1, data |-> "garbled"]
        BY <3>2 DEF Parsed, NoBody
      <4> QED
        BY <4>1 DEF Bodies, Types, Texts
    <3> QED
      BY <3>1, <3>2
  <2>5. Moved(w, "reply", b)
    BY <2>1, <2>2, <2>3, <2>4 DEF Moved
  <2> QED
    BY <2>5, MoveKeeps
<1>6. CASE EnterPython(w)
  <2>1. /\ Holding(w) /\ cmd[w] # 1010 /\ pc' = [pc EXCEPT ![w] = "python"]
        /\ req[hand[w]].packet = 31
        /\ UNCHANGED <<deque_, req, fate, links, hand, cmd, body, replies>>
    BY <1>6 DEF EnterPython, CallsPython, InHand, Holding
  <2>2. Moved(w, "python", body[w])
    BY <2>1, <1>0 DEF Moved
  <2> QED
    BY <2>2, MoveKeeps
<1>7. CASE PythonReturns(w)
  <2>1. /\ Holding(w) /\ pc[w] = "python" /\ pc' = [pc EXCEPT ![w] = "reply"]
        /\ UNCHANGED <<deque_, req, fate, links, hand, cmd, replies>>
    BY <1>7 DEF PythonReturns, Holding
  <2>4. cmd[w] # 1010 /\ req[hand[w]].packet = 31
    BY <2>1 DEF IInv, BodyInv
  <2>2. \E b \in Bodies : b.type = 32 /\ body' = [body EXCEPT ![w] = b]
    <3>1. PICK d \in {"data", "service exception!"} : body' = [body EXCEPT ![w] = Packet(32, d)]
      BY <1>7 DEF PythonReturns, LeavePython
    <3>2. Packet(32, d) \in Bodies /\ Packet(32, d).type = 32
      BY DEF Packet, Bodies, Types, Texts
    <3> QED
      BY <3>1, <3>2
  <2>3. PICK b \in Bodies : b.type = 32 /\ body' = [body EXCEPT ![w] = b]
    BY <2>2
  <2>5. Moved(w, "reply", b)
    BY <2>1, <2>3, <2>4 DEF Moved
  <2> QED
    BY <2>5, MoveKeeps
<1>8. CASE PushStarts(w)
  <2>1. /\ Holding(w) /\ pc' = [pc EXCEPT ![w] = "push"]
        /\ UNCHANGED <<deque_, req, fate, links, hand, cmd, body, replies>>
    BY <1>8 DEF PushStarts, PushAsks, Holding
  <2>2. Moved(w, "push", body[w])
    BY <2>1, <1>0 DEF Moved
  <2> QED
    BY <2>2, MoveKeeps
<1> QED
  BY <1>1, <1>2, <1>3, <1>4, <1>5, <1>6, <1>7, <1>8

\* The steps that end a request without a reply.
LEMMA FinishKeeps ==
  ASSUME IInv, NEW w \in Workers,
         \/ ParseThrows(w) \/ ParseBusy(w) \/ ParseUnknown(w)
         \/ ReplyMissing(w) \/ PushIncomplete(w) \/ PushEnds(w)
  PROVE  IInv'
<1> USE DEF Holding, outVars
<1>1. CASE ParseThrows(w)
  <2>1. Holding(w) /\ Done(w, "threw") /\ UNCHANGED <<deque_, req, links, replies>>
    BY <1>1 DEF ParseThrows
  <2> QED
    BY <2>1, EndKeeps
<1>2. CASE ParseBusy(w)
  <2>1. Holding(w) /\ Done(w, "busy") /\ UNCHANGED <<deque_, req, links, replies>>
    BY <1>2 DEF ParseBusy
  <2> QED
    BY <2>1, EndKeeps
<1>3. CASE ParseUnknown(w)
  <2>1. Holding(w) /\ Done(w, "ignored") /\ UNCHANGED <<deque_, req, links, replies>>
    BY <1>3 DEF ParseUnknown
  <2> QED
    BY <2>1, EndKeeps
<1>4. CASE ReplyMissing(w)
  <2>1. Holding(w) /\ Done(w, "no link") /\ UNCHANGED <<deque_, req, links, replies>>
    BY <1>4 DEF ReplyMissing
  <2> QED
    BY <2>1, EndKeeps
<1>5. CASE PushIncomplete(w)
  <2>1. PICK f \in {"ignored", "threw"} :
          Holding(w) /\ Done(w, f) /\ UNCHANGED <<deque_, req, links, replies>>
    BY <1>5 DEF PushIncomplete
  <2> QED
    BY <2>1, EndKeeps
<1>6. CASE PushEnds(w)
  <2>1. Holding(w) /\ Done(w, "pushed") /\ UNCHANGED <<deque_, req, links, replies>>
    BY <1>6 DEF PushEnds
  <2> QED
    BY <2>1, EndKeeps
<1> QED
  BY <1>1, <1>2, <1>3, <1>4, <1>5, <1>6

\* The steps that touch nothing a reply depends on; a link may appear or go.
LEMMA OtherKeeps ==
  ASSUME IInv,
         links' \subseteq Links,
         UNCHANGED <<deque_, req, fate, pc, hand, cmd, body, replies>>
  PROVE  IInv'
<1>1. CoreTypes'
  BY DEF IInv, CoreTypes
<1>2. QueueInv'
  BY DEF IInv, QueueInv
<1>3. HandInv' /\ BodyInv'
  BY DEF IInv, HandInv, BodyInv, Holding
<1>4. AnswerFits'
  BY DEF IInv, AnswerFits
<1> QED
  BY <1>1, <1>2, <1>3, <1>4 DEF IInv

\* Nothing is in the queue, in hand or answered at the start.
LEMMA InitHolds == Init => IInv
<1> SUFFICES ASSUME Init PROVE IInv
  OBVIOUS
<1>1. NoBody("") \in Bodies
  BY DEF NoBody, Bodies, Types, Texts
<1>e. deque_ = <<>> /\ req = <<>> /\ fate = <<>> /\ replies = <<>>
  BY DEF Init
<1>2. /\ links = {} /\ pc = [w \in Workers |-> "starting"] /\ hand = [w \in Workers |-> 0]
      /\ cmd = [w \in Workers |-> 0] /\ body = [w \in Workers |-> NoBody("")]
  BY DEF Init
<1>a. CoreTypes
  <2>1. /\ deque_ \in Seq(Nat) /\ req \in Seq(Requests) /\ fate \in Seq(Fates)
        /\ replies \in Seq(Seq(Answers)) /\ Len(fate) = Len(req) /\ Len(replies) = Len(req)
    BY <1>e
  <2>2. /\ pc \in [Workers -> {"starting", "try", "wait", "parse", "python", "reply", "push"}]
        /\ hand \in [Workers -> Nat] /\ cmd \in [Workers -> Nat]
        /\ body \in [Workers -> Bodies] /\ links \subseteq Links
    BY <1>1, <1>2
  <2> QED
    BY <2>1, <2>2 DEF CoreTypes
<1>b. 1..Len(deque_) = {} /\ 1..Len(req) = {}
  BY <1>e
<1>c. \A w \in Workers : pc[w] = "starting"
  BY <1>2
<1>3. QueueInv /\ HandInv /\ BodyInv /\ AnswerFits
  BY <1>b, <1>c DEF QueueInv, HandInv, BodyInv, AnswerFits, Holding
<1> QED
  BY <1>a, <1>3 DEF IInv

LEMMA NextKeeps == IInv /\ [Next]_vars => IInv'
<1> SUFFICES ASSUME IInv, [Next]_vars PROVE IInv'
  OBVIOUS
<1> USE DEF outVars, workVars
<1>0. links \subseteq Links
  BY DEF IInv, CoreTypes
<1>1. ASSUME NEW k \in Requests, AfterBodyGet(k) PROVE IInv'
  BY <1>1, ReceiveKeeps
<1>2. ASSUME NEW l \in Links, LinkChanges(l) PROVE IInv'
  BY <1>0, <1>2, OtherKeeps DEF LinkChanges
<1>3. ASSUME NEW w \in Workers, WorkerStep(w) PROVE IInv'
  <2>1. CASE Reply(w)
    BY <2>1, ReplyKeeps
  <2>2. CASE PushOne(w) \/ PushCrashes(w)
    BY <1>0, <2>2, OtherKeeps DEF PushOne, PushCrashes
  <2> QED
    BY <1>3, <2>1, <2>2, WorkKeeps, FinishKeeps DEF WorkerStep
<1>4. CASE Gone \/ UNCHANGED vars
  BY <1>0, <1>4, OtherKeeps DEF Gone, vars
<1> QED
  BY <1>1, <1>2, <1>3, <1>4 DEF Next

\* For any number of workers, requests and links: a request is answered at most
\* once, by fix_dispatch_to_server on the connection it came from, with its own
\* command plus one and a packet of the type that answers its packet.
THEOREM AnswersFit == Spec => []AnswerFits
<1>1. IInv => AnswerFits
  BY DEF IInv
<1> QED
  BY <1>1, InitHolds, NextKeeps, PTL DEF Spec
----------------------------------------------------------------------------
(* A push reaches every session of the user, and the types of the rest.     *)

\* The part of TypeOK that the replies do not depend on.
PushTypes ==
  /\ hand \in [Workers -> 0..Len(req)]
  /\ todo \in [Workers -> UserMaps]
  /\ cache \in [Workers -> SUBSET {"sess", "mongo"}]
  /\ gil \in Workers \cup {NoWorker}
  /\ crashed \in BOOLEAN
  /\ found \in Seq(UserMaps) /\ Len(found) = Len(req)
  /\ pushes \in Seq(Seq([user : Users, to : Links \cup {NoLink}])) /\ Len(pushes) = Len(req)

\* The user sessions that the messages p of a push were for.
Tried(p) == {p[i].user : i \in 1..Len(p)}

\* Each was tried once, over a link to the server that f gives for it.
TriedFits(p, f) ==
  /\ \A i, j \in 1..Len(p) : i # j => p[i].user # p[j].user
  /\ \A i \in 1..Len(p) : p[i].to # NoLink => ServerOf[p[i].to] = f[p[i].user]

\* A push that found f, has written p and has t left to do.
LoopInv(p, f, t) ==
  /\ DOMAIN f = Tried(p) \cup DOMAIN t
  /\ Tried(p) \cap DOMAIN t = {}
  /\ \A u \in DOMAIN t : t[u] = f[u]
  /\ TriedFits(p, f)

\* Every push in its loop is such a push; before the loop nothing is written.
PushInv ==
  /\ \A w \in Workers : pc[w] = "push" =>
       LoopInv(pushes[hand[w]], found[hand[w]], todo[w])
  /\ \A w \in Workers : pc[w] = "parse" => pushes[hand[w]] = <<>>
  /\ \A n \in 1..Len(req) : fate[n] = "waiting" => pushes[n] = <<>>
  /\ \A n \in 1..Len(req) : fate[n] = "pushed" =>
       Tried(pushes[n]) = DOMAIN found[n] /\ TriedFits(pushes[n], found[n])

\* A sequence with elements of a smaller set.
LEMMA SeqRetyped ==
  ASSUME NEW S, NEW T, NEW q \in Seq(S), \A i \in 1..Len(q) : q[i] \in T
  PROVE  q \in Seq(T)
<1>1. q \in [1..Len(q) -> T] /\ Len(q) \in Nat
  OBVIOUS
<1> QED BY <1>1, SeqDef

\* The empty map of users, and a map without one of its users.
LEMMA NoUsersTyped == NoUsers \in UserMaps /\ DOMAIN NoUsers = {}
<1>1. NoUsers = [u \in {} |-> u]
  BY DEF NoUsers
<1>2. {} \in SUBSET Users /\ [u \in {} |-> u] \in [{} -> Servers]
  OBVIOUS
<1> QED BY <1>1, <1>2 DEF UserMaps

LEMMA MapTyped ==
  ASSUME NEW S \in SUBSET Users, NEW f \in [S -> Servers]
  PROVE  f \in UserMaps
BY DEF UserMaps

LEMMA MapOfUsers ==
  ASSUME NEW f \in UserMaps
  PROVE  DOMAIN f \in SUBSET Users /\ f \in [DOMAIN f -> Servers]
BY DEF UserMaps

LEMMA RestTyped ==
  ASSUME NEW f \in UserMaps, NEW u
  PROVE  [v \in DOMAIN f \ {u} |-> f[v]] \in UserMaps
<1>1. DOMAIN f \in SUBSET Users /\ f \in [DOMAIN f -> Servers]
  BY MapOfUsers
<1>2. DOMAIN f \ {u} \in SUBSET Users
      /\ [v \in DOMAIN f \ {u} |-> f[v]] \in [DOMAIN f \ {u} -> Servers]
  BY <1>1
<1> QED BY <1>2, MapTyped

\* The session the loop of a push takes next is one of those left.
LEMMA LeastIsLeft ==
  ASSUME NEW f \in UserMaps, DOMAIN f # {}
  PROVE  Least(DOMAIN f) \in DOMAIN f
<1>1. DOMAIN f \subseteq Nat
  BY MapOfUsers, RequestIdsAssumption
<1>2. \E u \in DOMAIN f : \A v \in DOMAIN f : u <= v
  BY <1>1, LeastExists
<1> QED BY <1>2 DEF Least

\* The types follow from what is known of the replies and of the pushes.
LEMMA TypesTogether == IInv /\ PushTypes => TypeOK
<1> SUFFICES ASSUME IInv, PushTypes PROVE TypeOK
  OBVIOUS
<1>1. deque_ \in Seq(1..Len(req))
  <2>1. deque_ \in Seq(Nat) /\ \A i \in 1..Len(deque_) : deque_[i] \in 1..Len(req)
    BY DEF IInv, CoreTypes, QueueInv
  <2> QED BY <2>1, SeqRetyped
<1> QED BY <1>1 DEF IInv, CoreTypes, PushTypes, TypeOK

\* A step that receives nothing and pushes nothing.
LEMMA TypesStay ==
  ASSUME PushTypes, UNCHANGED <<req, found, pushes>>,
         hand' \in [Workers -> 0..Len(req)],
         todo' \in [Workers -> UserMaps],
         cache' \in [Workers -> SUBSET {"sess", "mongo"}],
         gil' \in Workers \cup {NoWorker},
         crashed' \in BOOLEAN
  PROVE  PushTypes'
BY DEF PushTypes

\* A request in hand, or none.
LEMMA HandTyped ==
  ASSUME PushTypes, NEW w \in Workers, NEW n \in 0..Len(req)
  PROVE  [hand EXCEPT ![w] = n] \in [Workers -> 0..Len(req)]
BY DEF PushTypes

\* A worker that is done forgets the users of its push.
LEMMA DoneTyped ==
  ASSUME IInv, PushTypes, NEW w \in Workers, NEW f, Done(w, f),
         UNCHANGED <<req, cache, gil, found, pushes, crashed>>
  PROVE  PushTypes'
<1>1. 0 \in 0..Len(req)
  BY DEF IInv, CoreTypes
<1>2. hand' \in [Workers -> 0..Len(req)]
  BY <1>1, HandTyped DEF Done
<1>3. todo' \in [Workers -> UserMaps]
  BY NoUsersTyped DEF Done, PushTypes
<1> QED BY <1>2, <1>3, TypesStay DEF PushTypes

\* So does one that takes a request.
LEMMA TakeTyped ==
  ASSUME IInv, PushTypes, NEW w \in Workers, deque_ # <<>>, NEW c, Take(w, c)
  PROVE  PushTypes'
<1>1. Head(deque_) \in 0..Len(req)
  <2>1. 1 \in 1..Len(deque_) /\ Head(deque_) = deque_[1]
    BY DEF IInv, CoreTypes
  <2> QED BY <2>1 DEF IInv, QueueInv
<1>2. hand' \in [Workers -> 0..Len(req)]
  BY <1>1, HandTyped DEF Take
<1> QED BY <1>2, TypesStay DEF Take, outVars, PushTypes

\* A request that was received has found and pushed nothing.
LEMMA ReceiveTyped ==
  ASSUME IInv, PushTypes, NEW k \in Requests, AfterBodyGet(k)
  PROVE  /\ PushTypes'
         /\ \A n \in 1..Len(req) : found'[n] = found[n] /\ pushes'[n] = pushes[n]
         /\ pushes'[Len(req) + 1] = <<>>
         /\ Len(req') = Len(req) + 1
<1>1. /\ req \in Seq(Requests) /\ req' = Append(req, k) /\ Len(req') = Len(req) + 1
      /\ Len(req) \in Nat
  BY DEF AfterBodyGet, IInv, CoreTypes
<1>2. /\ found' \in Seq(UserMaps) /\ Len(found') = Len(req')
      /\ \A n \in 1..Len(req) : found'[n] = found[n]
  <2>1. found \in Seq(UserMaps) /\ Len(found) = Len(req) /\ found' = Append(found, NoUsers)
        /\ NoUsers \in UserMaps
    BY NoUsersTyped DEF AfterBodyGet, PushTypes
  <2> HIDE DEF NoUsers
  <2> QED BY <2>1, <1>1, SeqAppend
<1>3. /\ pushes' \in Seq(Seq([user : Users, to : Links \cup {NoLink}]))
      /\ Len(pushes') = Len(req') /\ pushes'[Len(req) + 1] = <<>>
      /\ \A n \in 1..Len(req) : pushes'[n] = pushes[n]
  <2> DEFINE P == Seq([user : Users, to : Links \cup {NoLink}])
  <2>1. pushes \in Seq(P) /\ Len(pushes) = Len(req) /\ pushes' = Append(pushes, <<>>)
        /\ <<>> \in P
    BY DEF AfterBodyGet, PushTypes
  <2> HIDE DEF P
  <2>2. /\ pushes' \in Seq(P) /\ Len(pushes') = Len(req') /\ pushes'[Len(req) + 1] = <<>>
        /\ \A n \in 1..Len(req) : pushes'[n] = pushes[n]
    BY <2>1, <1>1, SeqAppend
  <2> QED BY <2>2 DEF P
<1>4. hand' \in [Workers -> 0..Len(req')]
  BY <1>1 DEF AfterBodyGet, workVars, PushTypes
<1>5. UNCHANGED <<todo, cache, gil, crashed>>
  BY DEF AfterBodyGet, workVars
<1>6. PushTypes'
  BY <1>2, <1>3, <1>4, <1>5 DEF PushTypes
<1> QED BY <1>1, <1>2, <1>3, <1>6

\* A push starts with the sessions that were found.
LEMMA StartTyped ==
  ASSUME IInv, PushTypes, NEW w \in Workers, PushStarts(w)
  PROVE  /\ PushTypes'
         /\ hand[w] \in 1..Len(req)
         /\ found'[hand[w]] = todo'[w]
         /\ \A n \in 1..Len(req) : n # hand[w] => found'[n] = found[n]
         /\ \A v \in Workers : v # w => todo'[v] = todo[v]
<1>1. hand[w] \in 1..Len(req) /\ Len(req) \in Nat
  BY HeldIsTaken DEF PushStarts, PushAsks, Holding, IInv, CoreTypes
<1>2. PICK f \in UserMaps : todo' = [todo EXCEPT ![w] = f] /\ found' = [found EXCEPT ![hand[w]] = f]
  BY DEF PushStarts
<1>3. /\ found' \in Seq(UserMaps) /\ Len(found') = Len(req)
      /\ \A n \in 1..Len(req) : found'[n] = IF n = hand[w] THEN f ELSE found[n]
  <2>1. found \in Seq(UserMaps) /\ Len(found) = Len(req) /\ hand[w] \in 1..Len(found)
    BY <1>1 DEF PushTypes
  <2> QED BY <2>1, <1>2, SeqUpdate
<1>4. /\ todo' \in [Workers -> UserMaps] /\ todo'[w] = f
      /\ \A v \in Workers : v # w => todo'[v] = todo[v]
  BY <1>2 DEF PushTypes
<1>5. UNCHANGED <<req, hand, cache, gil, crashed, pushes>>
  BY DEF PushStarts
<1>6. PushTypes'
  BY <1>3, <1>4, <1>5 DEF PushTypes
<1> QED BY <1>1, <1>3, <1>4, <1>6

\* One turn of the loop tries the least session left, over a link to its
\* server if there is one.
LEMMA TurnTyped ==
  ASSUME IInv, PushTypes, NEW w \in Workers, PushOne(w)
  PROVE  /\ PushTypes'
         /\ hand[w] \in 1..Len(req)
         /\ \E u \in DOMAIN todo[w], l \in Links \cup {NoLink} :
              /\ l # NoLink => ServerOf[l] = todo[w][u]
              /\ pushes'[hand[w]] = Append(pushes[hand[w]], [user |-> u, to |-> l])
              /\ todo'[w] = Rest(w, u)
         /\ \A n \in 1..Len(req) : n # hand[w] => pushes'[n] = pushes[n]
         /\ \A v \in Workers : v # w => todo'[v] = todo[v]
<1> DEFINE n == hand[w]
           u == Least(DOMAIN todo[w])
           P == [user : Users, to : Links \cup {NoLink}]
<1>1. n \in 1..Len(req) /\ Len(req) \in Nat
  BY HeldIsTaken DEF PushOne, Holding, IInv, CoreTypes
<1>2. todo[w] \in UserMaps /\ u \in DOMAIN todo[w] /\ u \in Users
  <2>1. todo[w] \in UserMaps /\ DOMAIN todo[w] # {}
    BY DEF PushOne, PushTypes
  <2>2. Least(DOMAIN todo[w]) \in DOMAIN todo[w] /\ DOMAIN todo[w] \in SUBSET Users
    BY <2>1, LeastIsLeft, MapOfUsers
  <2> QED BY <2>1, <2>2
<1>3. PICK l \in (IF LinksTo(todo[w][u]) = {} THEN {NoLink} ELSE LinksTo(todo[w][u])) :
        pushes' = [pushes EXCEPT ![n] = Append(@, [user |-> u, to |-> l])]
  BY DEF PushOne
<1>4. todo' = [todo EXCEPT ![w] = Rest(w, u)] /\ UNCHANGED <<req, hand, cache, gil, crashed, found>>
  BY DEF PushOne
<1>5. l \in Links \cup {NoLink} /\ (l # NoLink => ServerOf[l] = todo[w][u])
  BY <1>3 DEF LinksTo, IInv, CoreTypes
<1> DEFINE r == [user |-> u, to |-> l]
<1>6. r \in P
  BY <1>2, <1>5
<1>7. pushes \in Seq(Seq(P)) /\ Len(pushes) = Len(req) /\ n \in 1..Len(pushes)
  BY <1>1 DEF PushTypes
<1>8. todo' \in [Workers -> UserMaps]
  BY <1>2, <1>4, RestTyped DEF PushTypes, Rest
<1>9. todo'[w] = Rest(w, u) /\ \A v \in Workers : v # w => todo'[v] = todo[v]
  BY <1>4 DEF PushTypes
<1> HIDE DEF r, n, u, P
<1>10. Append(pushes[n], r) \in Seq(P)
  BY <1>6, <1>7
<1>11. pushes' = [pushes EXCEPT ![n] = Append(pushes[n], r)]
  BY <1>3 DEF r
<1>12. /\ pushes' \in Seq(Seq(P)) /\ Len(pushes') = Len(req)
       /\ \A m \in 1..Len(req) : pushes'[m] = IF m = n THEN Append(pushes[n], r) ELSE pushes[m]
  BY <1>7, <1>10, <1>11, SeqUpdate
<1>13. PushTypes'
  BY <1>4, <1>8, <1>12 DEF PushTypes, P
<1>14. pushes'[n] = Append(pushes[n], [user |-> u, to |-> l])
  BY <1>1, <1>12 DEF r
<1> QED BY <1>1, <1>2, <1>5, <1>9, <1>12, <1>13, <1>14 DEF n

\* The steps with which a worker is done with its request.
LEMMA DoneSteps ==
  ASSUME NEW w \in Workers,
         \/ ParseThrows(w) \/ ParseBusy(w) \/ ParseUnknown(w) \/ Reply(w)
         \/ ReplyMissing(w) \/ PushIncomplete(w) \/ PushEnds(w)
  PROVE  /\ Holding(w)
         /\ UNCHANGED <<req, cache, gil, found, pushes, crashed>>
         /\ \E f \in {"threw", "busy", "ignored", "replied", "no link", "pushed"} :
              Done(w, f) /\ (f = "pushed" => PushEnds(w))
<1> USE DEF outVars, Holding
<1>1. CASE ParseThrows(w)
  <2>1. Done(w, "threw") /\ Holding(w) /\ UNCHANGED <<req, cache, gil, found, pushes, crashed>>
    BY <1>1 DEF ParseThrows
  <2> HIDE DEF Holding
  <2> QED BY <1>1, <2>1
<1>2. CASE ParseBusy(w)
  <2>1. Done(w, "busy") /\ Holding(w) /\ UNCHANGED <<req, cache, gil, found, pushes, crashed>>
    BY <1>2 DEF ParseBusy
  <2> HIDE DEF Holding
  <2> QED BY <1>2, <2>1
<1>3. CASE ParseUnknown(w)
  <2>1. Done(w, "ignored") /\ Holding(w) /\ UNCHANGED <<req, cache, gil, found, pushes, crashed>>
    BY <1>3 DEF ParseUnknown
  <2> HIDE DEF Holding
  <2> QED BY <1>3, <2>1
<1>4. CASE Reply(w)
  <2>1. Done(w, "replied") /\ Holding(w) /\ UNCHANGED <<req, cache, gil, found, pushes, crashed>>
    BY <1>4 DEF Reply
  <2> HIDE DEF Holding
  <2> QED BY <1>4, <2>1
<1>5. CASE ReplyMissing(w)
  <2>1. Done(w, "no link") /\ Holding(w) /\ UNCHANGED <<req, cache, gil, found, pushes, crashed>>
    BY <1>5 DEF ReplyMissing
  <2> HIDE DEF Holding
  <2> QED BY <1>5, <2>1
<1>6. CASE PushIncomplete(w)
  <2>1. PICK f \in {"ignored", "threw"} :
          Done(w, f) /\ Holding(w) /\ UNCHANGED <<req, cache, gil, found, pushes, crashed>>
    BY <1>6 DEF PushIncomplete
  <2> HIDE DEF Holding
  <2> QED BY <1>6, <2>1
<1>7. CASE PushEnds(w)
  <2>1. Done(w, "pushed") /\ Holding(w) /\ UNCHANGED <<req, cache, gil, found, pushes, crashed>>
    BY <1>7 DEF PushEnds
  <2> HIDE DEF Holding
  <2> QED BY <1>7, <2>1
<1> QED BY <1>1, <1>2, <1>3, <1>4, <1>5, <1>6, <1>7

\* The types of the pushes are kept by every step.
LEMMA PushTypesKeep ==
  ASSUME IInv, PushTypes, [Next]_vars
  PROVE  PushTypes'
<1> USE DEF outVars, workVars
<1>0. /\ hand \in [Workers -> 0..Len(req)] /\ todo \in [Workers -> UserMaps]
      /\ cache \in [Workers -> SUBSET {"sess", "mongo"}]
      /\ gil \in Workers \cup {NoWorker} /\ crashed \in BOOLEAN
  BY DEF PushTypes
<1>1. ASSUME NEW k \in Requests, AfterBodyGet(k) PROVE PushTypes'
  BY <1>1, ReceiveTyped
<1>2. CASE UNCHANGED <<req, hand, todo, cache, gil, crashed, found, pushes>>
  BY <1>2 DEF PushTypes
<1>3. ASSUME NEW w \in Workers, WorkerStep(w) PROVE PushTypes'
  <2>1. CASE InitCacheMap(w)
    <3>1. cache' \in [Workers -> SUBSET {"sess", "mongo"}]
      BY <1>0, <2>1, RequestIdsAssumption DEF InitCacheMap
    <3> QED BY <1>0, <2>1, <3>1, TypesStay DEF InitCacheMap
  <2>2. CASE TryPop(w)
    <3>1. PICK c : Take(w, c) /\ deque_ # <<>>
      BY <2>2 DEF TryPop
    <3> QED BY <3>1, TakeTyped
  <2>3. CASE WaitAndPop(w)
    <3>1. PICK c : Take(w, c) /\ deque_ # <<>>
      BY <2>3 DEF WaitAndPop
    <3> QED BY <3>1, TakeTyped
  <2>4. CASE TryPopEmpty(w) \/ Parse(w)
    BY <1>2, <2>4 DEF TryPopEmpty, Parse
  <2>5. CASE EnterPython(w) \/ PythonReturns(w)
    <3>1. gil' \in Workers \cup {NoWorker} /\ UNCHANGED <<req, hand, todo, cache, crashed, found, pushes>>
      BY <2>5 DEF EnterPython, PythonReturns, LeavePython
    <3> QED BY <1>0, <3>1, TypesStay
  <2>6. CASE PushCrashes(w)
    <3>1. crashed' = TRUE /\ UNCHANGED <<req, hand, todo, cache, gil, found, pushes>>
      BY <2>6 DEF PushCrashes
    <3> QED BY <3>1 DEF PushTypes
  <2>7. CASE PushStarts(w)
    BY <2>7, StartTyped
  <2>8. CASE PushOne(w)
    BY <2>8, TurnTyped
  <2>9. CASE \/ ParseThrows(w) \/ ParseBusy(w) \/ ParseUnknown(w) \/ Reply(w)
             \/ ReplyMissing(w) \/ PushIncomplete(w) \/ PushEnds(w)
    <3>1. PICK f : Done(w, f) /\ UNCHANGED <<req, cache, gil, found, pushes, crashed>>
      BY <2>9, DoneSteps
    <3> QED BY <3>1, DoneTyped
  <2> QED BY <1>3, <2>1, <2>2, <2>3, <2>4, <2>5, <2>6, <2>7, <2>8, <2>9 DEF WorkerStep
<1>4. ASSUME NEW l \in Links, LinkChanges(l) PROVE PushTypes'
  BY <1>2, <1>4 DEF LinkChanges
<1>5. CASE Gone \/ UNCHANGED vars
  BY <1>2, <1>5 DEF Gone, vars
<1> QED BY <1>1, <1>3, <1>4, <1>5 DEF Next

----------------------------------------------------------------------------

\* The loop starts with everything to do.
LEMMA LoopStarts ==
  ASSUME NEW f
  PROVE  LoopInv(<<>>, f, f)
<1>1. 1..Len(<<>>) = {}
  OBVIOUS
<1>2. Tried(<<>>) = {} /\ TriedFits(<<>>, f)
  BY <1>1 DEF Tried, TriedFits
<1> QED BY <1>2 DEF LoopInv

\* A turn moves one user session from those left to those tried.
LEMMA LoopTurns ==
  ASSUME NEW P, NEW p \in Seq(P), NEW f, NEW t, LoopInv(p, f, t),
         NEW u \in DOMAIN t, NEW l, l # NoLink => ServerOf[l] = t[u]
  PROVE  LoopInv(Append(p, [user |-> u, to |-> l]), f, [v \in DOMAIN t \ {u} |-> t[v]])
<1> DEFINE q == Append(p, [user |-> u, to |-> l])
           r == [v \in DOMAIN t \ {u} |-> t[v]]
<1>1. /\ Len(p) \in Nat /\ Len(q) = Len(p) + 1
      /\ q[Len(p) + 1].user = u /\ q[Len(p) + 1].to = l
      /\ \A i \in 1..Len(p) : q[i] = p[i]
  OBVIOUS
<1>2. DOMAIN r = DOMAIN t \ {u} /\ \A v \in DOMAIN r : r[v] = t[v]
  OBVIOUS
<1> HIDE DEF q, r
<1>3. /\ \A i \in 1..Len(q) : i \in 1..Len(p) \/ i = Len(p) + 1
      /\ 1..Len(p) \subseteq 1..Len(q) /\ Len(p) + 1 \in 1..Len(q)
  BY <1>1
<1>4. Tried(q) = Tried(p) \cup {u}
  <2>1. \A x \in Tried(q) : x \in Tried(p) \/ x = u
    BY <1>1, <1>3 DEF Tried
  <2>2. \A x \in Tried(p) : x \in Tried(q)
    BY <1>1, <1>3 DEF Tried
  <2>3. u \in Tried(q)
    BY <1>1, <1>3 DEF Tried
  <2> QED BY <2>1, <2>2, <2>3
<1>5. u \notin Tried(p) /\ t[u] = f[u]
  BY DEF LoopInv
<1>6. \A i \in 1..Len(p) : p[i].user \in Tried(p)
  BY DEF Tried
<1>7. ASSUME NEW i \in 1..Len(q), NEW j \in 1..Len(q), i # j
      PROVE  q[i].user # q[j].user
  <2>1. CASE i \in 1..Len(p) /\ j \in 1..Len(p)
    BY <1>1, <1>7, <2>1 DEF LoopInv, TriedFits
  <2>2. CASE i = Len(p) + 1
    BY <1>1, <1>3, <1>5, <1>6, <1>7, <2>2
  <2>3. CASE j = Len(p) + 1
    BY <1>1, <1>3, <1>5, <1>6, <1>7, <2>3
  <2> QED BY <1>3, <2>1, <2>2, <2>3
<1>8. ASSUME NEW i \in 1..Len(q), q[i].to # NoLink
      PROVE  ServerOf[q[i].to] = f[q[i].user]
  <2>1. CASE i \in 1..Len(p)
    BY <1>1, <1>8, <2>1 DEF LoopInv, TriedFits
  <2>2. CASE i = Len(p) + 1
    BY <1>1, <1>5, <1>8, <2>2
  <2> QED BY <1>3, <2>1, <2>2
<1>9. TriedFits(q, f)
  BY <1>7, <1>8 DEF TriedFits
<1>10. /\ DOMAIN f = Tried(q) \cup DOMAIN r /\ Tried(q) \cap DOMAIN r = {}
       /\ \A v \in DOMAIN r : r[v] = f[v]
  BY <1>2, <1>4 DEF LoopInv
<1>11. LoopInv(q, f, r)
  BY <1>9, <1>10 DEF LoopInv
<1> QED BY <1>11 DEF q, r

\* The loop ends with everything done.
LEMMA LoopEnds ==
  ASSUME NEW p, NEW f, NEW t, LoopInv(p, f, t), DOMAIN t = {}
  PROVE  Tried(p) = DOMAIN f /\ TriedFits(p, f)
BY DEF LoopInv

----------------------------------------------------------------------------

\* A step that writes no push: no worker enters the loop, one that gets a
\* request gets one that was waiting, no push ends.
LEMMA PushStays ==
  ASSUME IInv, PushInv, UNCHANGED <<req, found, pushes>>,
         \A v \in Workers : pc'[v] = "push" =>
           pc[v] = "push" /\ hand'[v] = hand[v] /\ todo'[v] = todo[v],
         \A v \in Workers : pc'[v] = "parse" =>
           \/ pc[v] = "parse" /\ hand'[v] = hand[v]
           \/ hand'[v] \in 1..Len(req) /\ fate[hand'[v]] = "waiting",
         \A n \in 1..Len(req) : /\ fate'[n] = "waiting" => fate[n] = "waiting"
                                /\ fate'[n] = "pushed" => fate[n] = "pushed"
  PROVE  PushInv'
<1>1. ASSUME NEW w \in Workers, pc'[w] = "push"
      PROVE  LoopInv(pushes'[hand'[w]], found'[hand'[w]], todo'[w])
  <2>1. pc[w] = "push" /\ hand'[w] = hand[w] /\ todo'[w] = todo[w]
    BY <1>1
  <2> QED BY <2>1 DEF PushInv
<1>2. \A w \in Workers : pc'[w] = "parse" => pushes'[hand'[w]] = <<>>
  BY DEF PushInv
<1>3. \A n \in 1..Len(req') : fate'[n] = "waiting" => pushes'[n] = <<>>
  BY DEF PushInv
<1>4. \A n \in 1..Len(req') : fate'[n] = "pushed" =>
        Tried(pushes'[n]) = DOMAIN found'[n] /\ TriedFits(pushes'[n], found'[n])
  BY DEF PushInv
<1> QED BY <1>1, <1>2, <1>3, <1>4 DEF PushInv

\* No other worker has the request in hand.
LEMMA OthersHold ==
  ASSUME IInv, NEW w \in Workers, Holding(w), NEW v \in Workers, v # w, Holding(v)
  PROVE  hand[v] # hand[w]
BY DEF IInv, HandInv, Holding

LEMMA StartKeeps ==
  ASSUME IInv, PushTypes, PushInv, NEW w \in Workers, PushStarts(w)
  PROVE  PushInv'
<1> DEFINE n == hand[w]
<1>1. pc[w] = "parse" /\ Holding(w) /\ UNCHANGED <<req, fate, hand, pushes>>
      /\ pc' = [pc EXCEPT ![w] = "push"]
  BY DEF PushStarts, PushAsks, Holding
<1>2. /\ n \in 1..Len(req) /\ found'[n] = todo'[w]
      /\ \A m \in 1..Len(req) : m # n => found'[m] = found[m]
      /\ \A v \in Workers : v # w => todo'[v] = todo[v]
  BY StartTyped
<1>3. fate[n] = "taken" /\ pushes[n] = <<>>
  BY <1>1, HeldIsTaken DEF PushInv, Holding
<1>4. pc'[w] = "push" /\ \A v \in Workers : v # w => pc'[v] = pc[v]
  BY <1>1 DEF IInv, CoreTypes
<1>5. ASSUME NEW v \in Workers, pc'[v] = "push"
      PROVE  LoopInv(pushes'[hand'[v]], found'[hand'[v]], todo'[v])
  <2>1. CASE v = w
    BY <1>1, <1>2, <1>3, <2>1, LoopStarts
  <2>2. CASE v # w
    <3>1. pc[v] = "push" /\ Holding(v)
      BY <1>4, <1>5, <2>2 DEF Holding
    <3>2. hand[v] # n /\ hand[v] \in 1..Len(req)
      BY <1>1, <2>2, <3>1, OthersHold, HeldIsTaken
    <3> QED BY <1>1, <1>2, <2>2, <3>1, <3>2 DEF PushInv
  <2> QED BY <2>1, <2>2
<1>6. \A v \in Workers : pc'[v] = "parse" => pushes'[hand'[v]] = <<>>
  BY <1>1, <1>4 DEF PushInv
<1>7. \A m \in 1..Len(req') : fate'[m] = "waiting" => pushes'[m] = <<>>
  BY <1>1 DEF PushInv
<1>8. \A m \in 1..Len(req') : fate'[m] = "pushed" =>
        Tried(pushes'[m]) = DOMAIN found'[m] /\ TriedFits(pushes'[m], found'[m])
  BY <1>1, <1>2, <1>3 DEF PushInv
<1> QED BY <1>5, <1>6, <1>7, <1>8 DEF PushInv

LEMMA TurnKeeps ==
  ASSUME IInv, PushTypes, PushInv, NEW w \in Workers, PushOne(w)
  PROVE  PushInv'
<1> DEFINE n == hand[w]
           P == [user : Users, to : Links \cup {NoLink}]
<1>1. pc[w] = "push" /\ Holding(w) /\ UNCHANGED <<req, fate, hand, pc, found>>
  BY DEF PushOne, Holding
<1>2. /\ n \in 1..Len(req)
      /\ \A m \in 1..Len(req) : m # n => pushes'[m] = pushes[m]
      /\ \A v \in Workers : v # w => todo'[v] = todo[v]
  BY TurnTyped
<1>3. PICK u \in DOMAIN todo[w], l \in Links \cup {NoLink} :
        /\ l # NoLink => ServerOf[l] = todo[w][u]
        /\ pushes'[n] = Append(pushes[n], [user |-> u, to |-> l])
        /\ todo'[w] = Rest(w, u)
  BY TurnTyped
<1>4. fate[n] = "taken" /\ pushes[n] \in Seq(P)
  BY <1>1, <1>2, HeldIsTaken DEF Holding, PushTypes
<1>5. LoopInv(pushes'[n], found[n], todo'[w])
  <2>1. LoopInv(pushes[n], found[n], todo[w])
    BY <1>1 DEF PushInv
  <2>2. todo'[w] = [v \in DOMAIN todo[w] \ {u} |-> todo[w][v]]
    BY <1>3 DEF Rest
  <2> HIDE DEF P, n
  <2>3. LoopInv(Append(pushes[n], [user |-> u, to |-> l]), found[n],
                [v \in DOMAIN todo[w] \ {u} |-> todo[w][v]])
    BY <1>3, <1>4, <2>1, LoopTurns
  <2> QED BY <1>3, <2>2, <2>3
<1>6. ASSUME NEW v \in Workers, pc'[v] = "push"
      PROVE  LoopInv(pushes'[hand'[v]], found'[hand'[v]], todo'[v])
  <2>1. CASE v = w
    BY <1>1, <1>5, <2>1
  <2>2. CASE v # w
    <3>1. pc[v] = "push" /\ Holding(v)
      BY <1>1, <1>6 DEF Holding
    <3>2. hand[v] # n /\ hand[v] \in 1..Len(req)
      BY <1>1, <2>2, <3>1, OthersHold, HeldIsTaken
    <3> QED BY <1>1, <1>2, <2>2, <3>1, <3>2 DEF PushInv
  <2> QED BY <2>1, <2>2
<1>7. ASSUME NEW v \in Workers, pc'[v] = "parse" PROVE pushes'[hand'[v]] = <<>>
  <2>1. Holding(v) /\ v # w /\ pc[v] = "parse"
    BY <1>1, <1>7 DEF Holding
  <2>2. hand[v] # n /\ hand[v] \in 1..Len(req)
    BY <1>1, <2>1, OthersHold, HeldIsTaken
  <2> QED BY <1>1, <1>2, <2>1, <2>2 DEF PushInv
<1>8. \A m \in 1..Len(req') : fate'[m] = "waiting" => pushes'[m] = <<>>
  BY <1>1, <1>2, <1>4 DEF PushInv
<1>9. \A m \in 1..Len(req') : fate'[m] = "pushed" =>
        Tried(pushes'[m]) = DOMAIN found'[m] /\ TriedFits(pushes'[m], found'[m])
  BY <1>1, <1>2, <1>4 DEF PushInv
<1> QED BY <1>6, <1>7, <1>8, <1>9 DEF PushInv

\* Who is done leaves the others in their loops; if it was with a push, the
\* push had nothing left to do.
LEMMA DoneKeepsPush ==
  ASSUME IInv, PushTypes, PushInv, NEW w \in Workers, Holding(w), NEW f \in Fates,
         Done(w, f), f # "waiting", f = "pushed" => PushEnds(w),
         UNCHANGED <<req, found, pushes>>
  PROVE  PushInv'
<1> DEFINE n == hand[w]
<1>1. n \in 1..Len(req) /\ Len(fate) = Len(req) /\ fate \in Seq(Fates)
  BY HeldIsTaken DEF IInv, CoreTypes
<1>2. \A m \in 1..Len(req) : fate'[m] = IF m = n THEN f ELSE fate[m]
  <2>1. fate' = [fate EXCEPT ![n] = f]
    BY DEF Done
  <2> HIDE DEF n
  <2> QED BY <1>1, <2>1
<1>3. /\ pc'[w] = "try"
      /\ \A v \in Workers : v # w => pc'[v] = pc[v] /\ hand'[v] = hand[v] /\ todo'[v] = todo[v]
  <2>1. /\ pc' = [pc EXCEPT ![w] = "try"] /\ hand' = [hand EXCEPT ![w] = 0]
        /\ todo' = [todo EXCEPT ![w] = NoUsers]
    BY DEF Done
  <2>2. DOMAIN pc = Workers /\ DOMAIN hand = Workers /\ DOMAIN todo = Workers
    BY DEF IInv, CoreTypes, PushTypes
  <2> QED BY <2>1, <2>2
<1>4. \A v \in Workers : pc'[v] = "push" =>
        LoopInv(pushes'[hand'[v]], found'[hand'[v]], todo'[v])
  BY <1>3 DEF PushInv
<1>5. \A v \in Workers : pc'[v] = "parse" => pushes'[hand'[v]] = <<>>
  BY <1>3 DEF PushInv
<1>6. \A m \in 1..Len(req') : fate'[m] = "waiting" => pushes'[m] = <<>>
  BY <1>2 DEF PushInv
<1>7. f = "pushed" => Tried(pushes[n]) = DOMAIN found[n] /\ TriedFits(pushes[n], found[n])
  <2> SUFFICES ASSUME f = "pushed"
               PROVE  Tried(pushes[n]) = DOMAIN found[n] /\ TriedFits(pushes[n], found[n])
    OBVIOUS
  <2>1. pc[w] = "push" /\ DOMAIN todo[w] = {}
    BY DEF PushEnds
  <2>2. LoopInv(pushes[n], found[n], todo[w])
    BY <2>1 DEF PushInv
  <2> QED BY <2>1, <2>2, LoopEnds
<1>8. \A m \in 1..Len(req') : fate'[m] = "pushed" =>
        Tried(pushes'[m]) = DOMAIN found'[m] /\ TriedFits(pushes'[m], found'[m])
  BY <1>2, <1>7 DEF PushInv
<1> QED BY <1>4, <1>5, <1>6, <1>8 DEF PushInv

\* Nothing has been pushed for a request that a worker takes.
LEMMA TakeKeepsPush ==
  ASSUME IInv, PushInv, NEW w \in Workers, ~Holding(w), deque_ # <<>>, NEW c, Take(w, c)
  PROVE  PushInv'
<1> DEFINE n == Head(deque_)
<1>1. n \in 1..Len(req) /\ fate[n] = "waiting"
  <2>1. 1 \in 1..Len(deque_) /\ n = deque_[1]
    BY DEF IInv, CoreTypes
  <2> QED BY <2>1 DEF IInv, QueueInv
<1>2. UNCHANGED <<req, found, pushes>>
  BY DEF Take, outVars
<1>3. \A m \in 1..Len(req) : fate'[m] = IF m = n THEN "taken" ELSE fate[m]
  BY <1>1 DEF Take, IInv, CoreTypes
<1>4. /\ pc'[w] = "parse" /\ hand'[w] = n
      /\ \A v \in Workers : v # w => pc'[v] = pc[v] /\ hand'[v] = hand[v]
      /\ todo' = todo
  BY DEF Take, IInv, CoreTypes
<1> HIDE DEF n
<1> QED BY <1>1, <1>2, <1>3, <1>4, PushStays

\* A request that was received has pushed nothing.
LEMMA ReceiveKeepsPush ==
  ASSUME IInv, PushTypes, PushInv, NEW k \in Requests, AfterBodyGet(k)
  PROVE  PushInv'
<1> DEFINE new == Len(req) + 1
<1>1. /\ \A n \in 1..Len(req) : found'[n] = found[n] /\ pushes'[n] = pushes[n]
      /\ pushes'[new] = <<>> /\ Len(req') = new
  BY ReceiveTyped
<1>2. UNCHANGED <<pc, hand, todo>>
  BY DEF AfterBodyGet, workVars
<1>3. PICK f \in {"ignored", "waiting"} : fate' = Append(fate, f)
  BY DEF AfterBodyGet
<1>4. /\ Len(req) \in Nat /\ fate'[new] = f
      /\ \A n \in 1..Len(req) : fate'[n] = fate[n]
  BY <1>3 DEF IInv, CoreTypes
<1>5. \A n \in 1..Len(req') : n \in 1..Len(req) \/ n = new
  BY <1>1, <1>4
<1>6. \A v \in Workers : Holding(v) => hand[v] \in 1..Len(req)
  BY HeldIsTaken
<1>7. \A v \in Workers : pc'[v] = "push" =>
        LoopInv(pushes'[hand'[v]], found'[hand'[v]], todo'[v])
  BY <1>1, <1>2, <1>6 DEF PushInv, Holding
<1>8. \A v \in Workers : pc'[v] = "parse" => pushes'[hand'[v]] = <<>>
  BY <1>1, <1>2, <1>6 DEF PushInv, Holding
<1>9. \A n \in 1..Len(req') : fate'[n] = "waiting" => pushes'[n] = <<>>
  BY <1>1, <1>4, <1>5 DEF PushInv
<1>10. \A n \in 1..Len(req') : fate'[n] = "pushed" =>
         Tried(pushes'[n]) = DOMAIN found'[n] /\ TriedFits(pushes'[n], found'[n])
  BY <1>1, <1>3, <1>4, <1>5 DEF PushInv
<1> QED BY <1>7, <1>8, <1>9, <1>10 DEF PushInv

\* Every step keeps what is known of the pushes.
LEMMA PushKeeps ==
  ASSUME IInv, PushTypes, PushInv, [Next]_vars
  PROVE  PushInv'
<1> USE DEF outVars, workVars
<1>1. ASSUME NEW k \in Requests, AfterBodyGet(k) PROVE PushInv'
  BY <1>1, ReceiveKeepsPush
<1>2. CASE UNCHANGED <<req, fate, pc, hand, todo, found, pushes>>
  BY <1>2 DEF PushInv
<1>3. ASSUME NEW w \in Workers, NEW p \in {"try", "wait", "python", "reply"},
             pc' = [pc EXCEPT ![w] = p], UNCHANGED <<req, fate, hand, todo, found, pushes>>
      PROVE  PushInv'
  <2>1. pc'[w] = p /\ \A v \in Workers : v # w => pc'[v] = pc[v]
    BY <1>3 DEF IInv, CoreTypes
  <2> QED BY <1>3, <2>1, PushStays
<1>4. ASSUME NEW w \in Workers, WorkerStep(w) PROVE PushInv'
  <2>1. CASE InitCacheMap(w)
    BY <1>3, <2>1 DEF InitCacheMap
  <2>2. CASE TryPopEmpty(w)
    BY <1>3, <2>2 DEF TryPopEmpty
  <2>3. CASE TryPop(w)
    <3>1. PICK c : Take(w, c) /\ deque_ # <<>> /\ ~Holding(w)
      BY <2>3 DEF TryPop, Holding
    <3> QED BY <3>1, TakeKeepsPush
  <2>4. CASE WaitAndPop(w)
    <3>1. PICK c : Take(w, c) /\ deque_ # <<>> /\ ~Holding(w)
      BY <2>4 DEF WaitAndPop, Holding
    <3> QED BY <3>1, TakeKeepsPush
  <2>5. CASE Parse(w)
    <3>1. /\ pc' = [pc EXCEPT ![w] = "reply"]
          /\ UNCHANGED <<req, fate, hand, todo, found, pushes>>
      BY <2>5 DEF Parse
    <3> QED BY <1>3, <3>1
  <2>6. CASE EnterPython(w)
    BY <1>3, <2>6 DEF EnterPython
  <2>7. CASE PythonReturns(w)
    BY <1>3, <2>7 DEF PythonReturns
  <2>8. CASE PushCrashes(w)
    BY <1>2, <2>8 DEF PushCrashes
  <2>9. CASE PushStarts(w)
    BY <2>9, StartKeeps
  <2>10. CASE PushOne(w)
    BY <2>10, TurnKeeps
  <2>11. CASE \/ ParseThrows(w) \/ ParseBusy(w) \/ ParseUnknown(w) \/ Reply(w)
              \/ ReplyMissing(w) \/ PushIncomplete(w) \/ PushEnds(w)
    <3>1. Holding(w) /\ UNCHANGED <<req, found, pushes>>
      BY <2>11, DoneSteps
    <3>2. PICK f \in {"threw", "busy", "ignored", "replied", "no link", "pushed"} :
            Done(w, f) /\ (f = "pushed" => PushEnds(w))
      BY <2>11, DoneSteps
    <3>3. f \in Fates /\ f # "waiting"
      BY <3>2 DEF Fates
    <3> QED BY <3>1, <3>2, <3>3, DoneKeepsPush
  <2> QED BY <1>4, <2>1, <2>2, <2>3, <2>4, <2>5, <2>6, <2>7, <2>8, <2>9, <2>10, <2>11
      DEF WorkerStep
<1>5. ASSUME NEW l \in Links, LinkChanges(l) PROVE PushInv'
  BY <1>2, <1>5 DEF LinkChanges
<1>6. CASE Gone \/ UNCHANGED vars
  BY <1>2, <1>6 DEF Gone, vars
<1> QED BY <1>1, <1>4, <1>5, <1>6 DEF Next

\* Nothing has been pushed at the start.
LEMMA PushInit == Init => PushTypes /\ PushInv
<1> SUFFICES ASSUME Init PROVE PushTypes /\ PushInv
  OBVIOUS
<1>0. req = <<>> /\ found = <<>> /\ pushes = <<>>
  BY DEF Init
<1>1. Len(req) = 0 /\ Len(found) = 0 /\ Len(pushes) = 0 /\ 1..Len(req) = {}
  BY <1>0
<1>2. /\ pc = [w \in Workers |-> "starting"] /\ hand = [w \in Workers |-> 0]
      /\ todo = [w \in Workers |-> NoUsers] /\ cache = [w \in Workers |-> {}]
      /\ gil = NoWorker /\ crashed = FALSE
  BY DEF Init
<1> HIDE DEF NoUsers, NoWorker
<1>3. PushTypes
  <2>1. hand \in [Workers -> 0..Len(req)]
    BY <1>1, <1>2
  <2>2. todo \in [Workers -> UserMaps]
    BY <1>2, NoUsersTyped
  <2>3. cache \in [Workers -> SUBSET {"sess", "mongo"}]
    BY <1>2
  <2>4. gil \in Workers \cup {NoWorker} /\ crashed \in BOOLEAN
    BY <1>2
  <2>5. found \in Seq(UserMaps) /\ pushes \in Seq(Seq([user : Users, to : Links \cup {NoLink}]))
    BY <1>0
  <2> QED BY <1>1, <2>1, <2>2, <2>3, <2>4, <2>5 DEF PushTypes
<1>4. PushInv
  BY <1>1, <1>2 DEF PushInv
<1> QED BY <1>3, <1>4

LEMMA PushInductive == Spec => [](IInv /\ PushTypes /\ PushInv)
<1>1. IInv /\ PushTypes /\ PushInv /\ [Next]_vars => (IInv /\ PushTypes /\ PushInv)'
  BY NextKeeps, PushTypesKeep, PushKeeps
<1> QED BY <1>1, InitHolds, PushInit, PTL DEF Spec

\* The queue, the workers, the caches, the interpreter lock and what was sent
\* keep their types for any number of workers, links, users and requests; in
\* particular every packet that is sent is of a response type.
THEOREM ProcessingTypes == Spec => []TypeOK
BY PushInductive, TypesTogether, PTL

\* When a push has ended, each of the user's sessions that get_session found has
\* been tried exactly once by dispatch_to_server, over a connection to its own
\* server, however links came and went meanwhile and whatever other workers did.
THEOREM PushesComplete == Spec => []PushComplete
<1>1. PushInv => PushComplete
  BY DEF PushInv, PushComplete, Tried, TriedFits
<1> QED BY <1>1, PushInductive, PTL
=============================================================================
