---------------------------- MODULE OutboxProofs ----------------------------
(***************************************************************************)
(* Proofs about Outbox for every number of items, every set of keys and    *)
(* requests, every table of delays and every bound on resends and          *)
(* restarts.                                                               *)
(***************************************************************************)
EXTENDS Outbox, TLAPS

LEMMA ScheduleType ==
  ASSUME NEW n \in Nat, NEW d \in Schedule(n)
  PROVE  d \in Nat
<1>1. Clamp(n) \in 1..Len(Backoff)
  BY TimingAssumption DEF Clamp
<1>2. Backoff[Clamp(n)] \in Nat
  BY <1>1, TimingAssumption
<1> QED
  BY <1>2 DEF Schedule

LEMMA KindsOfRequests ==
  ASSUME NEW r \in Requests
  PROVE  r.key \in Keys \cup {NoKey} /\ r.kind \in Kinds /\ r.receipt \in BOOLEAN
  BY RequestsAssumption

LEMMA BumpType ==
  ASSUME NEW n \in 0..2
  PROVE  Bump(n) \in 0..2
  BY DEF Bump

LEMMA NoneIsNoSlot == None \notin Slots
  BY BoundsAssumption DEF None, Slots

LEMMA PartsOfKind ==
  ASSUME NEW k
  PROVE  FirstPart(k) \in Parts
  BY DEF FirstPart, Parts

LEMMA TypeInit == Init => TypeOK
<1> SUFFICES ASSUME Init PROVE TypeOK
  OBVIOUS
<1>1. copies \in [Slots -> [Parts -> 0..2]]
  BY DEF Init
<1>2. quiet \in 0..Cooldown
  BY TimingAssumption DEF Init
<1> QED
  BY <1>1, <1>2 DEF Init, TypeOK

LEMMA TypeStep == TypeOK /\ [Next]_vars => TypeOK'
<1> SUFFICES ASSUME TypeOK, [Next]_vars PROVE TypeOK'
  OBVIOUS
<1> USE NoneIsNoSlot DEF TypeOK
<1>0. pc # "idle" => current \in Slots
  OBVIOUS
<1>1. CASE Enqueue
  <2>1. CASE \E r \in Requests : Deduplicate(r)
    BY <2>1 DEF Deduplicate, vars, db, worker, history
  <2>2. ASSUME NEW r \in Requests, NEW i \in Slots, Accept(r, i) PROVE TypeOK'
    BY <2>2 DEF Accept, worker, history
  <2> QED BY <1>1, <2>1, <2>2 DEF Enqueue
<1>2. ASSUME NEW i \in Slots, Requeue(i) PROVE TypeOK'
  BY <1>2 DEF Requeue, worker
<1>3. ASSUME NEW i \in Slots, ClaimNext(i) PROVE TypeOK'
  BY <1>3 DEF ClaimNext
<1>4. CASE Dispatch
  BY <1>0, <1>4, PartsOfKind DEF Dispatch, db, Goto, Parts
<1>5. CASE SendOk
  <2>1. current \in Slots /\ pc \in Parts
    BY <1>0, <1>5 DEF SendOk, Parts
  <2>2. copies' \in [Slots -> [Parts -> 0..2]]
    BY <1>5, <2>1, BumpType DEF SendOk
  <2> QED BY <1>5, <2>1, <2>2, TimingAssumption DEF SendOk, db, Goto, Parts
<1>6. CASE SendUnanswered
  <2>1. current \in Slots /\ pc \in Parts
    BY <1>0, <1>6 DEF SendUnanswered, Parts
  <2>2. copies' \in [Slots -> [Parts -> 0..2]]
    BY <1>6, <2>1, BumpType DEF SendUnanswered
  <2> QED BY <1>6, <2>1, <2>2, TimingAssumption DEF SendUnanswered, db, Goto, Parts
<1>7. ASSUME NEW o \in {"transient", "permanent"}, SendFails(o) PROVE TypeOK'
  BY <1>0, <1>7 DEF SendFails, db, Goto, Parts
<1>8. CASE MarkSent
  BY <1>0, <1>8, TimingAssumption DEF MarkSent, Finish
<1>9. CASE MarkFailed
  <2>1. /\ current \in Slots
        /\ Failures(current) \in Nat
    BY <1>0, <1>9 DEF MarkFailed, Failures
  <2> QED BY <1>9, <2>1, ScheduleType DEF MarkFailed, Finish, history
<1>10. CASE MarkLost
  BY <1>0, <1>10 DEF MarkLost, Finish, db
<1>11. CASE Die
  BY <1>0, <1>11 DEF Die, Finish, db
<1>12. CASE Open
  BY <1>12, TimingAssumption DEF Open, worker
<1>13. CASE Connect \/ Disconnect
  BY <1>13 DEF Connect, Disconnect, db, worker, history
<1>14. CASE Tick
  BY <1>14, TimingAssumption DEF Tick, Less, worker
<1>15. CASE UNCHANGED vars
  BY <1>15 DEF vars, db, worker, history
<1> QED
  BY <1>1, <1>2, <1>3, <1>4, <1>5, <1>6, <1>7, <1>8, <1>9, <1>10, <1>11, <1>12,
     <1>13, <1>14, <1>15
  DEF Next, Work

(* Every variable keeps its type, in every behaviour. *)
THEOREM TypeCorrect == Spec => []TypeOK
  BY TypeInit, TypeStep, PTL DEF Spec

-----------------------------------------------------------------------------
(* The inductive invariant.  The properties of Outbox do not follow from one
   another step by step: that a sent item was delivered rests on what the
   worker knows in the middle of Step, that a duplicate has a cause on where
   an unexplained copy can be, and the spacing of receipts on the sum of the
   two clocks that watch it. *)

(* An item exists exactly when it carries a request, and starts untried
   and unsent. *)
ItemsExist ==
  \A i \in Slots :
    IF status[i] = "absent"
      THEN /\ request[i] = NoRequest
           /\ attempts[i] = 0
           /\ \A p \in Parts : copies[i][p] = 0
      ELSE request[i] \in Requests

(* What the worker knows between the calls of one Step. *)
StepProgress ==
  /\ pc \in Parts => pc \in PartsOf(request[current].kind)
  /\ pc = "text" /\ "file" \in PartsOf(request[current].kind)
       => copies[current]["file"] > 0
  /\ pc = "mark_sent" => Delivered(current)

(* Without a cause for a duplicate, a part that was taken belongs to an item
   that is sent, or is an earlier part of the Step under way. *)
CopyIsCurrent(i, p) ==
  \/ status[i] = "sent"
  \/ i = current /\ pc = "mark_sent"
  \/ i = current /\ pc = "text" /\ p = "file"

CopiesExplained ==
  \A i \in Slots : i \notin doubtful =>
    \A p \in Parts : copies[i][p] # 0 => copies[i][p] = 1 /\ CopyIsCurrent(i, p)

(* The cooldown in memory and the quiet since the last receipt make up at
   least Cooldown, except between the send of a receipt and its record. *)
CooldownCovers ==
  forgot \/ cooldown + quiet >= Cooldown \/ (pc = "mark_sent" /\ IsReceipt(current))

IInv ==
  /\ TypeOK
  /\ ItemsExist
  /\ SendingIsHeld
  /\ StepProgress
  /\ SentMeansDelivered
  /\ OneItemPerKey
  /\ CopiesExplained
  /\ ClaimsAccounted
  /\ AttemptsWithinBudget
  /\ CooldownCovers

LEMMA InvInit == Init => IInv
<1> SUFFICES ASSUME Init PROVE IInv
  OBVIOUS
<1>1. TypeOK
  BY TypeInit
<1>2. \A i \in Slots : /\ status[i] = "absent"
                       /\ request[i] = NoRequest
                       /\ \A p \in Parts : copies[i][p] = 0
  BY DEF Init
<1>3. \A i \in Slots : /\ attempts[i] = 0
                       /\ resent[i] = 0
                       /\ claims[i] = 0
  BY DEF Init
<1>4. ItemsExist /\ SendingIsHeld /\ SentMeansDelivered /\ CopiesExplained
  BY <1>2, <1>3 DEF Init, ItemsExist, SendingIsHeld, SentMeansDelivered, CopiesExplained
<1>5. OneItemPerKey
  BY <1>2, RequestsAssumption DEF Init, OneItemPerKey, NoRequest
<1>6. ClaimsAccounted /\ AttemptsWithinBudget
  BY <1>2, <1>3, TimingAssumption DEF Init, ClaimsAccounted, AttemptsWithinBudget
<1>7. StepProgress /\ CooldownCovers
  BY TimingAssumption DEF Init, StepProgress, CooldownCovers, Parts
<1> QED
  BY <1>1, <1>4, <1>5, <1>6, <1>7 DEF IInv

(* The steps of the worker. *)

LEMMA ClaimNextPreserves ==
  ASSUME IInv, TypeOK', NEW i \in Slots, ClaimNext(i)
  PROVE  IInv'
<1> USE NoneIsNoSlot DEF IInv, TypeOK, ClaimNext
<1>1. /\ status[i] = "pending"
      /\ current = None
      /\ \A j \in Slots \ {i} : status'[j] = status[j] /\ claims'[j] = claims[j]
      /\ status'[i] = "sending"
      /\ claims'[i] = claims[i] + 1
  BY DEF Due
<1>2. ItemsExist' /\ OneItemPerKey'
  BY <1>1 DEF ItemsExist, OneItemPerKey
<1>3. SendingIsHeld'
  BY <1>1 DEF SendingIsHeld
<1>4. StepProgress' /\ CooldownCovers'
  BY DEF StepProgress, CooldownCovers, Parts
<1>5. SentMeansDelivered'
  BY <1>1 DEF SentMeansDelivered, Delivered
<1>6. CopiesExplained'
  BY <1>1 DEF CopiesExplained, CopyIsCurrent
<1>7. ClaimsAccounted' /\ AttemptsWithinBudget'
  BY <1>1 DEF ClaimsAccounted, AttemptsWithinBudget
<1> QED
  BY <1>2, <1>3, <1>4, <1>5, <1>6, <1>7 DEF IInv

LEMMA DispatchPreserves ==
  ASSUME IInv, TypeOK', Dispatch
  PROVE  IInv'
<1> USE NoneIsNoSlot DEF IInv, TypeOK, Dispatch, db, Goto
<1>1. current \in Slots /\ status[current] = "sending" /\ request[current] \in Requests
  BY DEF SendingIsHeld, ItemsExist
<1>2. ItemsExist' /\ SendingIsHeld' /\ SentMeansDelivered' /\ OneItemPerKey'
  BY DEF ItemsExist, SendingIsHeld, SentMeansDelivered, Delivered, OneItemPerKey
<1>3. StepProgress'
  BY <1>1, KindsOfRequests DEF StepProgress, FirstPart, PartsOf, Parts, Kinds
<1>4. CopiesExplained' /\ ClaimsAccounted' /\ AttemptsWithinBudget' /\ CooldownCovers'
  BY <1>1 DEF CopiesExplained, CopyIsCurrent, ClaimsAccounted, AttemptsWithinBudget,
              CooldownCovers, FirstPart
<1> QED
  BY <1>2, <1>3, <1>4 DEF IInv

(* What both outcomes of a call that WhatsApp takes do to the copies. *)
LEMMA CopyTaken ==
  ASSUME IInv, pc \in Parts,
         copies' = [copies EXCEPT ![current][pc] = Bump(@)],
         UNCHANGED <<status, request>>
  PROVE  /\ current \in Slots /\ status[current] = "sending"
         /\ request[current] \in Requests
         /\ copies'[current][pc] > 0
         /\ copies[current][pc] = 0 => copies'[current][pc] = 1
         /\ \A i \in Slots, p \in Parts :
              ~(i = current /\ p = pc) => copies'[i][p] = copies[i][p]
         /\ SentMeansDelivered'
<1> USE NoneIsNoSlot DEF IInv, TypeOK, Parts
<1>1. current \in Slots /\ status[current] = "sending" /\ request[current] \in Requests
  BY DEF SendingIsHeld, ItemsExist
<1>2. /\ copies'[current][pc] = Bump(copies[current][pc])
      /\ \A i \in Slots, p \in Parts :
           ~(i = current /\ p = pc) => copies'[i][p] = copies[i][p]
  BY <1>1
<1>3. copies'[current][pc] > 0 /\ (copies[current][pc] = 0 => copies'[current][pc] = 1)
  BY <1>1, <1>2 DEF Bump
<1>4. \A k \in Kinds : PartsOf(k) \subseteq Parts
  BY DEF PartsOf, Kinds
<1>5. SentMeansDelivered'
  BY <1>1, <1>2, <1>4 DEF SentMeansDelivered, Delivered
<1> QED
  BY <1>1, <1>2, <1>3, <1>5

LEMMA SendOkPreserves ==
  ASSUME IInv, TypeOK', SendOk
  PROVE  IInv'
<1> USE NoneIsNoSlot DEF IInv, TypeOK, SendOk, db, Goto
<1>1. /\ current \in Slots /\ status[current] = "sending"
      /\ request[current] \in Requests
      /\ copies'[current][pc] > 0
      /\ copies[current][pc] = 0 => copies'[current][pc] = 1
      /\ \A i \in Slots, p \in Parts :
           ~(i = current /\ p = pc) => copies'[i][p] = copies[i][p]
      /\ SentMeansDelivered'
  BY CopyTaken
<1>2. ItemsExist' /\ SendingIsHeld' /\ OneItemPerKey'
  BY DEF ItemsExist, SendingIsHeld, OneItemPerKey
<1>3. request[current].kind \in Kinds
  BY <1>1, KindsOfRequests
<1>4. StepProgress'
  BY <1>1, <1>3 DEF StepProgress, LastPart, Delivered, PartsOf, Parts, Kinds
<1>5. CopiesExplained'
  <2> SUFFICES ASSUME NEW i \in Slots, i \notin doubtful, NEW p \in Parts,
                      copies'[i][p] # 0
               PROVE  copies'[i][p] = 1 /\ CopyIsCurrent(i, p)'
    BY DEF CopiesExplained
  <2>1. CASE i = current
    <3>1. copies[i][pc] = 0
      BY <1>1, <1>3, <2>1 DEF CopiesExplained, CopyIsCurrent, Parts
    <3>2. p # pc => copies[i][p] = 1 /\ pc = "text" /\ p = "file"
      BY <1>1, <2>1 DEF CopiesExplained, CopyIsCurrent, Parts
    <3> QED
      BY <1>1, <1>3, <2>1, <3>1, <3>2
      DEF CopyIsCurrent, LastPart, PartsOf, Parts, Kinds
  <2>2. CASE i # current
    BY <1>1, <2>2 DEF CopiesExplained, CopyIsCurrent
  <2> QED BY <2>1, <2>2
<1>6. ClaimsAccounted' /\ AttemptsWithinBudget'
  BY DEF ClaimsAccounted, AttemptsWithinBudget
<1>7. CooldownCovers'
  BY DEF CooldownCovers, IsReceipt, Parts
<1> QED
  BY <1>1, <1>2, <1>4, <1>5, <1>6, <1>7 DEF IInv

LEMMA SendUnansweredPreserves ==
  ASSUME IInv, TypeOK', SendUnanswered
  PROVE  IInv'
<1> USE NoneIsNoSlot DEF IInv, TypeOK, SendUnanswered, db, Goto
<1>1. /\ current \in Slots /\ status[current] = "sending"
      /\ \A i \in Slots, p \in Parts :
           ~(i = current /\ p = pc) => copies'[i][p] = copies[i][p]
      /\ SentMeansDelivered'
  BY CopyTaken
<1>2. ItemsExist' /\ SendingIsHeld' /\ OneItemPerKey' /\ StepProgress'
  BY DEF ItemsExist, SendingIsHeld, OneItemPerKey, StepProgress, Parts
<1>3. CopiesExplained'
  BY <1>1 DEF CopiesExplained, CopyIsCurrent
<1>4. ClaimsAccounted' /\ AttemptsWithinBudget' /\ CooldownCovers'
  BY DEF ClaimsAccounted, AttemptsWithinBudget, CooldownCovers, IsReceipt, Parts
<1> QED
  BY <1>1, <1>2, <1>3, <1>4 DEF IInv

LEMMA SendFailsPreserves ==
  ASSUME IInv, TypeOK', NEW o \in {"transient", "permanent"}, SendFails(o)
  PROVE  IInv'
<1> USE NoneIsNoSlot DEF IInv, TypeOK, SendFails, db, Goto
<1>1. current \in Slots /\ status[current] = "sending"
  BY DEF SendingIsHeld, Parts
<1>2. ItemsExist' /\ SendingIsHeld' /\ OneItemPerKey' /\ StepProgress'
  BY DEF ItemsExist, SendingIsHeld, OneItemPerKey, StepProgress, Parts
<1>3. CopiesExplained'
  BY <1>1 DEF CopiesExplained, CopyIsCurrent, AnyCopy
<1>4. SentMeansDelivered' /\ ClaimsAccounted' /\ AttemptsWithinBudget' /\ CooldownCovers'
  BY DEF SentMeansDelivered, Delivered, ClaimsAccounted, AttemptsWithinBudget,
         CooldownCovers, Parts
<1> QED
  BY <1>2, <1>3, <1>4 DEF IInv

LEMMA MarkSentPreserves ==
  ASSUME IInv, TypeOK', MarkSent
  PROVE  IInv'
<1> USE NoneIsNoSlot, TimingAssumption DEF IInv, TypeOK, MarkSent, Finish
<1>1. /\ current \in Slots /\ status[current] = "sending"
      /\ status'[current] = "sent"
      /\ \A i \in Slots \ {current} : status'[i] = status[i]
  BY DEF SendingIsHeld
<1>2. ItemsExist' /\ SendingIsHeld' /\ OneItemPerKey' /\ StepProgress'
  BY <1>1 DEF ItemsExist, SendingIsHeld, OneItemPerKey, StepProgress, Parts
<1>3. SentMeansDelivered'
  BY <1>1 DEF SentMeansDelivered, StepProgress, Delivered
<1>4. CopiesExplained'
  BY <1>1 DEF CopiesExplained, CopyIsCurrent
<1>5. ClaimsAccounted' /\ AttemptsWithinBudget'
  BY <1>1 DEF ClaimsAccounted, AttemptsWithinBudget
<1>6. CooldownCovers'
  <2>1. CASE IsReceipt(current)
    <3>1. cooldown' = Cooldown /\ quiet' \in 0..Cooldown
      BY <2>1
    <3> QED BY <3>1 DEF CooldownCovers
  <2>2. CASE ~IsReceipt(current)
    BY <2>2 DEF CooldownCovers
  <2> QED BY <2>1, <2>2
<1> QED
  BY <1>2, <1>3, <1>4, <1>5, <1>6 DEF IInv

LEMMA MarkFailedPreserves ==
  ASSUME IInv, TypeOK', MarkFailed
  PROVE  IInv'
<1> USE NoneIsNoSlot, TimingAssumption DEF IInv, TypeOK, MarkFailed, Finish, history
<1> DEFINE n == Failures(current)
<1>1. /\ current \in Slots /\ status[current] = "sending"
      /\ n = attempts[current] + 1
      /\ attempts'[current] = n
      /\ \A i \in Slots \ {current} : status'[i] = status[i] /\ attempts'[i] = attempts[i]
  BY DEF SendingIsHeld, Failures
<1>2. /\ status'[current] \in {"pending", "dead"}
      /\ status'[current] = "pending" => n < MaxAttempts
  BY <1>1 DEF Exhausted
<1>3. ItemsExist' /\ OneItemPerKey' /\ StepProgress' /\ CooldownCovers'
  BY <1>1, <1>2 DEF ItemsExist, OneItemPerKey, StepProgress, CooldownCovers, Parts
<1>4. SendingIsHeld'
  BY <1>1, <1>2 DEF SendingIsHeld
<1>5. SentMeansDelivered'
  BY <1>1, <1>2 DEF SentMeansDelivered, Delivered
<1>6. CopiesExplained'
  BY <1>1, <1>2 DEF CopiesExplained, CopyIsCurrent
<1>7. ClaimsAccounted'
  <2> SUFFICES ASSUME NEW i \in Slots
               PROVE  claims[i] <= attempts'[i] + resent[i] + restarts
                                   + (IF status'[i] \in {"sending", "sent"} THEN 1 ELSE 0)
    BY DEF ClaimsAccounted
  <2>1. claims[i] <= attempts[i] + resent[i] + restarts
                     + (IF status[i] \in {"sending", "sent"} THEN 1 ELSE 0)
    BY DEF ClaimsAccounted
  <2>2. CASE i = current
    <3>1. claims[i] <= attempts[i] + resent[i] + restarts + 1
      BY <1>1, <2>1, <2>2
    <3>2. claims[i] <= attempts'[i] + resent[i] + restarts
      BY <1>1, <2>2, <3>1
    <3> QED BY <1>1, <1>2, <2>2, <3>2
  <2>3. CASE i # current
    BY <1>1, <2>1, <2>3
  <2> QED BY <2>2, <2>3
<1>8. AttemptsWithinBudget'
  BY <1>1, <1>2 DEF AttemptsWithinBudget
<1> QED
  BY <1>3, <1>4, <1>5, <1>6, <1>7, <1>8 DEF IInv

LEMMA MarkLostPreserves ==
  ASSUME IInv, TypeOK', MarkLost
  PROVE  IInv'
<1> USE NoneIsNoSlot DEF IInv, TypeOK, MarkLost, Finish, db
<1>1. current \in Slots
  OBVIOUS
<1>2. ItemsExist' /\ SendingIsHeld' /\ OneItemPerKey' /\ StepProgress'
  BY <1>1 DEF ItemsExist, SendingIsHeld, OneItemPerKey, StepProgress, Parts
<1>3. CopiesExplained'
  BY <1>1 DEF CopiesExplained, CopyIsCurrent, AnyCopy
<1>4. SentMeansDelivered' /\ ClaimsAccounted' /\ AttemptsWithinBudget' /\ CooldownCovers'
  BY DEF SentMeansDelivered, Delivered, ClaimsAccounted, AttemptsWithinBudget,
         CooldownCovers, IsReceipt
<1> QED
  BY <1>2, <1>3, <1>4 DEF IInv

(* The steps of callers, of the process and of its environment. *)

LEMMA AcceptPreserves ==
  ASSUME IInv, TypeOK', NEW r \in Requests, NEW i \in Slots, Accept(r, i)
  PROVE  IInv'
<1> USE NoneIsNoSlot DEF IInv, TypeOK, Accept, worker, history
<1>1. /\ status[i] = "absent" /\ request[i] = NoRequest /\ i # current
      /\ status'[i] = "pending" /\ request'[i] = r
      /\ \A j \in Slots \ {i} : status'[j] = status[j] /\ request'[j] = request[j]
  BY DEF NextFree, ItemsExist, SendingIsHeld
<1>2. ItemsExist' /\ SendingIsHeld'
  BY <1>1 DEF ItemsExist, SendingIsHeld
<1>3. StepProgress' /\ SentMeansDelivered' /\ CooldownCovers'
  BY <1>1 DEF StepProgress, SentMeansDelivered, Delivered, CooldownCovers, IsReceipt, Parts
<1>4. OneItemPerKey'
  <2>1. /\ r.key \in Keys \cup {NoKey}
        /\ r.key \in Keys => idem[r.key] = None /\ idem'[r.key] = i
        /\ \A k \in Keys : k # r.key => idem'[k] = idem[k]
    BY KindsOfRequests, RequestsAssumption DEF Known
  <2>2. \A j \in Slots \ {i} : request[j].key = NoKey \/ request[j].key # r.key
    BY <2>1, RequestsAssumption DEF OneItemPerKey
  <2>3. \A j \in Slots : request[j].key \in Keys \cup {NoKey}
    BY KindsOfRequests DEF NoRequest
  <2>4. \A k \in Keys : idem[k] # i
    BY <1>1, RequestsAssumption DEF OneItemPerKey, NoRequest
  <2> QED BY <1>1, <2>1, <2>2, <2>3, <2>4, RequestsAssumption DEF OneItemPerKey
<1>5. CopiesExplained'
  BY <1>1 DEF CopiesExplained, CopyIsCurrent
<1>6. ClaimsAccounted'
  BY <1>1 DEF ClaimsAccounted
<1>7. AttemptsWithinBudget'
  BY <1>1, TimingAssumption DEF AttemptsWithinBudget, ItemsExist
<1> QED
  BY <1>2, <1>3, <1>4, <1>5, <1>6, <1>7 DEF IInv

LEMMA RequeuePreserves ==
  ASSUME IInv, TypeOK', NEW i \in Slots, Requeue(i)
  PROVE  IInv'
<1> USE NoneIsNoSlot DEF IInv, TypeOK, Requeue, Resendable, worker
<1>1. /\ status[i] \in {"pending", "sent", "dead"} /\ i # current
      /\ status'[i] = "pending" /\ resent'[i] = resent[i] + 1
      /\ \A j \in Slots \ {i} : status'[j] = status[j] /\ resent'[j] = resent[j]
  BY DEF SendingIsHeld
<1>2. ItemsExist' /\ SendingIsHeld' /\ OneItemPerKey'
  BY <1>1 DEF ItemsExist, SendingIsHeld, OneItemPerKey
<1>3. StepProgress' /\ CooldownCovers'
  BY DEF StepProgress, Delivered, CooldownCovers, IsReceipt
<1>4. SentMeansDelivered'
  BY <1>1 DEF SentMeansDelivered, Delivered
<1>5. CopiesExplained'
  BY <1>1 DEF CopiesExplained, CopyIsCurrent
<1>6. ClaimsAccounted'
  <2>1. ASSUME NEW j \in Slots
        PROVE  claims[j] <= attempts[j] + resent'[j] + restarts
                            + (IF status'[j] \in {"sending", "sent"} THEN 1 ELSE 0)
    <3>1. claims[j] <= attempts[j] + resent[j] + restarts
                       + (IF status[j] \in {"sending", "sent"} THEN 1 ELSE 0)
      BY DEF ClaimsAccounted
    <3>2. CASE j = i
      <4>1. claims[j] <= attempts[j] + resent[j] + restarts + 1
        BY <3>1
      <4>2. claims[j] <= attempts[j] + resent'[j] + restarts
        BY <1>1, <3>2, <4>1
      <4> QED BY <1>1, <3>2, <4>2
    <3>3. CASE j # i
      BY <1>1, <3>1, <3>3
    <3> QED BY <3>2, <3>3
  <2> QED BY <2>1 DEF ClaimsAccounted
<1>7. AttemptsWithinBudget'
  BY <1>1, TimingAssumption DEF AttemptsWithinBudget
<1> QED
  BY <1>2, <1>3, <1>4, <1>5, <1>6, <1>7 DEF IInv

LEMMA DiePreserves ==
  ASSUME IInv, TypeOK', Die
  PROVE  IInv'
<1> USE NoneIsNoSlot DEF IInv, TypeOK, Die, Finish, db
<1>1. ItemsExist' /\ OneItemPerKey' /\ SendingIsHeld' /\ StepProgress'
  BY DEF ItemsExist, OneItemPerKey, SendingIsHeld, StepProgress, Parts
<1>2. CopiesExplained'
  BY DEF CopiesExplained, CopyIsCurrent, AnyCopy
<1>3. SentMeansDelivered' /\ ClaimsAccounted' /\ AttemptsWithinBudget' /\ CooldownCovers'
  BY DEF SentMeansDelivered, Delivered, ClaimsAccounted, AttemptsWithinBudget, CooldownCovers
<1> QED
  BY <1>1, <1>2, <1>3 DEF IInv

LEMMA OpenPreserves ==
  ASSUME IInv, TypeOK', Open
  PROVE  IInv'
<1> USE NoneIsNoSlot DEF IInv, TypeOK, Open, Interrupted, worker
<1>1. /\ current = None /\ pc = "idle"
      /\ \A i \in Slots : status[i] = "sending" => status'[i] = "pending"
      /\ \A i \in Slots : status[i] # "sending" => status'[i] = status[i]
  OBVIOUS
<1>2. ItemsExist' /\ OneItemPerKey' /\ SendingIsHeld'
  BY <1>1 DEF ItemsExist, OneItemPerKey, SendingIsHeld
<1>3. StepProgress' /\ CooldownCovers'
  BY <1>1 DEF StepProgress, CooldownCovers, Parts
<1>4. SentMeansDelivered'
  BY <1>1 DEF SentMeansDelivered, Delivered
<1>5. CopiesExplained'
  BY <1>1 DEF CopiesExplained, CopyIsCurrent
<1>6. ClaimsAccounted'
  <2> SUFFICES ASSUME NEW i \in Slots
               PROVE  claims[i] <= attempts[i] + resent[i] + restarts'
                                   + (IF status'[i] \in {"sending", "sent"} THEN 1 ELSE 0)
    BY DEF ClaimsAccounted
  <2>1. claims[i] <= attempts[i] + resent[i] + restarts
                     + (IF status[i] \in {"sending", "sent"} THEN 1 ELSE 0)
    BY DEF ClaimsAccounted
  <2>2. CASE status[i] = "sending"
    <3>1. claims[i] <= attempts[i] + resent[i] + restarts'
      BY <2>1, <2>2
    <3> QED BY <1>1, <2>2, <3>1
  <2>3. CASE status[i] # "sending"
    BY <1>1, <2>1, <2>3
  <2> QED BY <2>2, <2>3
<1>7. AttemptsWithinBudget'
  BY <1>1 DEF AttemptsWithinBudget
<1> QED
  BY <1>2, <1>3, <1>4, <1>5, <1>6, <1>7 DEF IInv

LEMMA ConnectionPreserves ==
  ASSUME IInv, TypeOK', Connect \/ Disconnect
  PROVE  IInv'
<1> USE DEF IInv, TypeOK, Connect, Disconnect, db, worker, history
<1>1. ItemsExist' /\ OneItemPerKey' /\ SendingIsHeld' /\ StepProgress' /\ CopiesExplained'
  BY DEF ItemsExist, OneItemPerKey, SendingIsHeld, StepProgress, Delivered,
         CopiesExplained, CopyIsCurrent
<1>2. SentMeansDelivered' /\ ClaimsAccounted' /\ AttemptsWithinBudget' /\ CooldownCovers'
  BY DEF SentMeansDelivered, Delivered, ClaimsAccounted, AttemptsWithinBudget,
         CooldownCovers, IsReceipt
<1> QED
  BY <1>1, <1>2 DEF IInv

LEMMA TickPreserves ==
  ASSUME IInv, TypeOK', Tick
  PROVE  IInv'
<1> USE DEF IInv, TypeOK, Tick, worker
<1>1. ItemsExist' /\ OneItemPerKey' /\ SendingIsHeld' /\ StepProgress' /\ CopiesExplained'
  BY DEF ItemsExist, OneItemPerKey, SendingIsHeld, StepProgress, Delivered,
         CopiesExplained, CopyIsCurrent
<1>2. SentMeansDelivered' /\ ClaimsAccounted' /\ AttemptsWithinBudget'
  BY DEF SentMeansDelivered, Delivered, ClaimsAccounted, AttemptsWithinBudget
<1>3. CooldownCovers'
  <2>1. cooldown + quiet >= Cooldown => cooldown' + quiet' >= Cooldown
    BY TimingAssumption DEF Less
  <2> QED BY <2>1 DEF CooldownCovers, IsReceipt
<1> QED
  BY <1>1, <1>2, <1>3 DEF IInv

LEMMA StutterPreserves ==
  ASSUME IInv, TypeOK', UNCHANGED vars
  PROVE  IInv'
<1> USE DEF IInv, TypeOK, vars, db, worker, history
<1>1. ItemsExist' /\ OneItemPerKey' /\ SendingIsHeld' /\ StepProgress' /\ CopiesExplained'
  BY DEF ItemsExist, OneItemPerKey, SendingIsHeld, StepProgress, Delivered,
         CopiesExplained, CopyIsCurrent
<1>2. SentMeansDelivered' /\ ClaimsAccounted' /\ AttemptsWithinBudget' /\ CooldownCovers'
  BY DEF SentMeansDelivered, Delivered, ClaimsAccounted, AttemptsWithinBudget,
         CooldownCovers, IsReceipt
<1> QED
  BY <1>1, <1>2 DEF IInv

LEMMA InvStep == IInv /\ [Next]_vars => IInv'
<1> SUFFICES ASSUME IInv, [Next]_vars PROVE IInv'
  OBVIOUS
<1>1. TypeOK'
  BY TypeStep DEF IInv
<1>2. CASE Enqueue
  BY <1>1, <1>2, AcceptPreserves, StutterPreserves DEF Enqueue, Deduplicate
<1>3. CASE \E i \in Slots : Requeue(i)
  BY <1>1, <1>3, RequeuePreserves
<1>4. CASE Work
  BY <1>1, <1>4, ClaimNextPreserves, DispatchPreserves, SendOkPreserves,
     SendUnansweredPreserves, SendFailsPreserves, MarkSentPreserves,
     MarkFailedPreserves, MarkLostPreserves
  DEF Work
<1>5. CASE Die \/ Open \/ Connect \/ Disconnect \/ Tick
  BY <1>1, <1>5, DiePreserves, OpenPreserves, ConnectionPreserves, TickPreserves
<1>6. CASE UNCHANGED vars
  BY <1>1, <1>6, StutterPreserves
<1> QED
  BY <1>2, <1>3, <1>4, <1>5, <1>6 DEF Next

LEMMA Invariance == Spec => []IInv
  BY InvInit, InvStep, PTL DEF Spec

-----------------------------------------------------------------------------
(* The safety properties that the runs check, for every instance. *)

(* No Resend and no recovery takes an item away from the worker during its
   send, and no item is left in "sending" but by a refused write. *)
THEOREM WorkerOwnsSending == Spec => []SendingIsHeld
  BY Invariance, PTL DEF IInv

(* Whatever crashes and resends happen, "sent" is never claimed of an item
   with a part WhatsApp did not take. *)
THEOREM SentIsDelivered == Spec => []SentMeansDelivered
  BY Invariance, PTL DEF IInv

(* A key is spent once: a double click never makes a second item. *)
THEOREM KeysAreUnique == Spec => []OneItemPerKey
  BY Invariance, PTL DEF IInv

(* A second copy of a part always has one of the listed causes. *)
THEOREM DuplicatesHaveACause == Spec => []NoUnexplainedDuplicate
<1>1. IInv => NoUnexplainedDuplicate
  BY DEF IInv, TypeOK, CopiesExplained, NoUnexplainedDuplicate
<1> QED
  BY <1>1, Invariance, PTL

(* Retries are never free. *)
THEOREM ClaimsArePaidFor == Spec => []ClaimsAccounted
  BY Invariance, PTL DEF IInv

(* MaxAttempts limits the failures of an item, but for its resends. *)
THEOREM FailuresAreBounded == Spec => []AttemptsWithinBudget
  BY Invariance, PTL DEF IInv

(* The failures and the claims, taken together. *)
ClaimsBounded ==
  \A i \in Slots : claims[i] <= MaxAttempts + 2 * resent[i] + restarts + 1

(* What EventuallySettled rests on: an item is claimed a bounded number of
   times, so that none is tried for ever unless somebody goes on to click
   Resend or the process to die (outbox.go:462, :515). *)
THEOREM RetriesEnd == Spec => []ClaimsBounded
<1>1. TypeOK /\ ClaimsAccounted /\ AttemptsWithinBudget => ClaimsBounded
  <2> SUFFICES ASSUME TypeOK, ClaimsAccounted, AttemptsWithinBudget, NEW i \in Slots
               PROVE  claims[i] <= MaxAttempts + 2 * resent[i] + restarts + 1
    BY DEF ClaimsBounded
  <2>1. /\ claims[i] \in Nat /\ attempts[i] \in Nat /\ resent[i] \in Nat
        /\ restarts \in Nat /\ MaxAttempts \in Nat
    BY TimingAssumption DEF TypeOK
  <2>2. attempts[i] <= MaxAttempts + resent[i]
    BY DEF AttemptsWithinBudget
  <2>3. claims[i] <= attempts[i] + resent[i] + restarts
                     + (IF status[i] \in {"sending", "sent"} THEN 1 ELSE 0)
    BY DEF ClaimsAccounted
  <2>4. claims[i] <= attempts[i] + resent[i] + restarts + 1
    BY <2>1, <2>3
  <2> QED
    BY <2>1, <2>2, <2>4
<1> QED
  BY <1>1, TypeCorrect, ClaimsArePaidFor, FailuresAreBounded, PTL

(* Within the life of a process, receipts keep their distance. *)
THEOREM ReceiptsAreSpaced == Spec => ReceiptSpacing
<1> DEFINE Spaced == \A i \in Slots :
             status[i] = "pending" /\ status'[i] = "sending" /\ IsReceipt(i) /\ ~forgot
               => quiet = Cooldown
<1>1. IInv /\ [Next]_vars => [Spaced]_vars
  <2> SUFFICES ASSUME IInv, Next, NEW i \in Slots,
                      status[i] = "pending", status'[i] = "sending", IsReceipt(i), ~forgot
               PROVE  quiet = Cooldown
    OBVIOUS
  <2> USE DEF IInv, TypeOK
  <2>1. PICK j \in Slots : ClaimNext(j)
    <3>1. CASE Enqueue
      BY <3>1 DEF Enqueue, Deduplicate, Accept, vars, db
    <3>2. CASE \E j \in Slots : Requeue(j)
      BY <3>2 DEF Requeue
    <3>3. CASE Dispatch \/ SendOk \/ SendUnanswered \/ SendFails("transient")
               \/ SendFails("permanent") \/ MarkLost
      BY <3>3 DEF Dispatch, SendOk, SendUnanswered, SendFails, MarkLost, db
    <3>4. CASE MarkSent \/ MarkFailed
      BY <3>4 DEF MarkSent, MarkFailed
    <3>5. CASE Die \/ Open \/ Connect \/ Disconnect \/ Tick
      BY <3>5 DEF Die, Open, Connect, Disconnect, Tick, db, Interrupted
    <3> QED BY <3>1, <3>2, <3>3, <3>4, <3>5 DEF Next, Work
  <2>2. j = i
    BY <2>1 DEF ClaimNext
  <2>3. pc = "idle" /\ cooldown = 0
    BY <2>1, <2>2 DEF ClaimNext, Due
  <2>4. quiet >= Cooldown
    BY <2>3, TimingAssumption DEF CooldownCovers
  <2> QED BY <2>4, TimingAssumption
<1> QED
  BY <1>1, Invariance, PTL DEF Spec, ReceiptSpacing

-----------------------------------------------------------------------------
(* The outbox implements MessageQueue. *)

(* A step that changes neither a status nor a request, and takes away no copy,
   shows the abstract queue at most one message newly handed over. *)
LEMMA QuietStep ==
  ASSUME UNCHANGED <<status, request, copies>>
  PROVE  UNCHANGED Queue!vars
  BY DEF Queue!vars, QueueState, QueueKey, Handed, Delivered

LEMMA MapInit == Init => Queue!Init
<1> SUFFICES ASSUME Init PROVE Queue!Init
  OBVIOUS
<1>1. \A i \in Slots : status[i] = "absent" /\ request[i] = NoRequest
  BY DEF Init
<1>2. QueueState = [i \in Slots |-> "absent"]
  BY <1>1 DEF QueueState
<1>3. QueueKey = [i \in Slots |-> NoKey]
  BY <1>1 DEF QueueKey, NoRequest
<1>4. Handed = {}
  BY <1>1 DEF Handed, Delivered, NoRequest, Kinds
<1> QED
  BY <1>2, <1>3, <1>4 DEF Queue!Init

LEMMA MapAccept ==
  ASSUME IInv, NEW r \in Requests, NEW i \in Slots, Accept(r, i)
  PROVE  Queue!Next
<1> USE DEF IInv, TypeOK, Accept, worker, history
<1>1. status[i] = "absent" /\ request[i] = NoRequest
  BY DEF NextFree, ItemsExist
<1>2. r.key \in Keys \cup {NoKey} /\ r.kind \in Kinds
  BY KindsOfRequests
<1>3. QueueState[i] = "absent"
  BY <1>1 DEF QueueState
<1>4. r.key = NoKey \/ \A j \in Slots : QueueKey[j] # r.key
  BY <1>2, NoneIsNoSlot DEF Known, OneItemPerKey, QueueKey
<1>5. QueueState' = [QueueState EXCEPT ![i] = "queued"]
  BY DEF QueueState
<1>6. QueueKey' = [QueueKey EXCEPT ![i] = r.key]
  BY DEF QueueKey
<1>7. Handed' = Handed
  <2>1. ~Delivered(i)
    BY <1>1 DEF Delivered, NoRequest, Kinds
  <2>2. ~Delivered(i)'
    <3>1. \A p \in Parts : copies[i][p] = 0
      BY <1>1 DEF ItemsExist
    <3>2. \E p \in Parts : p \in PartsOf(r.kind)
      BY <1>2 DEF PartsOf, Kinds, Parts
    <3> QED BY <3>1, <3>2 DEF Delivered
  <2>3. \A j \in Slots \ {i} : Delivered(j)' <=> Delivered(j)
    BY DEF Delivered
  <2> QED BY <2>1, <2>2, <2>3 DEF Handed
<1> QED
  BY <1>2, <1>3, <1>4, <1>5, <1>6, <1>7 DEF Queue!Next, Queue!Accept

LEMMA MapClaim ==
  ASSUME IInv, NEW i \in Slots, ClaimNext(i)
  PROVE  UNCHANGED Queue!vars
<1> USE DEF IInv, TypeOK, ClaimNext, Due
<1>1. QueueState' = QueueState
  BY DEF QueueState
<1>2. QueueKey' = QueueKey /\ Handed' = Handed
  BY DEF QueueKey, Handed, Delivered
<1> QED
  BY <1>1, <1>2 DEF Queue!vars

(* A part taken: the message in flight is handed over, or nothing shows. *)
LEMMA MapCopy ==
  ASSUME IInv, pc \in Parts,
         copies' = [copies EXCEPT ![current][pc] = Bump(@)],
         UNCHANGED <<status, request>>
  PROVE  Queue!Next \/ UNCHANGED Queue!vars
<1> USE DEF IInv, TypeOK
<1>1. /\ current \in Slots /\ status[current] = "sending"
      /\ copies'[current][pc] > 0
      /\ \A i \in Slots, p \in Parts :
           ~(i = current /\ p = pc) => copies'[i][p] = copies[i][p]
  BY CopyTaken
<1>2. PICK c \in Slots : c = current
  BY <1>1
<1>3. QueueState' = QueueState /\ QueueKey' = QueueKey
  BY DEF QueueState, QueueKey
<1>4. \A k \in Kinds : PartsOf(k) \subseteq Parts
  BY DEF PartsOf, Kinds, Parts
<1>5. ASSUME NEW i \in Slots, i # c
      PROVE  Delivered(i)' <=> Delivered(i)
  BY <1>1, <1>2, <1>4, <1>5 DEF Delivered
<1>6. Delivered(c) => Delivered(c)'
  BY <1>1, <1>2, <1>4 DEF Delivered
<1>7. Handed' = Handed \/ Handed' = Handed \cup {c}
  <2>1. CASE Delivered(c)'
    <3>1. \A i \in Slots : Delivered(i)' <=> Delivered(i) \/ i = c
      BY <1>5, <2>1
    <3> QED BY <1>1, <3>1 DEF Handed
  <2>2. CASE ~Delivered(c)'
    <3>1. \A i \in Slots : Delivered(i)' <=> Delivered(i)
      BY <1>5, <1>6, <2>2
    <3> QED BY <3>1 DEF Handed
  <2> QED BY <2>1, <2>2
<1>8. QueueState[c] = "queued"
  BY <1>1, <1>2 DEF QueueState
<1> QED
  BY <1>3, <1>7, <1>8 DEF Queue!Next, Queue!HandOver, Queue!vars

LEMMA MapMarkSent ==
  ASSUME IInv, MarkSent
  PROVE  Queue!Next
<1> USE NoneIsNoSlot DEF IInv, TypeOK, MarkSent
<1>1. current \in Slots /\ status[current] = "sending" /\ Delivered(current)
  BY DEF SendingIsHeld, StepProgress
<1>2. QueueState[current] = "queued" /\ current \in Handed
  BY <1>1 DEF QueueState, Handed
<1>3. QueueState' = [QueueState EXCEPT ![current] = "sent"]
  BY <1>1 DEF QueueState
<1>4. QueueKey' = QueueKey /\ Handed' = Handed
  BY DEF QueueKey, Handed, Delivered
<1> QED
  BY <1>1, <1>2, <1>3, <1>4 DEF Queue!Next, Queue!Confirm

LEMMA MapMarkFailed ==
  ASSUME IInv, MarkFailed
  PROVE  Queue!Next \/ UNCHANGED Queue!vars
<1> USE NoneIsNoSlot DEF IInv, TypeOK, MarkFailed, history
<1>1. current \in Slots /\ status[current] = "sending"
  BY DEF SendingIsHeld
<1>2. QueueKey' = QueueKey /\ Handed' = Handed
  BY DEF QueueKey, Handed, Delivered
<1>3. QueueState[current] = "queued"
  BY <1>1 DEF QueueState
<1>4. CASE status' = [status EXCEPT ![current] = "dead"]
  <2>1. QueueState' = [QueueState EXCEPT ![current] = "dead"]
    BY <1>1, <1>4 DEF QueueState
  <2> QED BY <1>1, <1>2, <1>3, <2>1 DEF Queue!Next, Queue!GiveUp
<1>5. CASE status' = [status EXCEPT ![current] = "pending"]
  <2>1. QueueState' = QueueState
    BY <1>1, <1>5 DEF QueueState
  <2> QED BY <1>2, <2>1 DEF Queue!vars
<1> QED
  BY <1>4, <1>5

LEMMA MapRequeue ==
  ASSUME IInv, NEW i \in Slots, Requeue(i)
  PROVE  Queue!Next \/ UNCHANGED Queue!vars
<1> USE DEF IInv, TypeOK, Requeue, Resendable
<1>1. QueueKey' = QueueKey /\ Handed' = Handed
  BY DEF QueueKey, Handed, Delivered
<1>2. CASE status[i] = "pending"
  <2>1. QueueState' = QueueState
    BY <1>2 DEF QueueState
  <2> QED BY <1>1, <2>1 DEF Queue!vars
<1>3. CASE status[i] \in {"sent", "dead"}
  <2>1. QueueState[i] \in {"sent", "dead"}
    BY <1>3 DEF QueueState
  <2>2. QueueState' = [QueueState EXCEPT ![i] = "queued"]
    BY <1>3 DEF QueueState
  <2> QED BY <1>1, <2>1, <2>2 DEF Queue!Next, Queue!Resend
<1> QED
  BY <1>2, <1>3

LEMMA MapOpen ==
  ASSUME IInv, Open
  PROVE  UNCHANGED Queue!vars
<1> USE DEF IInv, TypeOK, Open, Interrupted
<1>1. QueueState' = QueueState
  BY DEF QueueState
<1>2. QueueKey' = QueueKey /\ Handed' = Handed
  BY DEF QueueKey, Handed, Delivered
<1> QED
  BY <1>1, <1>2 DEF Queue!vars

LEMMA MapStep == IInv /\ [Next]_vars => [Queue!Next]_(Queue!vars)
<1> SUFFICES ASSUME IInv, [Next]_vars PROVE Queue!Next \/ UNCHANGED Queue!vars
  OBVIOUS
<1>1. CASE Enqueue
  <2>1. ASSUME NEW r \in Requests, Deduplicate(r) PROVE UNCHANGED Queue!vars
    BY <2>1, QuietStep DEF Deduplicate, vars, db, history
  <2> QED BY <1>1, <2>1, MapAccept DEF Enqueue
<1>2. CASE \E i \in Slots : Requeue(i)
  BY <1>2, MapRequeue
<1>3. CASE \E i \in Slots : ClaimNext(i)
  BY <1>3, MapClaim
<1>4. CASE SendOk \/ SendUnanswered
  BY <1>4, MapCopy DEF SendOk, SendUnanswered, db
<1>5. CASE MarkSent \/ MarkFailed
  BY <1>5, MapMarkSent, MapMarkFailed
<1>6. CASE Dispatch \/ SendFails("transient") \/ SendFails("permanent") \/ MarkLost
  BY <1>6, QuietStep DEF Dispatch, SendFails, MarkLost, db
<1>7. CASE Open
  BY <1>7, MapOpen
<1>8. CASE Die \/ Connect \/ Disconnect \/ Tick
  BY <1>8, QuietStep DEF Die, Connect, Disconnect, Tick, db, history
<1>9. CASE UNCHANGED vars
  BY <1>9, QuietStep DEF vars, db, history
<1> QED
  BY <1>1, <1>2, <1>3, <1>4, <1>5, <1>6, <1>7, <1>8, <1>9 DEF Next, Work

(* The promise of MessageQueue holds of the outbox: nothing accepted is lost,
   confirmed undelivered, or accepted twice under a key. *)
THEOREM OutboxImplementsQueue == Spec => ImplementsQueue
  BY MapInit, MapStep, Invariance, PTL DEF Spec, ImplementsQueue, Queue!Spec

-----------------------------------------------------------------------------
(* What module Intake assumes of the outbox, where Enqueue stands for the whole
   of it. *)

Items == {i \in Slots : status[i] # "absent"}

(* The keys in the outbox. *)
KeysHeld == {request[i].key : i \in Slots} \ {NoKey}

(* The index of the code finds a key exactly when an item has it. *)
KnownMeansHeld == \A k \in Keys \cup {NoKey} : Known(k) <=> k \in KeysHeld

(* One item more, and its key, if it has one, that no item had. *)
AddsOne ==
  \E i \in Slots, k \in Keys \cup {NoKey} :
    /\ i \notin Items /\ Items' = Items \cup {i}
    /\ k \notin KeysHeld /\ KeysHeld' = KeysHeld \cup ({k} \ {NoKey})

AsIntakeAssumes == [][UNCHANGED <<Items, KeysHeld>> \/ AddsOne]_vars

(* So the decision of Enqueue in Intake, which asks the set of keys, is that of
   the transaction, which asks the index (outbox.go, Enqueue). *)
THEOREM IndexIsExact == Spec => []KnownMeansHeld
<1>1. IInv => KnownMeansHeld
  <2> SUFFICES ASSUME IInv, NEW k \in Keys \cup {NoKey}
               PROVE  Known(k) <=> k \in KeysHeld
    BY DEF KnownMeansHeld
  <2>1. ASSUME Known(k) PROVE k \in KeysHeld
    <3>1. k \in Keys /\ k # NoKey /\ idem[k] \in Slots /\ request[idem[k]].key = k
      BY <2>1 DEF Known, IInv, TypeOK, OneItemPerKey
    <3> QED
      BY <3>1 DEF KeysHeld
  <2>2. ASSUME k \in KeysHeld PROVE Known(k)
    <3>1. PICK i \in Slots : request[i].key = k /\ k # NoKey
      BY <2>2 DEF KeysHeld
    <3>2. idem[k] = i
      BY <3>1 DEF IInv, OneItemPerKey
    <3> QED
      BY <3>1, <3>2, NoneIsNoSlot DEF Known
  <2> QED
    BY <2>1, <2>2
<1> QED
  BY <1>1, Invariance, PTL

(* Items and keys are what the abstract queue shows of them. *)
LEMMA SeenInQueue ==
  /\ Items = {i \in Slots : QueueState[i] # "absent"}
  /\ KeysHeld = {QueueKey[i] : i \in Slots} \ {NoKey}
  /\ Items' = {i \in Slots : QueueState'[i] # "absent"}
  /\ KeysHeld' = {QueueKey'[i] : i \in Slots} \ {NoKey}
<1>1. \A i \in Slots : /\ QueueState[i] # "absent" <=> status[i] # "absent"
                       /\ QueueState'[i] # "absent" <=> status'[i] # "absent"
  BY DEF QueueState
<1>2. \A i \in Slots : QueueKey[i] = request[i].key /\ QueueKey'[i] = request'[i].key
  BY DEF QueueKey
<1> QED
  BY <1>1, <1>2 DEF Items, KeysHeld

LEMMA QueueAcceptAddsOne ==
  ASSUME IInv, NEW i \in Slots, NEW k \in Keys \cup {NoKey}, Queue!Accept(i, k)
  PROVE  AddsOne
<1>1. i \notin Items /\ QueueKey[i] = NoKey
  <2>1. status[i] = "absent"
    BY DEF Queue!Accept, QueueState
  <2>2. request[i] = NoRequest
    BY <2>1 DEF IInv, ItemsExist
  <2> QED
    BY <2>1, <2>2 DEF Items, QueueKey, NoRequest
<1>2. \A j \in Slots : QueueState'[j] = IF j = i THEN "queued" ELSE QueueState[j]
  BY DEF Queue!Accept, QueueState
<1>3. \A j \in Slots : QueueKey'[j] = IF j = i THEN k ELSE QueueKey[j]
  BY DEF Queue!Accept, QueueKey
<1>4. /\ Items' = {j \in Slots : QueueState'[j] # "absent"}
      /\ KeysHeld' = {QueueKey'[j] : j \in Slots} \ {NoKey}
  BY SeenInQueue
<1>5. Items' = Items \cup {i}
  BY <1>2, <1>4, SeenInQueue
<1>6. k \notin KeysHeld
  BY SeenInQueue DEF Queue!Accept
<1>7. KeysHeld' = KeysHeld \cup ({k} \ {NoKey})
  BY <1>1, <1>3, <1>4, SeenInQueue
<1> QED
  BY <1>1, <1>5, <1>6, <1>7 DEF AddsOne

(* No step takes an item or a key out of the outbox or adds two, and one that is
   added has a key no other item has, whatever the worker does meanwhile and
   wherever the process dies (outbox.go, Enqueue and Requeue). *)
THEOREM OutboxIsAsAssumed == Spec => AsIntakeAssumes
<1>1. IInv /\ [Next]_vars => [UNCHANGED <<Items, KeysHeld>> \/ AddsOne]_vars
  <2> SUFFICES ASSUME IInv, [Next]_vars
               PROVE  UNCHANGED <<Items, KeysHeld>> \/ AddsOne
    OBVIOUS
  <2>1. ASSUME UNCHANGED <<Items, QueueKey>> PROVE UNCHANGED <<Items, KeysHeld>>
    BY <2>1, SeenInQueue
  <2>2. CASE UNCHANGED Queue!vars
    BY <2>2, SeenInQueue DEF Queue!vars
  <2>3. CASE Queue!Next
    <3>1. PICK i \in Slots :
            \/ \E k \in Keys \cup {NoKey} : Queue!Accept(i, k)
            \/ Queue!HandOver(i) \/ Queue!Confirm(i) \/ Queue!GiveUp(i) \/ Queue!Resend(i)
      BY <2>3 DEF Queue!Next
    <3>2. CASE \E k \in Keys \cup {NoKey} : Queue!Accept(i, k)
      BY <3>2, QueueAcceptAddsOne
    <3>3. CASE Queue!HandOver(i)
      BY <3>3, SeenInQueue DEF Queue!HandOver
    <3>4. CASE Queue!Confirm(i) \/ Queue!GiveUp(i) \/ Queue!Resend(i)
      <4>1. UNCHANGED QueueKey
        BY <3>4 DEF Queue!Confirm, Queue!GiveUp, Queue!Resend
      <4>2. \A j \in Slots : QueueState'[j] # "absent" <=> QueueState[j] # "absent"
        BY <3>4 DEF Queue!Confirm, Queue!GiveUp, Queue!Resend, QueueState
      <4>3. Items' = {j \in Slots : QueueState'[j] # "absent"}
        BY SeenInQueue
      <4>4. UNCHANGED Items
        BY <4>2, <4>3, SeenInQueue
      <4> QED
        BY <4>1, <4>4, <2>1
    <3> QED
      BY <3>1, <3>2, <3>3, <3>4
  <2> QED
    BY <2>2, <2>3, MapStep
<1> QED
  BY <1>1, Invariance, PTL DEF Spec, AsIntakeAssumes

=============================================================================
