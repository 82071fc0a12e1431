---------------------------- MODULE BridgeProofs ----------------------------
(* Backend-Bridge, for any requests, chats, messages and settings.

   BridgeSender: receipts go out at least MinGap minutes apart, each receipt
   told "queued" is accounted for, and nothing is sent twice without a failure
   to blame.
   BridgeStore: no message is forgotten without an excuse, and the name a chat
   was first given stays unless two handlers raced for it or a look-up of it
   failed.
   BridgeStartup: settings are used together or not at all, and the API is
   served only for an account.
   MCBridge: all of it at once, for any part that moves while the others stay. *)
EXTENDS MCBridge, TLAPS

(***************************************************************************)
(* BridgeSender                                                            *)
(***************************************************************************)

-----------------------------------------------------------------------------
(* The channel, as a set that holds nothing twice. *)

In(q, r) == \E i \in DOMAIN q : q[i] = r

Once(q) == \A i, j \in DOMAIN q : q[i] = q[j] => i = j

(* A job put at the end of the channel. *)
LEMMA AppendIn ==
  ASSUME NEW S, NEW q \in Seq(S), NEW x \in S
  PROVE  /\ \A r : In(Append(q, x), r) <=> In(q, r) \/ r = x
         /\ Once(q) /\ ~In(q, x) => Once(Append(q, x))
<1>1. /\ Len(Append(q, x)) = Len(q) + 1
      /\ DOMAIN q = 1..Len(q) /\ DOMAIN Append(q, x) = 1..Len(q) + 1
      /\ \A i \in 1..Len(q) : Append(q, x)[i] = q[i]
      /\ Append(q, x)[Len(q) + 1] = x
      /\ Len(q) \in Nat
  OBVIOUS
<1>2. ASSUME NEW r PROVE In(Append(q, x), r) <=> In(q, r) \/ r = x
  <2>1. ASSUME In(Append(q, x), r), r # x PROVE In(q, r)
    <3>1. PICK i \in 1..Len(q) + 1 : Append(q, x)[i] = r
      BY <1>1, <2>1 DEF In
    <3>2. i \in 1..Len(q)
      BY <1>1, <2>1, <3>1
    <3> QED BY <1>1, <3>1, <3>2 DEF In
  <2>2. ASSUME In(q, r) PROVE In(Append(q, x), r)
    BY <1>1, <2>2 DEF In
  <2>3. In(Append(q, x), x)
    BY <1>1 DEF In
  <2> QED BY <2>1, <2>2, <2>3
<1>3. ASSUME Once(q), ~In(q, x) PROVE Once(Append(q, x))
  <2> SUFFICES ASSUME NEW i \in 1..Len(q) + 1, NEW j \in 1..Len(q) + 1,
                      Append(q, x)[i] = Append(q, x)[j]
               PROVE  i = j
    BY <1>1 DEF Once
  <2>1. CASE i \in 1..Len(q) /\ j \in 1..Len(q)
    BY <1>1, <1>3, <2>1 DEF Once
  <2>2. CASE i = Len(q) + 1
    BY <1>1, <1>3, <2>2 DEF In
  <2>3. CASE j = Len(q) + 1
    BY <1>1, <1>3, <2>3 DEF In
  <2> QED BY <1>1, <2>1, <2>2, <2>3
<1> QED BY <1>2, <1>3

(* The job taken from its head. *)
LEMMA TailIn ==
  ASSUME NEW S, NEW q \in Seq(S), q # <<>>
  PROVE  /\ Head(q) \in S /\ Tail(q) \in Seq(S) /\ Len(Tail(q)) = Len(q) - 1
         /\ \A r : In(q, r) <=> r = Head(q) \/ In(Tail(q), r)
         /\ Once(q) => Once(Tail(q)) /\ ~In(Tail(q), Head(q))
<1>1. /\ Len(q) \in Nat \ {0} /\ Len(Tail(q)) = Len(q) - 1
      /\ DOMAIN q = 1..Len(q) /\ DOMAIN Tail(q) = 1..Len(q) - 1
      /\ \A i \in 1..Len(q) - 1 : Tail(q)[i] = q[i + 1]
      /\ Head(q) = q[1] /\ Head(q) \in S /\ Tail(q) \in Seq(S)
  OBVIOUS
<1>2. ASSUME NEW r PROVE In(q, r) <=> r = Head(q) \/ In(Tail(q), r)
  <2>1. ASSUME In(q, r), r # Head(q) PROVE In(Tail(q), r)
    <3>1. PICK i \in 1..Len(q) : q[i] = r
      BY <1>1, <2>1 DEF In
    <3>2. i - 1 \in 1..Len(q) - 1 /\ (i - 1) + 1 = i
      BY <1>1, <2>1, <3>1
    <3> QED BY <1>1, <3>1, <3>2 DEF In
  <2>2. ASSUME In(Tail(q), r) PROVE In(q, r)
    <3>1. PICK i \in 1..Len(q) - 1 : Tail(q)[i] = r
      BY <1>1, <2>2 DEF In
    <3>2. i + 1 \in 1..Len(q) /\ q[i + 1] = r
      BY <1>1, <3>1
    <3> QED BY <1>1, <3>2 DEF In
  <2>3. In(q, Head(q))
    BY <1>1 DEF In
  <2> QED BY <2>1, <2>2, <2>3
<1>3. ASSUME Once(q) PROVE Once(Tail(q)) /\ ~In(Tail(q), Head(q))
  <2>1. \A i \in 1..Len(q) - 1 : i + 1 \in 1..Len(q) /\ i + 1 # 1
    BY <1>1
  <2>2. Once(Tail(q))
    <3> SUFFICES ASSUME NEW i \in 1..Len(q) - 1, NEW j \in 1..Len(q) - 1,
                        Tail(q)[i] = Tail(q)[j]
                 PROVE  i = j
      BY <1>1 DEF Once
    <3>1. q[i + 1] = q[j + 1]
      BY <1>1
    <3>2. i + 1 = j + 1
      BY <1>1, <1>3, <2>1, <3>1 DEF Once
    <3> QED BY <3>2
  <2>3. ~In(Tail(q), Head(q))
    <3> SUFFICES ASSUME NEW i \in 1..Len(q) - 1, Tail(q)[i] = Head(q)
                 PROVE  FALSE
      BY <1>1 DEF In
    <3>1. q[i + 1] = q[1]
      BY <1>1
    <3> QED BY <1>1, <1>3, <2>1, <3>1 DEF Once
  <2> QED BY <2>2, <2>3
<1> QED BY <1>1, <1>2, <1>3

-----------------------------------------------------------------------------
(* The inductive invariant. *)

(* The worker has a job while it sends, and only receipts get to it. *)
ReceiptsOnly ==
  /\ worker \in {"file", "text"} <=> job \in Requests
  /\ job \in Requests => IsReceipt(job)
  /\ \A r \in Requests : In(queue, r) => IsReceipt(r)

(* No receipt is in memory twice. *)
HeldOnce == Once(queue) /\ ~In(queue, job)

(* When the worker sends a receipt, or rests, enough time has passed or will
   have passed when it wakes. *)
Rested ==
  /\ worker \in {"idle", "file"} => apart >= MinGap
  /\ worker = "rest" => apart + rest >= MinGap

(* A handler that is at work has not answered; receipts are for the worker. *)
CallsOpen ==
  \A r \in Requests : call[r] # "idle" =>
    /\ answer[r] \notin {"sent", "queued"}
    /\ ~IsReceipt(r)
    /\ call[r] = "file" => Endpoint[r] # "send-message"
    /\ call[r] = "text" => Endpoint[r] # "send-file"

(* How far a receipt has got. *)
ReceiptSends ==
  \A r \in Requests : IsReceipt(r) =>
    /\ answer[r] # "sent"
    /\ files[r] <= 1 /\ texts[r] <= 1
    /\ queued[r] = 0 \/ In(queue, r) => files[r] = 0 /\ texts[r] = 0
    /\ job = r => texts[r] = 0 /\ (worker = "file" => files[r] = 0)

Due(need) == IF need THEN 1 ELSE 0

(* How far a request has got that its handler sends. *)
HandlerSends ==
  \A r \in Requests \ blamed : ~IsReceipt(r) =>
    /\ texts[r] = IF answer[r] = "sent" THEN Due(NeedsText(r)) ELSE 0
    /\ files[r] = IF answer[r] = "sent" \/ call[r] = "text"
                    THEN Due(NeedsFile(r)) ELSE 0

SenderInv ==
  /\ SenderTypeOK
  /\ ReceiptsOnly
  /\ HeldOnce
  /\ Rested
  /\ CallsOpen
  /\ QueuedAccounted
  /\ ReceiptSends
  /\ HandlerSends

LEMMA InMemoryIn == \A r : InMemory(r) <=> job = r \/ In(queue, r)
BY DEF InMemory, In

LEMMA InType ==
  ASSUME NEW r, queue \in Seq(Requests), In(queue, r) PROVE r \in Requests
<1>1. PICK i \in DOMAIN queue : queue[i] = r
  BY DEF In
<1>2. DOMAIN queue = 1..Len(queue) /\ \A k \in 1..Len(queue) : queue[k] \in Requests
  OBVIOUS
<1> QED BY <1>1, <1>2

LEMMA InEmpty == Once(<<>>) /\ \A r : ~In(<<>>, r)
BY DEF In, Once

LEMMA SenderInitInv ==
  ASSUME SenderInit PROVE SenderInv
<1> USE BridgeSenderAssumption DEF SenderInit, Zero
<1>1. Once(queue) /\ \A r : ~In(queue, r)
  BY InEmpty
<1>2. SenderTypeOK
  BY DEF SenderTypeOK, WorkerSteps, Answers
<1>3. ReceiptsOnly /\ Rested /\ CallsOpen /\ ReceiptSends
  BY <1>1 DEF ReceiptsOnly, Rested, CallsOpen, ReceiptSends
<1>4. HeldOnce
  BY <1>1 DEF HeldOnce
<1>5. QueuedAccounted
  <2> SUFFICES ASSUME NEW r \in Requests
               PROVE  /\ queued[r] = worked[r] + lost[r]
                                       + (IF InMemory(r) THEN 1 ELSE 0)
                      /\ answer[r] = "queued" => queued[r] = 1
                      /\ answer[r] # "queued" => queued[r] = 0
    BY DEF QueuedAccounted
  <2>1. ~InMemory(r)
    BY <1>1, InMemoryIn
  <2> QED BY <2>1
<1>6. HandlerSends
  BY DEF HandlerSends
<1> QED BY <1>2, <1>3, <1>4, <1>5, <1>6 DEF SenderInv

-----------------------------------------------------------------------------
(* Types. *)

LEMMA TookType ==
  ASSUME NEW count \in [Requests -> Nat], NEW r \in Requests, NEW o,
         NEW after, after = IF o = "failed" THEN count
                                            ELSE [count EXCEPT ![r] = @ + 1]
  PROVE  after \in [Requests -> Nat]
OBVIOUS

LEMMA BumpType ==
  ASSUME NEW count \in [Requests -> Nat], NEW r \in Requests
  PROVE  [count EXCEPT ![r] = @ + 1] \in [Requests -> Nat]
OBVIOUS

LEMMA WorkerRestsType ==
  ASSUME SenderTypeOK, job \in Requests, WorkerRests
  PROVE  /\ worker' \in WorkerSteps /\ job' \in Requests \cup {NoJob}
         /\ worked' \in [Requests -> Nat] /\ rest' \in 0..MaxGap
BY BridgeSenderAssumption
   DEF SenderTypeOK, WorkerRests, NextReceiptDelay, WorkerSteps

LEMMA PostFileType ==
  ASSUME SenderTypeOK, NEW r \in Requests, NEW p, PostFile(r, p)
  PROVE  SenderTypeOK'
<1>1. /\ tries' = [tries EXCEPT ![r] = @ + 1]
      /\ UNCHANGED <<worker, job, rest, apart, files, texts, worked, lost, blamed>>
  BY DEF PostFile
<1>2. call' = call \/ call' = [call EXCEPT ![r] = "file"]
  BY DEF PostFile, At
<1>3. answer' = answer \/ \E a \in Answers : answer' = [answer EXCEPT ![r] = a]
  BY DEF PostFile, QueueReceipt, Answered, Answers
<1>4. /\ queued' = queued \/ queued' = [queued EXCEPT ![r] = @ + 1]
      /\ queue' = queue \/ (HasRoom /\ queue' = Append(queue, r))
  BY DEF PostFile, QueueReceipt
<1>5. queue' \in Seq(Requests) /\ Len(queue') <= QueueCap
  <2>1. CASE queue' = queue
    BY <2>1 DEF SenderTypeOK
  <2>2. CASE HasRoom /\ queue' = Append(queue, r)
    <3>1. Len(queue) + 1 <= QueueCap
      BY <2>2, BridgeSenderAssumption DEF HasRoom, SenderTypeOK
    <3>2. queue \in Seq(Requests)
      BY DEF SenderTypeOK
    <3> QED BY <2>2, <3>1, <3>2
  <2> QED BY <1>4, <2>1, <2>2
<1>6. tries' \in [Requests -> Nat] /\ queued' \in [Requests -> Nat]
  <2>1. tries \in [Requests -> Nat] /\ queued \in [Requests -> Nat]
    BY DEF SenderTypeOK
  <2>2. tries' \in [Requests -> Nat]
    BY <1>1, <2>1, BumpType
  <2>3. [queued EXCEPT ![r] = @ + 1] \in [Requests -> Nat]
    BY <2>1, BumpType
  <2> QED BY <1>4, <2>1, <2>2, <2>3
<1>7. /\ call' \in [Requests -> {"idle", "file", "text"}]
      /\ answer' \in [Requests -> Answers]
  BY <1>2, <1>3 DEF SenderTypeOK
<1> QED BY <1>1, <1>5, <1>6, <1>7 DEF SenderTypeOK

LEMMA CallType ==
  ASSUME SenderTypeOK, NEW r \in Requests, NEW o \in Outcomes,
         CallFile(r, o) \/ CallText(r, o)
  PROVE  SenderTypeOK'
<1>1. \/ CallFile(r, o) /\ texts' = texts
      \/ CallText(r, o) /\ files' = files
  BY DEF CallFile, CallText
<1>2. files' \in [Requests -> Nat] /\ texts' \in [Requests -> Nat]
  BY <1>1, TookType DEF CallFile, CallText, Took, SenderTypeOK
<1>3. call' \in [Requests -> {"idle", "file", "text"}]
  BY DEF CallFile, CallText, At, SenderTypeOK
<1>4. answer' \in [Requests -> Answers]
  BY DEF CallFile, CallText, Answered, Answers, SenderTypeOK
<1>5. blamed' \in SUBSET Requests
  BY DEF CallFile, CallText, SenderTypeOK
<1>6. UNCHANGED <<queue, worker, job, rest, apart, tries, queued, worked, lost>>
  BY DEF CallFile, CallText
<1> QED BY <1>2, <1>3, <1>4, <1>5, <1>6 DEF SenderTypeOK

LEMMA WorkType ==
  ASSUME SenderTypeOK, ReceiptsOnly, NEW o \in Outcomes,
         WorkerFile(o) \/ WorkerText(o)
  PROVE  SenderTypeOK'
<1>1. job \in Requests
  BY DEF WorkerFile, WorkerText, ReceiptsOnly
<1>2. CASE WorkerFile(o)
  <2>1. files' \in [Requests -> Nat] /\ apart' \in 0..MaxGap
    BY <1>1, <1>2, BridgeSenderAssumption, TookType
       DEF WorkerFile, Took, SenderTypeOK
  <2>2. /\ worker' \in WorkerSteps /\ job' \in Requests \cup {NoJob}
        /\ worked' \in [Requests -> Nat] /\ rest' \in 0..MaxGap
    BY <1>1, <1>2, WorkerRestsType DEF WorkerFile, SenderTypeOK, WorkerSteps
  <2> QED BY <1>2, <2>1, <2>2 DEF WorkerFile, SenderTypeOK
<1>3. CASE WorkerText(o)
  <2>1. texts' \in [Requests -> Nat]
    BY <1>1, <1>3, TookType DEF WorkerText, Took, SenderTypeOK
  <2>2. /\ worker' \in WorkerSteps /\ job' \in Requests \cup {NoJob}
        /\ worked' \in [Requests -> Nat] /\ rest' \in 0..MaxGap
    BY <1>1, <1>3, WorkerRestsType DEF WorkerText
  <2> QED BY <1>3, <2>1, <2>2 DEF WorkerText, SenderTypeOK
<1> QED BY <1>2, <1>3

LEMMA SenderTypeStep ==
  ASSUME SenderTypeOK, ReceiptsOnly, [SenderNext]_senderVars
  PROVE  SenderTypeOK'
<1> USE BridgeSenderAssumption
<1>1. ASSUME NEW r \in Requests, PostMessage(r) PROVE SenderTypeOK'
  <2>1. tries' \in [Requests -> Nat]
    BY <1>1, BumpType DEF PostMessage, SenderTypeOK
  <2>2. /\ call' \in [Requests -> {"idle", "file", "text"}]
        /\ answer' \in [Requests -> Answers]
    BY <1>1 DEF PostMessage, SenderTypeOK, Answered, At, Answers
  <2> QED BY <1>1, <2>1, <2>2 DEF PostMessage, SenderTypeOK
<1>2. CASE WorkerTakes
  <2>1. queue \in Seq(Requests) /\ Len(queue) \in Nat
    BY DEF SenderTypeOK
  <2>2. /\ job' \in Requests /\ queue' \in Seq(Requests)
        /\ Len(queue') = Len(queue) - 1
    BY <1>2, <2>1, TailIn DEF WorkerTakes
  <2>3. Len(queue') <= QueueCap
    BY <2>1, <2>2 DEF SenderTypeOK
  <2> QED BY <1>2, <2>2, <2>3 DEF WorkerTakes, SenderTypeOK, WorkerSteps
<1>3. CASE WorkerWakes
  BY <1>3 DEF WorkerWakes, SenderTypeOK, WorkerSteps
<1>4. CASE Minute
  BY <1>4 DEF Minute, SenderTypeOK
<1>5. CASE Restart
  <2>1. lost' \in [Requests -> Nat]
    <3>1. lost' = [r \in Requests |->
                     IF InMemory(r) THEN lost[r] + 1 ELSE lost[r]]
      BY <1>5 DEF Restart
    <3>2. ASSUME NEW r \in Requests
          PROVE  (IF InMemory(r) THEN lost[r] + 1 ELSE lost[r]) \in Nat
      BY DEF SenderTypeOK
    <3> QED BY <3>1, <3>2
  <2>2. answer' \in [Requests -> Answers]
    BY <1>5 DEF Restart, SenderTypeOK, Answers
  <2>3. queue' \in Seq(Requests) /\ Len(queue') <= QueueCap
    <3>1. queue' = <<>> /\ Len(queue') = 0
      BY <1>5 DEF Restart
    <3> QED BY <3>1
  <2>4. /\ worker' \in WorkerSteps /\ job' \in Requests \cup {NoJob}
        /\ rest' \in 0..MaxGap /\ apart' \in 0..MaxGap
    BY <1>5 DEF Restart, WorkerSteps
  <2>5. /\ call' \in [Requests -> {"idle", "file", "text"}]
        /\ blamed' \in SUBSET Requests
    BY <1>5 DEF Restart, SenderTypeOK
  <2>6. UNCHANGED <<tries, files, texts, queued, worked>>
    BY <1>5 DEF Restart
  <2> QED BY <2>1, <2>2, <2>3, <2>4, <2>5, <2>6 DEF SenderTypeOK
<1>6. CASE UNCHANGED senderVars
  BY <1>6 DEF senderVars, SenderTypeOK
<1> QED BY <1>1, <1>2, <1>3, <1>4, <1>5, <1>6, PostFileType, CallType, WorkType
        DEF SenderNext

-----------------------------------------------------------------------------
(* What the worker may hold, and the gap it keeps. *)

LEMMA ReceiptsOnlyStep ==
  ASSUME SenderTypeOK, ReceiptsOnly, [SenderNext]_senderVars
  PROVE  ReceiptsOnly'
<1> USE BridgeSenderAssumption
<1>1. ASSUME NEW r \in Requests, NEW p \in Paths, PostFile(r, p)
      PROVE  ReceiptsOnly'
  <2>1. UNCHANGED <<worker, job>>
    BY <1>1 DEF PostFile
  <2>2. queue' = queue \/ (queue' = Append(queue, r) /\ IsReceipt(r))
    BY <1>1 DEF PostFile, QueueReceipt
  <2>3. ASSUME NEW x \in Requests, In(queue', x) PROVE IsReceipt(x)
    <3>1. queue \in Seq(Requests)
      BY DEF SenderTypeOK
    <3>2. In(queue, x) \/ (x = r /\ IsReceipt(r))
      <4>1. In(Append(queue, r), x) => In(queue, x) \/ x = r
        BY <3>1, AppendIn
      <4> QED BY <2>2, <2>3, <4>1
    <3> QED BY <3>2 DEF ReceiptsOnly
  <2> QED BY <2>1, <2>3 DEF ReceiptsOnly
<1>2. CASE WorkerTakes
  <2>1. Head(queue) \in Requests /\ \A x : In(queue', x) => In(queue, x)
    BY <1>2, TailIn DEF WorkerTakes, SenderTypeOK
  <2>2. In(queue, Head(queue))
    BY <1>2, TailIn DEF WorkerTakes, SenderTypeOK
  <2> QED BY <1>2, <2>1, <2>2 DEF WorkerTakes, ReceiptsOnly
<1>3. ASSUME NEW o \in Outcomes, WorkerFile(o) \/ WorkerText(o)
      PROVE  ReceiptsOnly'
  <2>1. queue' = queue
    BY <1>3 DEF WorkerFile, WorkerText
  <2>2. worker' \in {"file", "text"} <=> job' \in Requests
    BY <1>3 DEF WorkerFile, WorkerText, WorkerRests, ReceiptsOnly
  <2>3. job' \in {job, NoJob}
    BY <1>3 DEF WorkerFile, WorkerText, WorkerRests
  <2> QED BY <2>1, <2>2, <2>3 DEF ReceiptsOnly
<1>4. CASE WorkerWakes
  BY <1>4 DEF WorkerWakes, ReceiptsOnly
<1>5. CASE Restart
  BY <1>5, InEmpty DEF Restart, ReceiptsOnly
<1>6. CASE UNCHANGED <<queue, worker, job>>
  BY <1>6 DEF ReceiptsOnly
<1> QED BY <1>1, <1>2, <1>3, <1>4, <1>5, <1>6
        DEF SenderNext, senderVars, PostMessage, CallFile, CallText, Minute

LEMMA RestedStep ==
  ASSUME SenderTypeOK, Rested, [SenderNext]_senderVars
  PROVE  Rested'
<1> USE BridgeSenderAssumption DEF SenderTypeOK, Rested
<1>1. ASSUME NEW o \in Outcomes, WorkerFile(o) PROVE Rested'
  BY <1>1 DEF WorkerFile, WorkerRests, NextReceiptDelay
<1>2. ASSUME NEW o \in Outcomes, WorkerText(o) PROVE Rested'
  <2>1. worker' = "rest" /\ rest' \in MinGap..MaxGap /\ apart' = apart
    BY <1>2 DEF WorkerText, WorkerRests, NextReceiptDelay
  <2>2. apart \in Nat /\ rest' \in Nat /\ rest' >= MinGap
    BY <2>1
  <2>3. \A a, b \in Nat : b >= MinGap => a + b >= MinGap
    OBVIOUS
  <2>4. apart' + rest' >= MinGap
    BY <2>1, <2>2, <2>3
  <2> QED BY <2>1, <2>4
<1>3. CASE WorkerTakes
  BY <1>3 DEF WorkerTakes
<1>4. CASE WorkerWakes
  BY <1>4 DEF WorkerWakes
<1>5. CASE Minute
  BY <1>5 DEF Minute
<1>6. CASE Restart
  BY <1>6 DEF Restart
<1>7. CASE UNCHANGED <<worker, rest, apart>>
  BY <1>7
<1> QED BY <1>1, <1>2, <1>3, <1>4, <1>5, <1>6, <1>7
        DEF SenderNext, senderVars, PostMessage, PostFile, CallFile, CallText

LEMMA CallsOpenStep ==
  ASSUME SenderTypeOK, CallsOpen, [SenderNext]_senderVars
  PROVE  CallsOpen'
<1> USE DEF SenderTypeOK, CallsOpen
<1>1. ASSUME NEW r \in Requests, PostMessage(r) PROVE CallsOpen'
  BY <1>1 DEF PostMessage, MayPost, Answered, At, IsReceipt
<1>2. ASSUME NEW r \in Requests, NEW p \in Paths, PostFile(r, p)
      PROVE  CallsOpen'
  <2>1. CASE UNCHANGED call
    <3>1. call[r] = "idle" /\ \A x \in Requests \ {r} : answer'[x] = answer[x]
      BY <1>2 DEF PostFile, MayPost, QueueReceipt, Answered, At
    <3> QED BY <2>1, <3>1
  <2>2. CASE ~IsReceipt(r) /\ At(r, "file") /\ UNCHANGED answer
    BY <1>2, <2>2 DEF PostFile, MayPost, At
  <2> QED BY <1>2, <2>1, <2>2 DEF PostFile
<1>3. ASSUME NEW r \in Requests, NEW o \in Outcomes, CallFile(r, o)
      PROVE  CallsOpen'
  BY <1>3 DEF CallFile, Answered, At
<1>4. ASSUME NEW r \in Requests, NEW o \in Outcomes, CallText(r, o)
      PROVE  CallsOpen'
  BY <1>4 DEF CallText, Answered, At
<1>5. CASE Restart
  BY <1>5 DEF Restart
<1>6. CASE UNCHANGED <<call, answer>>
  BY <1>6
<1> QED BY <1>1, <1>2, <1>3, <1>4, <1>5, <1>6
        DEF SenderNext, senderVars, WorkerTakes, WorkerFile, WorkerText,
            WorkerWakes, Minute

-----------------------------------------------------------------------------
(* The accounts of the receipts. *)

LEMMA InMemoryInNext == \A r : InMemory(r)' <=> job' = r \/ In(queue', r)
BY DEF InMemory, In

(* A receipt that is not queued has left no trace. *)
LEMMA FreshPost ==
  ASSUME SenderTypeOK, QueuedAccounted, NEW r \in Requests, answer[r] # "queued"
  PROVE  /\ job # r /\ ~In(queue, r)
         /\ queued[r] = 0 /\ worked[r] = 0 /\ lost[r] = 0
<1>1. /\ queued[r] = worked[r] + lost[r] + (IF InMemory(r) THEN 1 ELSE 0)
      /\ queued[r] = 0
  BY DEF QueuedAccounted
<1>2. worked[r] \in Nat /\ lost[r] \in Nat
  BY DEF SenderTypeOK
<1>3. CASE InMemory(r)
  BY <1>1, <1>2, <1>3
<1>4. CASE ~InMemory(r)
  <2>1. job # r /\ ~In(queue, r)
    BY <1>4, InMemoryIn
  <2> QED BY <1>1, <1>2, <1>4, <2>1
<1> QED BY <1>3, <1>4

(* One that is in memory was queued. *)
LEMMA HeldWasQueued ==
  ASSUME SenderTypeOK, QueuedAccounted, NEW r \in Requests,
         job = r \/ In(queue, r)
  PROVE  queued[r] # 0
<1>1. answer[r] # "queued" => job # r /\ ~In(queue, r)
  BY FreshPost
<1> QED BY <1>1 DEF QueuedAccounted

(* What PostFile does to the accounts. *)
LEMMA PostFileCases ==
  ASSUME SenderTypeOK, NEW r \in Requests, NEW p, PostFile(r, p)
  PROVE  /\ UNCHANGED <<worker, job, files, texts, worked, lost, blamed>>
         /\ call[r] = "idle" /\ answer[r] \notin {"sent", "queued"}
         /\ \/ /\ UNCHANGED <<queue, queued>>
               /\ \/ UNCHANGED answer
                  \/ \E a \in {"refused", "full"} :
                       answer' = [answer EXCEPT ![r] = a]
            \/ /\ IsReceipt(r)
               /\ queue' = Append(queue, r)
               /\ queued' = [queued EXCEPT ![r] = @ + 1]
               /\ answer' = [answer EXCEPT ![r] = "queued"]
BY DEF PostFile, MayPost, QueueReceipt, Answered

(* The worker goes on with its job, or is done with it. *)
LEMMA WorkCases ==
  ASSUME NEW o \in Outcomes, WorkerFile(o) \/ WorkerText(o)
  PROVE  /\ UNCHANGED <<queue, call, answer, queued, lost, blamed>>
         /\ \/ UNCHANGED <<job, worked>> /\ worker = "file" /\ worker' = "text"
            \/ /\ job' = NoJob
               /\ worked' = [worked EXCEPT ![job] = @ + 1]
BY DEF WorkerFile, WorkerText, WorkerRests

LEMMA HeldOnceStep ==
  ASSUME SenderTypeOK, ReceiptsOnly, QueuedAccounted, HeldOnce,
         [SenderNext]_senderVars
  PROVE  HeldOnce'
<1>1. queue \in Seq(Requests) /\ ~In(queue, NoJob)
  BY InType, BridgeSenderAssumption DEF SenderTypeOK
<1>2. ASSUME NEW r \in Requests, NEW p \in Paths, PostFile(r, p)
      PROVE  HeldOnce'
  <2>1. job' = job /\ answer[r] # "queued"
    BY <1>2, PostFileCases
  <2>2. CASE queue' = queue
    BY <2>1, <2>2 DEF HeldOnce
  <2>3. CASE queue' = Append(queue, r)
    <3>1. job # r /\ ~In(queue, r)
      BY <2>1, FreshPost
    <3>2. Once(Append(queue, r)) /\ ~In(Append(queue, r), job)
      BY <1>1, <3>1, AppendIn DEF HeldOnce
    <3> QED BY <2>1, <2>3, <3>2 DEF HeldOnce
  <2> QED BY <1>2, <2>2, <2>3, PostFileCases
<1>3. CASE WorkerTakes
  <2>1. queue # <<>> /\ job' = Head(queue) /\ queue' = Tail(queue)
    BY <1>3 DEF WorkerTakes
  <2>2. Once(Tail(queue)) /\ ~In(Tail(queue), Head(queue))
    BY <1>1, <2>1, TailIn DEF HeldOnce
  <2> QED BY <2>1, <2>2 DEF HeldOnce
<1>4. ASSUME NEW o \in Outcomes, WorkerFile(o) \/ WorkerText(o)
      PROVE  HeldOnce'
  <2>1. queue' = queue /\ job' \in {job, NoJob}
    BY <1>4, WorkCases
  <2> QED BY <1>1, <2>1 DEF HeldOnce
<1>5. CASE Restart
  <2>1. queue' = <<>>
    BY <1>5 DEF Restart
  <2> QED BY <2>1, InEmpty DEF HeldOnce
<1>6. CASE UNCHANGED <<queue, job>>
  BY <1>6 DEF HeldOnce
<1> QED BY <1>2, <1>3, <1>4, <1>5, <1>6
        DEF SenderNext, senderVars, PostMessage, CallFile, CallText,
            WorkerWakes, Minute

Account(r) ==
  /\ queued[r] = worked[r] + lost[r] + (IF InMemory(r) THEN 1 ELSE 0)
  /\ answer[r] = "queued" => queued[r] = 1
  /\ answer[r] # "queued" => queued[r] = 0

LEMMA AccountStep ==
  ASSUME SenderTypeOK, SenderTypeOK', ReceiptsOnly, HeldOnce, CallsOpen,
         QueuedAccounted, [SenderNext]_senderVars
  PROVE  QueuedAccounted'
<1> USE BridgeSenderAssumption
<1>1. \A x \in Requests : Account(x)
  BY DEF QueuedAccounted, Account
<1> SUFFICES ASSUME NEW x \in Requests PROVE Account(x)'
  BY DEF QueuedAccounted, Account
<1>2. /\ queued[x] \in Nat /\ worked[x] \in Nat /\ lost[x] \in Nat
      /\ queue \in Seq(Requests)
  BY DEF SenderTypeOK
<1>3. ASSUME UNCHANGED <<queued, worked, lost>>, InMemory(x)' <=> InMemory(x),
             answer'[x] = "queued" <=> answer[x] = "queued"
      PROVE  Account(x)'
  BY <1>1, <1>3 DEF Account
<1>4. ASSUME NEW r \in Requests, PostMessage(r) PROVE Account(x)'
  <2>1. answer'[x] = "queued" <=> answer[x] = "queued"
    BY <1>4 DEF PostMessage, MayPost, Answered, SenderTypeOK
  <2>2. InMemory(x)' <=> InMemory(x)
    BY <1>4, InMemoryIn, InMemoryInNext DEF PostMessage
  <2> QED BY <1>3, <1>4, <2>1, <2>2 DEF PostMessage
<1>5. ASSUME NEW r \in Requests, NEW p \in Paths, PostFile(r, p)
      PROVE  Account(x)'
  <2>1. /\ UNCHANGED <<job, worked, lost>>
        /\ answer[r] # "queued"
    BY <1>5, PostFileCases
  <2>2. CASE UNCHANGED <<queue, queued>>
    <3>1. answer'[x] = "queued" <=> answer[x] = "queued"
      <4>1. CASE UNCHANGED answer
        BY <4>1
      <4>2. CASE \E a \in {"refused", "full"} :
                   answer' = [answer EXCEPT ![r] = a]
        BY <2>1, <4>2 DEF SenderTypeOK
      <4>3. CASE queue' = Append(queue, r)
        BY <1>2, <2>2, <4>3
      <4> QED BY <1>5, <4>1, <4>2, <4>3, PostFileCases
    <3>2. InMemory(x)' <=> InMemory(x)
      BY <2>1, <2>2, InMemoryIn, InMemoryInNext
    <3> QED BY <1>3, <2>1, <2>2, <3>1, <3>2
  <2>3. CASE /\ queue' = Append(queue, r)
             /\ queued' = [queued EXCEPT ![r] = @ + 1]
             /\ answer' = [answer EXCEPT ![r] = "queued"]
    <3>1. In(queue', x) <=> In(queue, x) \/ x = r
      BY <1>2, <2>3, AppendIn
    <3>2. CASE x = r
      <4>1. queued[x] = 0 /\ worked[x] = 0 /\ lost[x] = 0
        BY <2>1, <3>2, FreshPost
      <4>2. InMemory(x)'
        BY <3>1, <3>2, InMemoryInNext
      <4>3. queued'[x] = 1 /\ answer'[x] = "queued"
        BY <2>3, <3>2, <4>1 DEF SenderTypeOK
      <4> QED BY <2>1, <4>1, <4>2, <4>3 DEF Account
    <3>3. CASE x # r
      <4>1. InMemory(x)' <=> InMemory(x)
        BY <2>1, <3>1, <3>3, InMemoryIn, InMemoryInNext
      <4>2. queued'[x] = queued[x] /\ answer'[x] = answer[x]
        BY <2>3, <3>3 DEF SenderTypeOK
      <4> QED BY <1>1, <2>1, <4>1, <4>2 DEF Account
    <3> QED BY <3>2, <3>3
  <2> QED BY <1>5, <2>2, <2>3, PostFileCases
<1>6. ASSUME NEW r \in Requests, NEW o \in Outcomes,
             CallFile(r, o) \/ CallText(r, o)
      PROVE  Account(x)'
  <2>1. call[r] # "idle" /\ UNCHANGED <<queue, job, queued, worked, lost>>
    BY <1>6 DEF CallFile, CallText
  <2>2. answer[r] # "queued"
    BY <2>1 DEF CallsOpen
  <2>3. answer'[x] = "queued" <=> answer[x] = "queued"
    BY <1>6, <2>2 DEF CallFile, CallText, Answered, SenderTypeOK
  <2>4. InMemory(x)' <=> InMemory(x)
    BY <2>1, InMemoryIn, InMemoryInNext
  <2> QED BY <1>3, <2>1, <2>3, <2>4
<1>7. CASE WorkerTakes
  <2>1. /\ queue # <<>> /\ job' = Head(queue) /\ queue' = Tail(queue)
        /\ UNCHANGED <<answer, queued, worked, lost>>
    BY <1>7 DEF WorkerTakes
  <2>2. job # x
    BY <1>7 DEF WorkerTakes, ReceiptsOnly
  <2>3. In(queue, x) <=> x = Head(queue) \/ In(Tail(queue), x)
    BY <1>2, <2>1, TailIn
  <2>4. InMemory(x)' <=> InMemory(x)
    BY <2>1, <2>2, <2>3, InMemoryIn, InMemoryInNext
  <2> QED BY <1>3, <2>1, <2>4
<1>8. ASSUME NEW o \in Outcomes, WorkerFile(o) \/ WorkerText(o)
      PROVE  Account(x)'
  <2>1. job \in Requests
    BY <1>8 DEF WorkerFile, WorkerText, ReceiptsOnly
  <2>2. UNCHANGED <<queue, answer, queued, lost>>
    BY <1>8, WorkCases
  <2>3. CASE UNCHANGED <<job, worked>>
    BY <1>3, <2>2, <2>3, InMemoryIn, InMemoryInNext
  <2>4. CASE job' = NoJob /\ worked' = [worked EXCEPT ![job] = @ + 1]
    <3>1. CASE x = job
      <4>1. InMemory(x) /\ ~InMemory(x)'
        BY <2>2, <2>4, <3>1, InMemoryIn, InMemoryInNext DEF HeldOnce
      <4>2. worked'[x] = worked[x] + 1
        BY <2>1, <2>4, <3>1 DEF SenderTypeOK
      <4>3. queued'[x] = queued[x] /\ lost'[x] = lost[x] /\ answer'[x] = answer[x]
        BY <2>2
      <4> QED BY <1>1, <1>2, <4>1, <4>2, <4>3 DEF Account
    <3>2. CASE x # job
      <4>1. InMemory(x)' <=> InMemory(x)
        BY <2>2, <2>4, <3>2, InMemoryIn, InMemoryInNext
      <4>2. worked'[x] = worked[x]
        BY <2>1, <2>4, <3>2 DEF SenderTypeOK
      <4> QED BY <1>1, <2>2, <4>1, <4>2 DEF Account
    <3> QED BY <3>1, <3>2
  <2> QED BY <1>8, <2>3, <2>4, WorkCases
<1>9. CASE Restart
  <2>1. /\ queue' = <<>> /\ job' = NoJob
        /\ lost' = [r \in Requests |->
                      IF InMemory(r) THEN lost[r] + 1 ELSE lost[r]]
        /\ answer' = [r \in Requests |->
                        IF call[r] = "idle" THEN answer[r] ELSE "failed"]
        /\ UNCHANGED <<queued, worked>>
    BY <1>9 DEF Restart
  <2>2. ~InMemory(x)'
    BY <2>1, InMemoryInNext, InEmpty
  <2>3. lost'[x] = IF InMemory(x) THEN lost[x] + 1 ELSE lost[x]
    BY <2>1
  <2>4. answer'[x] = "queued" <=> answer[x] = "queued"
    BY <2>1 DEF CallsOpen
  <2> QED BY <1>1, <1>2, <2>1, <2>2, <2>3, <2>4 DEF Account
<1>10. CASE UNCHANGED <<queue, job, answer, queued, worked, lost>>
  BY <1>3, <1>10, InMemoryIn, InMemoryInNext
<1> QED BY <1>4, <1>5, <1>6, <1>7, <1>8, <1>9, <1>10
        DEF SenderNext, senderVars, WorkerWakes, Minute

-----------------------------------------------------------------------------
(* What has been sent. *)

LEMMA ReceiptSendsStep ==
  ASSUME SenderTypeOK, ReceiptsOnly, HeldOnce, CallsOpen, QueuedAccounted,
         ReceiptSends, [SenderNext]_senderVars
  PROVE  ReceiptSends'
<1> USE BridgeSenderAssumption
<1> SUFFICES ASSUME NEW x \in Requests, IsReceipt(x)
             PROVE  (/\ answer[x] # "sent"
                     /\ files[x] <= 1 /\ texts[x] <= 1
                     /\ queued[x] = 0 \/ In(queue, x) => files[x] = 0 /\ texts[x] = 0
                     /\ job = x => texts[x] = 0 /\ (worker = "file" => files[x] = 0))'
  BY DEF ReceiptSends
<1>1. /\ answer[x] # "sent"
      /\ files[x] \in Nat /\ texts[x] \in Nat
      /\ files[x] <= 1 /\ texts[x] <= 1
      /\ queued[x] = 0 \/ In(queue, x) => files[x] = 0 /\ texts[x] = 0
      /\ job = x => texts[x] = 0 /\ (worker = "file" => files[x] = 0)
      /\ queue \in Seq(Requests)
  BY DEF ReceiptSends, SenderTypeOK
<1>2. ASSUME UNCHANGED <<queue, worker, job>>, answer'[x] # "sent",
             files'[x] = files[x], texts'[x] = texts[x], queued'[x] = queued[x]
      PROVE  /\ answer'[x] # "sent"
             /\ files'[x] <= 1 /\ texts'[x] <= 1
             /\ queued'[x] = 0 \/ In(queue', x) => files'[x] = 0 /\ texts'[x] = 0
             /\ job' = x => texts'[x] = 0 /\ (worker' = "file" => files'[x] = 0)
  BY <1>1, <1>2
<1>3. ASSUME NEW r \in Requests, PostMessage(r)
      PROVE  answer'[x] # "sent"
  BY <1>1, <1>3 DEF PostMessage, Answered, SenderTypeOK
<1>4. ASSUME NEW r \in Requests, NEW p \in Paths, PostFile(r, p)
      PROVE  (/\ answer[x] # "sent"
              /\ files[x] <= 1 /\ texts[x] <= 1
              /\ queued[x] = 0 \/ In(queue, x) => files[x] = 0 /\ texts[x] = 0
              /\ job = x => texts[x] = 0 /\ (worker = "file" => files[x] = 0))'
  <2>1. /\ UNCHANGED <<worker, job, files, texts>>
        /\ answer[r] # "queued"
    BY <1>4, PostFileCases
  <2>2. answer'[x] # "sent"
    BY <1>1, <1>4, PostFileCases DEF SenderTypeOK
  <2>3. CASE UNCHANGED <<queue, queued>>
    BY <1>1, <2>1, <2>2, <2>3
  <2>4. CASE /\ queue' = Append(queue, r)
             /\ queued' = [queued EXCEPT ![r] = @ + 1]
    <3>1. In(queue', x) <=> In(queue, x) \/ x = r
      BY <1>1, <2>4, AppendIn
    <3>2. CASE x = r
      <4>1. queued[x] = 0
        BY <2>1, <3>2, FreshPost
      <4> QED BY <1>1, <2>1, <2>2, <4>1
    <3>3. CASE x # r
      <4>1. queued'[x] = queued[x]
        BY <2>4, <3>3 DEF SenderTypeOK
      <4> QED BY <1>1, <2>1, <2>2, <3>1, <3>3, <4>1
    <3> QED BY <3>2, <3>3
  <2> QED BY <1>4, <2>3, <2>4, PostFileCases
<1>5. ASSUME NEW r \in Requests, NEW o \in Outcomes,
             CallFile(r, o) \/ CallText(r, o)
      PROVE  /\ UNCHANGED <<queue, worker, job, queued>> /\ answer'[x] # "sent"
             /\ files'[x] = files[x] /\ texts'[x] = texts[x]
  <2>1. call[r] # "idle"
    BY <1>5 DEF CallFile, CallText
  <2>2. x # r
    BY <2>1 DEF CallsOpen
  <2>3. /\ answer'[x] = answer[x]
        /\ files'[x] = files[x] /\ texts'[x] = texts[x]
    BY <1>5, <2>2 DEF CallFile, CallText, Took, Answered, SenderTypeOK
  <2> QED BY <1>1, <1>5, <2>3 DEF CallFile, CallText
<1>6. CASE WorkerTakes
  <2>1. /\ queue # <<>> /\ job' = Head(queue) /\ queue' = Tail(queue)
        /\ UNCHANGED <<answer, files, texts, queued>>
    BY <1>6 DEF WorkerTakes
  <2>2. In(queue, x) <=> x = Head(queue) \/ In(Tail(queue), x)
    BY <1>1, <2>1, TailIn
  <2> QED BY <1>1, <2>1, <2>2
<1>7. ASSUME NEW o \in Outcomes, WorkerFile(o) \/ WorkerText(o)
      PROVE  (/\ answer[x] # "sent"
              /\ files[x] <= 1 /\ texts[x] <= 1
              /\ queued[x] = 0 \/ In(queue, x) => files[x] = 0 /\ texts[x] = 0
              /\ job = x => texts[x] = 0 /\ (worker = "file" => files[x] = 0))'
  <2>1. job \in Requests
    BY <1>7 DEF WorkerFile, WorkerText, ReceiptsOnly
  <2>2. UNCHANGED <<queue, answer, queued>>
    BY <1>7, WorkCases
  <2>3. \/ job' = NoJob
        \/ job' = job /\ worker = "file" /\ worker' = "text"
    BY <1>7, WorkCases
  <2>4. CASE x # job
    <3>1. files'[x] = files[x] /\ texts'[x] = texts[x]
      BY <1>7, <2>1, <2>4 DEF WorkerFile, WorkerText, Took, SenderTypeOK
    <3> QED BY <1>1, <2>2, <2>3, <2>4, <3>1
  <2>5. CASE x = job
    <3>1. queued[x] # 0 /\ ~In(queue, x)
      BY <2>5, HeldWasQueued DEF HeldOnce
    <3>2. CASE WorkerFile(o)
      <4>1. worker = "file" /\ texts' = texts
            /\ (files' = files \/ files' = [files EXCEPT ![job] = @ + 1])
        BY <3>2 DEF WorkerFile, Took
      <4>2. files[x] = 0 /\ texts[x] = 0
        BY <1>1, <2>5, <4>1
      <4>3. files'[x] <= 1 /\ texts'[x] = 0
        BY <2>5, <4>1, <4>2 DEF SenderTypeOK
      <4> QED BY <1>1, <2>2, <2>3, <3>1, <4>3
    <3>3. CASE WorkerText(o)
      <4>1. job' = NoJob /\ files' = files
            /\ (texts' = texts \/ texts' = [texts EXCEPT ![job] = @ + 1])
        BY <3>3 DEF WorkerText, WorkerRests, Took
      <4>2. texts'[x] <= 1
        BY <1>1, <2>5, <4>1 DEF SenderTypeOK
      <4> QED BY <1>1, <2>2, <3>1, <4>1, <4>2
    <3> QED BY <1>7, <3>2, <3>3
  <2> QED BY <2>4, <2>5
<1>8. CASE Restart
  <2>1. /\ queue' = <<>> /\ job' = NoJob /\ UNCHANGED <<files, texts, queued>>
        /\ answer'[x] \in {answer[x], "failed"}
    BY <1>8 DEF Restart
  <2> QED BY <1>1, <2>1, InEmpty
<1>9. CASE UNCHANGED <<queue, job, answer, files, texts, queued>>
         /\ (worker' = worker \/ worker' = "idle")
  BY <1>1, <1>9
<1> QED BY <1>1, <1>2, <1>3, <1>4, <1>5, <1>6, <1>7, <1>8, <1>9
        DEF SenderNext, senderVars, PostMessage, WorkerWakes, Minute

Sends(r) ==
  /\ texts[r] = IF answer[r] = "sent" THEN Due(NeedsText(r)) ELSE 0
  /\ files[r] = IF answer[r] = "sent" \/ call[r] = "text"
                  THEN Due(NeedsFile(r)) ELSE 0

LEMMA HandlerSendsStep ==
  ASSUME SenderTypeOK, ReceiptsOnly, CallsOpen, HandlerSends,
         [SenderNext]_senderVars
  PROVE  HandlerSends'
<1> USE BridgeSenderAssumption
<1> SUFFICES ASSUME NEW x \in Requests, x \notin blamed', ~IsReceipt(x)
             PROVE  Sends(x)'
  BY DEF HandlerSends, Sends
<1>1. blamed \subseteq blamed'
  BY DEF SenderNext, senderVars, PostMessage, PostFile, CallFile, CallText,
         WorkerTakes, WorkerFile, WorkerText, WorkerWakes, Minute, Restart
<1>2. Sends(x)
  BY <1>1 DEF HandlerSends, Sends
<1>3. ASSUME answer'[x] = answer[x], call'[x] = call[x],
             files'[x] = files[x], texts'[x] = texts[x]
      PROVE  Sends(x)'
  BY <1>2, <1>3 DEF Sends
<1>4. ASSUME NEW r \in Requests, PostMessage(r) PROVE Sends(x)'
  <2>1. CASE x # r
    BY <1>3, <1>4, <2>1 DEF PostMessage, Answered, At, SenderTypeOK
  <2>2. CASE x = r
    <3>1. answer[x] # "sent" /\ call[x] = "idle" /\ ~NeedsFile(x)
      BY <1>4, <2>2 DEF PostMessage, MayPost, NeedsFile
    <3>2. answer'[x] # "sent" /\ UNCHANGED <<files, texts>>
      BY <1>4, <2>2, <3>1 DEF PostMessage, Answered, SenderTypeOK
    <3> QED BY <1>2, <3>1, <3>2 DEF Sends, Due
  <2> QED BY <2>1, <2>2
<1>5. ASSUME NEW r \in Requests, NEW p \in Paths, PostFile(r, p)
      PROVE  Sends(x)'
  <2>1. CASE x # r
    BY <1>3, <1>5, <2>1 DEF PostFile, QueueReceipt, Answered, At, SenderTypeOK
  <2>2. CASE x = r
    <3>1. answer[x] # "sent" /\ call[x] = "idle" /\ UNCHANGED <<files, texts>>
      BY <1>5, <2>2, PostFileCases
    <3>2. answer'[x] # "sent"
      BY <1>5, <2>2, <3>1, PostFileCases DEF SenderTypeOK
    <3>3. call'[x] # "text"
      BY <1>5, <2>2, <3>1 DEF PostFile, At, SenderTypeOK
    <3> QED BY <1>2, <3>1, <3>2, <3>3 DEF Sends
  <2> QED BY <2>1, <2>2
<1>6. ASSUME NEW r \in Requests, NEW o \in Outcomes, CallFile(r, o)
      PROVE  Sends(x)'
  <2>1. CASE x # r
    BY <1>3, <1>6, <2>1 DEF CallFile, Took, Answered, At, SenderTypeOK
  <2>2. CASE x = r
    <3>1. /\ call[x] = "file" /\ answer[x] # "sent" /\ Endpoint[x] # "send-message"
          /\ o # "unsure" /\ texts' = texts
      BY <1>6, <2>2 DEF CallFile, CallsOpen
    <3>2. texts[x] = 0 /\ files[x] = 0
      BY <1>2, <3>1 DEF Sends
    <3>3. CASE o = "failed"
      <4>1. files' = files /\ answer'[x] = "failed" /\ call'[x] = "idle"
        BY <1>6, <2>2, <3>3 DEF CallFile, Took, Answered, At, SenderTypeOK
      <4> QED BY <3>1, <3>2, <4>1 DEF Sends
    <3>4. CASE o = "sent"
      <4>1. files'[x] = 1 /\ NeedsFile(x)
        BY <1>6, <2>2, <3>1, <3>2, <3>4 DEF CallFile, Took, NeedsFile, SenderTypeOK
      <4>2. CASE Endpoint[x] = "send-file-with-message"
        <5>1. call'[x] = "text" /\ answer' = answer
          BY <1>6, <2>2, <3>4, <4>2 DEF CallFile, At, SenderTypeOK
        <5> QED BY <3>1, <3>2, <4>1, <5>1 DEF Sends, Due
      <4>3. CASE Endpoint[x] # "send-file-with-message"
        <5>1. answer'[x] = "sent"
          BY <1>6, <2>2, <3>4, <4>3 DEF CallFile, Answered, SenderTypeOK
        <5>2. ~NeedsText(x)
          BY <3>1, <4>3 DEF NeedsText, Routes
        <5> QED BY <3>1, <3>2, <4>1, <5>1, <5>2 DEF Sends, Due
      <4> QED BY <4>2, <4>3
    <3> QED BY <3>1, <3>3, <3>4 DEF Outcomes
  <2> QED BY <2>1, <2>2
<1>7. ASSUME NEW r \in Requests, NEW o \in Outcomes, CallText(r, o)
      PROVE  Sends(x)'
  <2>1. CASE x # r
    BY <1>3, <1>7, <2>1 DEF CallText, Took, Answered, At, SenderTypeOK
  <2>2. CASE x = r
    <3>1. /\ call[x] = "text" /\ answer[x] # "sent" /\ Endpoint[x] # "send-file"
          /\ o = "sent" /\ files' = files
      BY <1>7, <2>2 DEF CallText, CallsOpen
    <3>2. texts[x] = 0 /\ files[x] = Due(NeedsFile(x))
      BY <1>2, <3>1 DEF Sends
    <3>3. texts'[x] = 1 /\ answer'[x] = "sent"
      BY <1>7, <2>2, <3>1, <3>2 DEF CallText, Took, Answered, SenderTypeOK
    <3>4. NeedsText(x)
      BY <3>1 DEF NeedsText
    <3> QED BY <3>1, <3>2, <3>3, <3>4 DEF Sends, Due
  <2> QED BY <2>1, <2>2
<1>8. ASSUME NEW o \in Outcomes, WorkerFile(o) \/ WorkerText(o)
      PROVE  Sends(x)'
  <2>1. job \in Requests /\ x # job
    BY <1>8 DEF WorkerFile, WorkerText, ReceiptsOnly
  <2>2. files'[x] = files[x] /\ texts'[x] = texts[x]
    BY <1>8, <2>1 DEF WorkerFile, WorkerText, Took, SenderTypeOK
  <2> QED BY <1>3, <1>8, <2>2, WorkCases
<1>9. CASE Restart
  <2>1. call[x] = "idle"
    BY <1>9 DEF Restart
  <2> QED BY <1>3, <1>9, <2>1 DEF Restart
<1>10. CASE UNCHANGED <<call, answer, files, texts>>
  BY <1>3, <1>10
<1> QED BY <1>4, <1>5, <1>6, <1>7, <1>8, <1>9, <1>10
        DEF SenderNext, senderVars, WorkerTakes, WorkerWakes, Minute

-----------------------------------------------------------------------------

LEMMA SenderStep ==
  ASSUME SenderInv, [SenderNext]_senderVars PROVE SenderInv'
<1>1. /\ SenderTypeOK' /\ ReceiptsOnly' /\ HeldOnce' /\ Rested' /\ CallsOpen'
      /\ ReceiptSends' /\ HandlerSends'
  BY SenderTypeStep, ReceiptsOnlyStep, HeldOnceStep, RestedStep, CallsOpenStep,
     ReceiptSendsStep, HandlerSendsStep DEF SenderInv
<1>2. QueuedAccounted'
  BY <1>1, AccountStep DEF SenderInv
<1> QED BY <1>1, <1>2 DEF SenderInv

(* The inductive invariant holds in every state of every behaviour. *)
THEOREM SenderInvariant == SenderSpec => []SenderInv
<1>1. SenderInit => SenderInv
  BY SenderInitInv
<1>2. SenderInv /\ [SenderNext]_senderVars => SenderInv'
  BY SenderStep
<1> QED BY <1>1, <1>2, PTL DEF SenderSpec

(* Each receipt that was told "queued" is in memory, was worked off once or
   went with a process, for any requests and any size of the channel
   (handlers.go:217, processReceiptQueue). *)
THEOREM QueuedAccountedHolds == SenderSpec => []QueuedAccounted
<1>1. SenderInv => QueuedAccounted
  BY DEF SenderInv
<1> QED BY <1>1, SenderInvariant, PTL

(* Without an error to blame nothing is sent twice, and "sent" means that all
   of it was sent, however the worker, the handlers and the user's retries
   interleave (handlers.go:150-330). *)
THEOREM OnceUnlessBlamedHolds == SenderSpec => []OnceUnlessBlamed
<1>1. SenderInv => OnceUnlessBlamed
  <2> SUFFICES ASSUME SenderInv, NEW r \in Requests \ blamed
               PROVE  /\ files[r] <= 1 /\ texts[r] <= 1
                      /\ answer[r] = "sent" => /\ NeedsFile(r) => files[r] = 1
                                               /\ NeedsText(r) => texts[r] = 1
    BY DEF OnceUnlessBlamed
  <2>1. CASE IsReceipt(r)
    BY <2>1 DEF SenderInv, ReceiptSends
  <2>2. CASE ~IsReceipt(r)
    BY <2>2 DEF SenderInv, HandlerSends, Due
  <2> QED BY <2>1, <2>2
<1> QED BY <1>1, SenderInvariant, PTL

(* A step that sends a receipt's file is the worker's, and it has rested. *)
LEMMA ApartStep ==
  ASSUME SenderInv, [SenderNext]_senderVars
  PROVE  \A r \in Requests :
           IsReceipt(r) /\ files'[r] > files[r] => apart >= MinGap
<1> SUFFICES ASSUME NEW x \in Requests, IsReceipt(x), files'[x] > files[x]
             PROVE  apart >= MinGap
  OBVIOUS
<1>1. files[x] \in Nat
  BY DEF SenderInv, SenderTypeOK
<1>2. files'[x] # files[x]
  BY <1>1
<1>3. ASSUME NEW r \in Requests, NEW o \in Outcomes, CallFile(r, o)
      PROVE  FALSE
  <2>1. call[r] = "file"
    BY <1>3 DEF CallFile
  <2>2. x # r
    BY <2>1 DEF SenderInv, CallsOpen
  <2> QED BY <1>2, <1>3, <2>2 DEF CallFile, Took, SenderInv, SenderTypeOK
<1>4. ASSUME NEW o \in Outcomes, WorkerFile(o)
      PROVE  apart >= MinGap
  BY <1>4 DEF WorkerFile, SenderInv, Rested
<1> QED BY <1>2, <1>3, <1>4
        DEF SenderNext, senderVars, PostMessage, PostFile, CallText,
            WorkerTakes, WorkerText, WorkerWakes, Minute, Restart

(* In one process the files of two receipts go out MinGap minutes apart, for
   any gap and any requests (handlers.go, processReceiptQueue). *)
THEOREM ReceiptsApartHolds == SenderSpec => ReceiptsApart
<1>1. SenderInv /\ [SenderNext]_senderVars =>
        [\A r \in Requests :
           IsReceipt(r) /\ files'[r] > files[r] => apart >= MinGap]_senderVars
  BY ApartStep
<1> QED BY <1>1, SenderInvariant, PTL DEF SenderSpec, ReceiptsApart

(***************************************************************************)
(* BridgeStore                                                             *)
(***************************************************************************)

-----------------------------------------------------------------------------
(* What is listed in a batch. *)

LEMMA ListedTail ==
  ASSUME NEW S, NEW q \in Seq(S), q # <<>>
  PROVE  /\ Head(q) \in S /\ Tail(q) \in Seq(S)
         /\ Listed(q) = {Head(q)} \cup Listed(Tail(q))
<1>1. /\ Len(q) \in Nat \ {0}
      /\ DOMAIN q = 1..Len(q) /\ DOMAIN Tail(q) = 1..Len(q) - 1
      /\ \A i \in 1..Len(q) - 1 : Tail(q)[i] = q[i + 1]
      /\ Head(q) = q[1] /\ Head(q) \in S /\ Tail(q) \in Seq(S)
  OBVIOUS
<1>2. ASSUME NEW x \in Listed(q), x # Head(q) PROVE x \in Listed(Tail(q))
  <2>1. PICK i \in 1..Len(q) : q[i] = x
    BY <1>1, <1>2 DEF Listed
  <2>2. i - 1 \in 1..Len(q) - 1 /\ (i - 1) + 1 = i
    BY <1>1, <1>2, <2>1
  <2>3. Tail(q)[i - 1] = x
    BY <1>1, <2>1, <2>2
  <2> QED BY <1>1, <2>2, <2>3 DEF Listed
<1>3. ASSUME NEW x \in Listed(Tail(q)) PROVE x \in Listed(q)
  <2>1. PICK i \in 1..Len(q) - 1 : Tail(q)[i] = x
    BY <1>1, <1>3 DEF Listed
  <2>2. i + 1 \in 1..Len(q) /\ q[i + 1] = x
    BY <1>1, <2>1
  <2> QED BY <1>1, <2>2 DEF Listed
<1>4. Head(q) \in Listed(q)
  BY <1>1 DEF Listed
<1> QED BY <1>1, <1>2, <1>3, <1>4

LEMMA ListedNone == Listed(<<>>) = {}
BY DEF Listed

LEMMA BatchTyped ==
  ASSUME NEW s \in Batches, unseen["history"] \subseteq Texts
  PROVE  s \in Seq(Texts) /\ s # <<>>
<1>1. PICK n \in 1..MaxBatch : s \in [1..n -> unseen["history"]]
  BY DEF Batches
<1>2. n \in Nat \ {0}
  BY <1>1, BridgeStoreAssumption
<1>3. s \in Seq(Texts) /\ Len(s) = n
  BY <1>1, <1>2
<1> QED BY <1>2, <1>3

-----------------------------------------------------------------------------
(* The inductive invariant. *)

(* A handler at work has messages to write. *)
Batched ==
  \A h \in Handlers : pc[h] = "idle" <=> batch[h] = <<>>

(* A message whose fate is not decided is being handled, or still to come. *)
Decided ==
  \A m \in Texts :
    \/ m \in rows \cup excused \cup Empty
    \/ Date[m] = 0
    \/ Handling(m)
    \/ \A h \in Handlers : m \in unseen[h]

HasChat == \A m \in rows : chats[ChatOf[m]] # NoChat

(* A name that is about to be written is the one the chat has. *)
ChosenStays ==
  \A h \in Handlers :
    /\ pc[h] = "chat"
    /\ Chat(h) \notin raced \cup missed
    /\ chats[Chat(h)] # NoChat
    =>
      chosen[h] = first[Chat(h)]

(* There is such a name. *)
ChosenTyped ==
  \A h \in Handlers : pc[h] = "chat" => chosen[h] \in NameSet

StoreInv ==
  /\ StoreTypeOK
  /\ Batched
  /\ ChosenTyped
  /\ Decided
  /\ HasChat
  /\ ChosenStays
  /\ FirstNameStays

LEMMA StoreInitInv ==
  ASSUME StoreInit PROVE StoreInv
<1> USE BridgeStoreAssumption DEF StoreInit
<1>1. StoreTypeOK
  BY DEF StoreTypeOK, NameSet
<1>2. Batched /\ ChosenTyped /\ Decided /\ HasChat /\ ChosenStays
      /\ FirstNameStays
  BY DEF Batched, ChosenTyped, Decided, HasChat, ChosenStays, FirstNameStays
<1> QED BY <1>1, <1>2 DEF StoreInv

LEMMA ChatTyped ==
  ASSUME StoreTypeOK, Batched, NEW h \in Handlers, pc[h] # "idle"
  PROVE  /\ batch[h] \in Seq(Texts) /\ batch[h] # <<>>
         /\ Head(batch[h]) \in Texts /\ Chat(h) \in Chats
<1>1. batch[h] \in Seq(Texts) /\ batch[h] # <<>>
  BY DEF StoreTypeOK, Batched
<1>2. Head(batch[h]) \in Texts
  BY <1>1, ListedTail
<1> QED BY <1>1, <1>2, BridgeStoreAssumption DEF Chat

(* The record that StoreChat writes. *)
LEMMA RecordTyped ==
  ASSUME NEW n \in NameSet, NEW t \in Nat
  PROVE  /\ [name |-> n, time |-> t] \in [name : NameSet, time : Nat]
         /\ [name |-> n, time |-> t] # NoChat
BY BridgeStoreAssumption DEF NameSet

LEMMA DeliverStep ==
  ASSUME StoreTypeOK, Batched, ChosenTyped,
         NEW h \in Handlers, NEW s \in Seq(Texts), s # <<>>, Deliver(h, s)
  PROVE  StoreTypeOK' /\ Batched' /\ ChosenTyped'
BY DEF Deliver, StoreTypeOK, Batched, ChosenTyped

LEMMA LookUpStep ==
  ASSUME StoreTypeOK, Batched, ChosenTyped, NEW h \in Handlers,
         NEW read \in BOOLEAN, LookUpName(h, read)
  PROVE  StoreTypeOK' /\ Batched' /\ ChosenTyped'
<1>1. pc[h] = "look" /\ Chat(h) \in Chats
  BY ChatTyped DEF LookUpName
<1>2. PICK n \in Names(h, Chat(h)) :
        chosen' = [chosen EXCEPT ![h] = NameFor(h, n, read)]
  BY DEF LookUpName
<1>3. n \in NameSet
  BY <1>2 DEF Names, NameSet
<1>4. NameFor(h, n, read) \in NameSet
  BY <1>1, <1>3 DEF NameFor, StoreTypeOK
<1>5. /\ pc' = [pc EXCEPT ![h] = "chat"]
      /\ UNCHANGED <<chats, rows, known, batch, unseen, excused, first, raced>>
  BY DEF LookUpName
<1>6. missed' \in SUBSET Chats
  BY <1>1 DEF LookUpName, StoreTypeOK
<1> QED BY <1>1, <1>2, <1>4, <1>5, <1>6 DEF StoreTypeOK, Batched, ChosenTyped

LEMMA StoreChatStep ==
  ASSUME StoreTypeOK, Batched, ChosenTyped,
         NEW h \in Handlers, NEW ok \in BOOLEAN, StoreChat(h, ok)
  PROVE  StoreTypeOK' /\ Batched' /\ ChosenTyped'
<1>1. pc[h] = "chat" /\ Chat(h) \in Chats /\ Head(batch[h]) \in Texts
  BY ChatTyped DEF StoreChat
<1>2. chosen[h] \in NameSet /\ Date[Head(batch[h])] \in Nat
  BY <1>1, BridgeStoreAssumption DEF ChosenTyped
<1>3. /\ pc' = [pc EXCEPT ![h] = "messages"]
      /\ chosen' = [chosen EXCEPT ![h] = "none"]
      /\ UNCHANGED <<rows, known, batch, unseen, excused, missed>>
  BY DEF StoreChat, AfterChat
<1>4. /\ chats' \in [Chats -> {NoChat} \cup [name : NameSet, time : Nat]]
      /\ first' \in [Chats -> NameSet \cup {"none"}]
      /\ raced' \in SUBSET Chats
  <2>1. CASE ok
    <3>1. [name |-> chosen[h], time |-> Date[Head(batch[h])]]
            \in [name : NameSet, time : Nat]
      BY <1>2
    <3> QED BY <1>1, <1>2, <2>1, <3>1 DEF StoreChat, StoreTypeOK
  <2>2. CASE ~ok
    BY <2>2 DEF StoreChat, StoreTypeOK
  <2> QED BY <2>1, <2>2
<1>5. Batched'
  BY <1>1, <1>3 DEF Batched, StoreTypeOK
<1>6. ChosenTyped'
  BY <1>3 DEF ChosenTyped, StoreTypeOK
<1> QED BY <1>3, <1>4, <1>5, <1>6 DEF StoreTypeOK

LEMMA StoreMessageStep ==
  ASSUME StoreTypeOK, Batched, ChosenTyped,
         NEW h \in Handlers, NEW ok \in BOOLEAN, StoreMessage(h, ok)
  PROVE  StoreTypeOK' /\ Batched' /\ ChosenTyped'
<1>1. /\ pc[h] = "messages" /\ batch[h] \in Seq(Texts) /\ batch[h] # <<>>
      /\ Head(batch[h]) \in Texts
  BY ChatTyped DEF StoreMessage
<1>2. Tail(batch[h]) \in Seq(Texts)
  BY <1>1, ListedTail
<1>3. /\ batch' = [batch EXCEPT ![h] = Tail(batch[h])]
      /\ pc' = [pc EXCEPT ![h] = IF Tail(batch[h]) = <<>> THEN "idle" ELSE pc[h]]
      /\ UNCHANGED <<chats, known, chosen, unseen, first, raced, missed>>
  BY DEF StoreMessage
<1>4. rows' \in SUBSET Texts /\ excused' \in SUBSET Texts
  BY <1>1 DEF StoreMessage, StoreTypeOK
<1>5. Batched' /\ ChosenTyped'
  BY <1>1, <1>3 DEF Batched, ChosenTyped, StoreTypeOK
<1> QED BY <1>1, <1>2, <1>3, <1>4, <1>5 DEF StoreTypeOK

LEMMA StoreTypeStep ==
  ASSUME StoreTypeOK, Batched, ChosenTyped, [StoreNext]_storeVars
  PROVE  StoreTypeOK' /\ Batched' /\ ChosenTyped'
<1>1. ASSUME NEW m \in Texts, LiveMessage(m)
      PROVE  StoreTypeOK' /\ Batched' /\ ChosenTyped'
  <2>1. <<m>> \in Seq(Texts) /\ <<m>> # <<>>
    OBVIOUS
  <2> QED BY <1>1, <2>1, DeliverStep DEF LiveMessage, Handlers
<1>2. ASSUME NEW s \in Batches, HistoryConversation(s)
      PROVE  StoreTypeOK' /\ Batched' /\ ChosenTyped'
  <2>1. s \in Seq(Texts) /\ s # <<>>
    BY BatchTyped DEF StoreTypeOK, Handlers
  <2> QED BY <1>2, <2>1, DeliverStep DEF HistoryConversation, Handlers
<1>3. ASSUME NEW c \in Chats, LearnName(c)
      PROVE  StoreTypeOK' /\ Batched' /\ ChosenTyped'
  BY <1>3 DEF LearnName, StoreTypeOK, Batched, ChosenTyped
<1>4. ASSUME NEW h \in Handlers, SkipConversation(h)
      PROVE  StoreTypeOK' /\ Batched' /\ ChosenTyped'
  <2>1. Listed(batch[h]) \subseteq Texts
    <3>1. batch[h] \in Seq(Texts)
      BY DEF StoreTypeOK
    <3> QED BY <3>1 DEF Listed
  <2> QED BY <1>4, <2>1 DEF SkipConversation, StoreTypeOK, Batched, ChosenTyped
<1>5. CASE UNCHANGED storeVars
  BY <1>5 DEF storeVars, StoreTypeOK, Batched, ChosenTyped
<1> QED BY <1>1, <1>2, <1>3, <1>4, <1>5, LookUpStep, StoreChatStep,
           StoreMessageStep DEF StoreNext

LEMMA DecidedStep ==
  ASSUME StoreTypeOK, Batched, Decided, [StoreNext]_storeVars
  PROVE  Decided'
<1> SUFFICES ASSUME NEW m \in Texts, Date[m] # 0, m \notin Empty
             PROVE  \/ m \in rows' \cup excused'
                    \/ Handling(m)'
                    \/ \A h \in Handlers : m \in unseen'[h]
  BY DEF Decided
<1>1. \/ m \in rows \cup excused
      \/ \E h \in Handlers : m \in Listed(batch[h])
      \/ \A h \in Handlers : m \in unseen[h]
  BY DEF Decided, Handling
<1>2. rows \subseteq rows' /\ excused \subseteq excused'
  BY DEF StoreNext, storeVars, LiveMessage, HistoryConversation, Deliver,
         LearnName, LookUpName, SkipConversation, StoreChat, StoreMessage
<1>3. ASSUME UNCHANGED <<batch, unseen>>
      PROVE  \/ m \in rows' \cup excused'
             \/ Handling(m)'
             \/ \A h \in Handlers : m \in unseen'[h]
  BY <1>1, <1>2, <1>3 DEF Handling
<1>4. ASSUME NEW g \in Handlers, NEW s, Deliver(g, s)
      PROVE  \/ m \in rows' \cup excused'
             \/ Handling(m)'
             \/ \A h \in Handlers : m \in unseen'[h]
  <2>1. /\ pc[g] = "idle" /\ batch' = [batch EXCEPT ![g] = s]
        /\ unseen' = [unseen EXCEPT ![g] = @ \ Listed(s)]
    BY <1>4 DEF Deliver
  <2>2. Listed(batch[g]) = {}
    BY <2>1, ListedNone DEF Batched
  <2>3. batch'[g] = s /\ \A h \in Handlers \ {g} : batch'[h] = batch[h]
    BY <2>1 DEF StoreTypeOK
  <2>4. /\ unseen'[g] = unseen[g] \ Listed(s)
        /\ \A h \in Handlers \ {g} : unseen'[h] = unseen[h]
    BY <2>1 DEF StoreTypeOK
  <2> QED BY <1>1, <1>2, <2>2, <2>3, <2>4 DEF Handling
<1>5. ASSUME NEW g \in Handlers, SkipConversation(g)
      PROVE  \/ m \in rows' \cup excused'
             \/ Handling(m)'
             \/ \A h \in Handlers : m \in unseen'[h]
  <2>1. /\ batch' = [batch EXCEPT ![g] = <<>>] /\ UNCHANGED unseen
        /\ excused' = excused \cup Listed(batch[g])
    BY <1>5 DEF SkipConversation
  <2>2. \A h \in Handlers \ {g} : batch'[h] = batch[h]
    BY <2>1 DEF StoreTypeOK
  <2> QED BY <1>1, <1>2, <2>1, <2>2 DEF Handling
<1>6. ASSUME NEW g \in Handlers, NEW ok \in BOOLEAN, StoreMessage(g, ok)
      PROVE  \/ m \in rows' \cup excused'
             \/ Handling(m)'
             \/ \A h \in Handlers : m \in unseen'[h]
  <2>1. /\ batch[g] \in Seq(Texts) /\ batch[g] # <<>>
        /\ batch' = [batch EXCEPT ![g] = Tail(batch[g])] /\ UNCHANGED unseen
    BY <1>6, ChatTyped DEF StoreMessage
  <2>2. Listed(batch[g]) = {Head(batch[g])} \cup Listed(Tail(batch[g]))
    BY <2>1, ListedTail
  <2>3. batch'[g] = Tail(batch[g]) /\ \A h \in Handlers \ {g} : batch'[h] = batch[h]
    BY <2>1 DEF StoreTypeOK
  <2>4. m = Head(batch[g]) => m \in rows' \cup excused'
    BY <1>6 DEF StoreMessage, HasContent
  <2> QED BY <1>1, <1>2, <2>1, <2>2, <2>3, <2>4 DEF Handling
<1> QED BY <1>3, <1>4, <1>5, <1>6
        DEF StoreNext, storeVars, LiveMessage, HistoryConversation, Handlers,
            LearnName, LookUpName, StoreChat, AfterChat

(* A row of the chats table is never deleted. *)
LEMMA ChatsStay ==
  ASSUME StoreTypeOK, Batched, ChosenTyped, [StoreNext]_storeVars,
         NEW c \in Chats, chats[c] # NoChat
  PROVE  chats'[c] # NoChat
<1>1. ASSUME NEW h \in Handlers, NEW ok \in BOOLEAN, StoreChat(h, ok)
      PROVE  chats'[c] # NoChat
  <2>1. Chat(h) \in Chats /\ chosen[h] \in NameSet /\ Date[Head(batch[h])] \in Nat
    BY <1>1, ChatTyped, BridgeStoreAssumption DEF StoreChat, ChosenTyped
  <2>2. [name |-> chosen[h], time |-> Date[Head(batch[h])]] # NoChat
    BY <2>1, RecordTyped
  <2>3. CASE ok
    <3>1. chats' = [chats EXCEPT ![Chat(h)] =
                      [name |-> chosen[h], time |-> Date[Head(batch[h])]]]
      BY <1>1, <2>3 DEF StoreChat
    <3> QED BY <2>1, <2>2, <3>1 DEF StoreTypeOK
  <2>4. CASE ~ok
    BY <1>1, <2>4 DEF StoreChat
  <2> QED BY <2>3, <2>4
<1>2. CASE UNCHANGED chats
  BY <1>2
<1> QED BY <1>1, <1>2
        DEF StoreNext, storeVars, LiveMessage, HistoryConversation, Deliver,
            LearnName, LookUpName, SkipConversation, StoreMessage

LEMMA HasChatStep ==
  ASSUME StoreTypeOK, Batched, ChosenTyped, HasChat, [StoreNext]_storeVars
  PROVE  HasChat'
<1>1. \A c \in Chats : chats[c] # NoChat => chats'[c] # NoChat
  BY ChatsStay
<1>2. \A m \in rows : m \in Texts /\ ChatOf[m] \in Chats
  BY BridgeStoreAssumption DEF StoreTypeOK
<1>3. ASSUME NEW h \in Handlers, NEW ok \in BOOLEAN, StoreMessage(h, ok)
      PROVE  HasChat'
  <2>1. /\ UNCHANGED chats
        /\ rows' = rows
           \/ (chats[Chat(h)] # NoChat /\ rows' = rows \cup {Head(batch[h])})
    BY <1>3 DEF StoreMessage, Insertable
  <2> QED BY <2>1 DEF HasChat, Chat
<1>4. CASE UNCHANGED rows
  BY <1>1, <1>2, <1>4 DEF HasChat
<1> QED BY <1>3, <1>4
        DEF StoreNext, storeVars, LiveMessage, HistoryConversation, Deliver,
            LearnName, LookUpName, SkipConversation, StoreChat

(* The names: one handler writes while the other may have looked up. *)
LEMMA NameStep ==
  ASSUME StoreTypeOK, Batched, ChosenTyped, ChosenStays, FirstNameStays,
         [StoreNext]_storeVars
  PROVE  ChosenStays' /\ FirstNameStays'
<1>1. ASSUME NEW g \in Handlers, UNCHANGED <<chats, first, raced, missed>>,
             \A h \in Handlers \ {g} :
               pc'[h] = pc[h] /\ batch'[h] = batch[h] /\ chosen'[h] = chosen[h],
             pc'[g] # "chat"
      PROVE  ChosenStays' /\ FirstNameStays'
  BY <1>1 DEF ChosenStays, FirstNameStays, Chat
<1>2. ASSUME NEW g \in Handlers, NEW s, Deliver(g, s)
      PROVE  ChosenStays' /\ FirstNameStays'
  BY <1>1, <1>2 DEF Deliver, StoreTypeOK
<1>3. ASSUME NEW g \in Handlers, SkipConversation(g)
      PROVE  ChosenStays' /\ FirstNameStays'
  BY <1>1, <1>3 DEF SkipConversation, StoreTypeOK
<1>4. ASSUME NEW g \in Handlers, NEW ok \in BOOLEAN, StoreMessage(g, ok)
      PROVE  ChosenStays' /\ FirstNameStays'
  BY <1>1, <1>4 DEF StoreMessage, StoreTypeOK
<1>5. ASSUME NEW g \in Handlers, NEW read \in BOOLEAN, LookUpName(g, read)
      PROVE  ChosenStays' /\ FirstNameStays'
  <2>1. PICK n \in Names(g, Chat(g)) :
          chosen' = [chosen EXCEPT ![g] = NameFor(g, n, read)]
    BY <1>5 DEF LookUpName
  <2>2. /\ pc' = [pc EXCEPT ![g] = "chat"]
        /\ UNCHANGED <<chats, batch, first, raced>>
    BY <1>5 DEF LookUpName
  <2>3. Chat(g) \in Chats
    BY <1>5, ChatTyped DEF LookUpName
  <2>4. /\ missed \subseteq missed'
        /\ Chat(g) \notin missed' /\ chats[Chat(g)] # NoChat => read
    BY <1>5 DEF LookUpName
  <2>5. Chat(g) \notin raced \cup missed' /\ chats[Chat(g)] # NoChat =>
          NameFor(g, n, read) = first[Chat(g)]
    BY <2>3, <2>4 DEF NameFor, FirstNameStays
  <2> QED BY <2>1, <2>2, <2>4, <2>5
          DEF ChosenStays, FirstNameStays, Chat, StoreTypeOK
<1>6. ASSUME NEW g \in Handlers, NEW ok \in BOOLEAN, StoreChat(g, ok)
      PROVE  ChosenStays' /\ FirstNameStays'
  <2>1. /\ pc[g] = "chat" /\ pc' = [pc EXCEPT ![g] = "messages"]
        /\ chosen' = [chosen EXCEPT ![g] = "none"]
        /\ UNCHANGED <<batch, missed>>
    BY <1>6 DEF StoreChat, AfterChat
  <2>2. CASE ~ok
    BY <1>1, <1>6, <2>1, <2>2 DEF StoreChat, StoreTypeOK
  <2>3. CASE ok
    <3> DEFINE c == Chat(g)
               r == [name |-> chosen[g], time |-> Date[Head(batch[g])]]
    <3>1. /\ chats' = [chats EXCEPT ![c] = r]
          /\ first' = IF chats[c] = NoChat
                        THEN [first EXCEPT ![c] = chosen[g]] ELSE first
          /\ raced' = raced \cup
               IF \E h \in Handlers \ {g} : pc[h] = "chat" /\ Chat(h) = c
                 THEN {c} ELSE {}
      BY <1>6, <2>3 DEF StoreChat
    <3>2. c \in Chats
      BY <2>1, ChatTyped
    <3>3. \A d \in Chats \ {c} : chats'[d] = chats[d] /\ first'[d] = first[d]
      BY <3>1, <3>2 DEF StoreTypeOK
    <3>4. chats'[c].name = chosen[g]
      BY <3>1, <3>2 DEF StoreTypeOK
    <3>5. c \notin raced \cup missed => first'[c] = chosen[g]
      <4>1. CASE chats[c] = NoChat
        BY <3>1, <3>2, <4>1 DEF StoreTypeOK
      <4>2. CASE chats[c] # NoChat
        BY <2>1, <3>1, <4>2 DEF ChosenStays
      <4> QED BY <4>1, <4>2
    <3>6. raced \cup missed \subseteq raced' \cup missed'
      BY <2>1, <3>1
    <3>7. FirstNameStays'
      BY <3>3, <3>4, <3>5, <3>6 DEF FirstNameStays
    <3>8. ASSUME NEW h \in Handlers, pc'[h] = "chat",
                 Chat(h)' \notin raced' \cup missed', chats'[Chat(h)'] # NoChat
          PROVE  chosen'[h] = first'[Chat(h)']
      <4>1. h # g /\ pc[h] = "chat" /\ chosen'[h] = chosen[h] /\ Chat(h)' = Chat(h)
        BY <2>1, <3>8 DEF StoreTypeOK, Chat
      <4>2. Chat(h) # c
        BY <3>1, <3>8, <4>1
      <4>3. Chat(h) \in Chats
        BY <4>1, ChatTyped
      <4> QED BY <3>3, <3>6, <3>8, <4>1, <4>2, <4>3 DEF ChosenStays
    <3> QED BY <3>7, <3>8 DEF ChosenStays
  <2> QED BY <2>2, <2>3
<1>7. CASE UNCHANGED <<chats, pc, batch, chosen, first, raced, missed>>
  BY <1>7 DEF ChosenStays, FirstNameStays, Chat
<1> QED BY <1>2, <1>3, <1>4, <1>5, <1>6, <1>7
        DEF StoreNext, storeVars, LiveMessage, HistoryConversation, LearnName,
            Handlers

-----------------------------------------------------------------------------

LEMMA StoreStep ==
  ASSUME StoreInv, [StoreNext]_storeVars PROVE StoreInv'
BY StoreTypeStep, DecidedStep, HasChatStep, NameStep DEF StoreInv

(* The inductive invariant holds in every state of every behaviour. *)
THEOREM StoreInvariant == StoreSpec => []StoreInv
<1>1. StoreInit => StoreInv
  BY StoreInitInv
<1>2. StoreInv /\ [StoreNext]_storeVars => StoreInv'
  BY StoreStep
<1> QED BY <1>1, <1>2, PTL DEF StoreSpec

(* No message a handler was given is forgotten without one of the excuses, and
   every row has its chat (Backend-Bridge/main.go, handleMessage and
   handleHistorySync). *)
THEOREM StoredOrExcusedHolds == StoreSpec => []StoredOrExcused
<1>1. StoreInv => StoredOrExcused
  BY DEF StoreInv, StoredOrExcused, Decided, HasChat
<1> QED BY <1>1, StoreInvariant, PTL

(* A chat keeps its first name unless both handlers looked it up before either
   wrote it, or a look-up failed though it had a row (Backend-Bridge/main.go,
   GetChatName). *)
THEOREM FirstNameStaysHolds == StoreSpec => []FirstNameStays
<1>1. StoreInv => FirstNameStays
  BY DEF StoreInv
<1> QED BY <1>1, StoreInvariant, PTL

(***************************************************************************)
(* BridgeStartup                                                           *)
(***************************************************************************)

(* From the pairing on the process has an account, or had it removed. *)
HasAnAccount == phase \in {"settling", "serving"} => device = "paired" \/ revoked

StartupInv == StartupTypeOK /\ SettingsTogether /\ HasAnAccount

(* The values in use are of one of the three sources. *)
LEMMA LoadedType ==
  ASSUME LoadConfig
  PROVE  source' \in [Settings -> {"env", "file", "default"}]
BY DEF LoadConfig, Defaults, Winner

(* What LoadConfig takes is good, and the environment goes before the file. *)
LEMMA LoadedTogether ==
  ASSUME LoadConfig,
         file' \in [Settings -> FileValues], env' \in [Settings -> EnvValues]
  PROVE  SettingsTogether'
<1>1. CASE ~broken' /\ \A s \in Settings : WinningValue(s) = "good"
  <2>1. source' = [s \in Settings |-> Winner(s)]
    BY <1>1 DEF LoadConfig
  <2>2. ASSUME NEW s \in Settings
        PROVE  /\ source'[s] = "env" <=> env'[s] = "good"
               /\ source'[s] = "file" => file'[s] = "good"
               /\ source'[s] = "default" => file'[s] = "unset"
    <3>1. source'[s] = Winner(s) /\ WinningValue(s) = "good"
      BY <1>1, <2>1
    <3>2. Winner(s) = "env" => env'[s] = "good"
      BY <3>1 DEF WinningValue
    <3>3. env'[s] = "good" => Winner(s) = "env"
      BY DEF Winner, EnvTaken
    <3>4. Winner(s) = "file" => file'[s] = "good"
      BY <3>1 DEF WinningValue
    <3>5. Winner(s) = "default" => file'[s] = "unset"
      BY DEF Winner
    <3> QED BY <3>1, <3>2, <3>3, <3>4, <3>5
  <2> QED BY <1>1, <2>2 DEF SettingsTogether
<1>2. CASE ~(~broken' /\ \A s \in Settings : WinningValue(s) = "good")
  BY <1>2 DEF LoadConfig, SettingsTogether, Defaults
<1> QED BY <1>1, <1>2

LEMMA StartupInitInv ==
  ASSUME StartupInit PROVE StartupInv
BY DEF StartupInit, StartupInv, StartupTypeOK, SettingsTogether, HasAnAccount,
       Defaults, FileValues, EnvValues

LEMMA StartupStep ==
  ASSUME StartupInv, [StartupNext]_startupVars PROVE StartupInv'
<1> USE DEF StartupInv
<1>1. ASSUME NEW b \in BOOLEAN, NEW f \in [Settings -> FileValues],
             NEW e \in [Settings -> EnvValues], Start(b, f, e)
      PROVE  StartupInv'
  <2>1. source' \in [Settings -> {"env", "file", "default"}]
    BY <1>1, LoadedType DEF Start
  <2>2. SettingsTogether'
    BY <1>1, LoadedTogether DEF Start
  <2>3. HasAnAccount'
    BY <1>1 DEF Start, HasAnAccount
  <2> QED BY <1>1, <2>1, <2>2, <2>3 DEF Start, StartupTypeOK
<1>2. CASE UNCHANGED <<broken, file, env, source>>
  <2>1. SettingsTogether'
    BY <1>2 DEF SettingsTogether, Defaults
  <2>2. ASSUME NEW ok \in BOOLEAN, Connect(ok)
        PROVE  StartupInv'
    BY <1>2, <2>1, <2>2 DEF Connect, Exit, StartupTypeOK, HasAnAccount
  <2>3. CASE Scan
    BY <1>2, <2>1, <2>3 DEF Scan, StartupTypeOK, HasAnAccount
  <2>4. CASE ScanTimeout
    BY <1>2, <2>1, <2>4 DEF ScanTimeout, Exit, StartupTypeOK, HasAnAccount
  <2>5. CASE Settle
    BY <1>2, <2>1, <2>5 DEF Settle, Exit, StartupTypeOK, HasAnAccount
  <2>6. CASE LinkChanges
    BY <1>2, <2>1, <2>6 DEF LinkChanges, StartupTypeOK, HasAnAccount
  <2>7. CASE LoggedOut
    BY <1>2, <2>1, <2>7 DEF LoggedOut, StartupTypeOK, HasAnAccount
  <2>8. CASE Signal
    BY <1>2, <2>1, <2>8 DEF Signal, Exit, StartupTypeOK, HasAnAccount
  <2>9. CASE UNCHANGED startupVars
    BY <1>2, <2>1, <2>9 DEF startupVars, StartupTypeOK, HasAnAccount
  <2>10. CASE \E b \in BOOLEAN, f \in [Settings -> FileValues],
                 e \in [Settings -> EnvValues] : Start(b, f, e)
    BY <1>1, <2>10
  <2> QED BY <2>2, <2>3, <2>4, <2>5, <2>6, <2>7, <2>8, <2>9, <2>10
          DEF StartupNext
<1>3. UNCHANGED <<broken, file, env, source>>
        \/ \E b \in BOOLEAN, f \in [Settings -> FileValues],
              e \in [Settings -> EnvValues] : Start(b, f, e)
  BY DEF StartupNext, startupVars, Connect, Scan, ScanTimeout, Settle,
         LinkChanges, LoggedOut, Signal
<1> QED BY <1>1, <1>2, <1>3

(* The inductive invariant holds in every state of every behaviour. *)
THEOREM StartupInvariant == StartupSpec => []StartupInv
<1>1. StartupInit => StartupInv
  BY StartupInitInv
<1>2. StartupInv /\ [StartupNext]_startupVars => StartupInv'
  BY StartupStep
<1> QED BY <1>1, <1>2, PTL DEF StartupSpec

(* What a start promises (main.go:809-960), for any set of settings: the
   settings come together from their sources or are all defaults, and the API
   is served only for an account. *)
THEOREM StartsAsPromisedHolds == StartupSpec => []StartsAsPromised
<1>1. StartupInv => StartsAsPromised
  BY DEF StartupInv, StartsAsPromised, HasAnAccount, ServesAnAccount
<1> QED BY <1>1, StartupInvariant, PTL

-----------------------------------------------------------------------------
(* The three parts side by side. *)

BridgeInv == SenderInv /\ StoreInv /\ StartupInv

LEMMA BridgeStep ==
  ASSUME BridgeInv, [Next]_<<senderVars, storeVars, startupVars>>
  PROVE  BridgeInv'
<1>1. [SenderNext]_senderVars /\ [StoreNext]_storeVars /\ [StartupNext]_startupVars
  BY DEF Next
<1>2. SenderInv'
  BY <1>1, SenderStep DEF BridgeInv
<1>3. StoreInv'
  BY <1>1, StoreStep DEF BridgeInv
<1>4. StartupInv'
  BY <1>1, StartupStep DEF BridgeInv
<1> QED BY <1>2, <1>3, <1>4 DEF BridgeInv

(* The sender, the message store and the start keep their types, and with them
   every invariant of theirs, when they are taken together (main.go:809-1052). *)
THEOREM BridgeInvariant == Spec => []BridgeInv
<1>1. Init => BridgeInv
  BY SenderInitInv, StoreInitInv, StartupInitInv DEF Init, BridgeInv
<1>2. BridgeInv /\ [Next]_<<senderVars, storeVars, startupVars>> => BridgeInv'
  BY BridgeStep
<1> QED BY <1>1, <1>2, PTL DEF Spec

(* So whichever part moves, everything in the process has its type. *)
THEOREM BridgeTyped == Spec => []TypeOK
<1>1. BridgeInv => TypeOK
  BY DEF BridgeInv, SenderInv, StoreInv, StartupInv, TypeOK
<1> QED BY <1>1, BridgeInvariant, PTL

(* A behaviour of the three side by side is one of each by itself, for which
   the other two only stutter. *)
THEOREM BridgePartsMove == Spec => SenderSpec /\ StoreSpec /\ StartupSpec
<1>1. Init => SenderInit /\ StoreInit /\ StartupInit
  BY DEF Init
<1>2. [Next]_<<senderVars, storeVars, startupVars>> =>
        [SenderNext]_senderVars /\ [StoreNext]_storeVars /\ [StartupNext]_startupVars
  BY DEF Next
<1> QED BY <1>1, <1>2, PTL DEF Spec, SenderSpec, StoreSpec, StartupSpec

(* What is proved of each part therefore holds of the instance that is
   checked: receipts told "queued" are accounted for, apart, and sent once
   unless there was an error to blame, messages are stored or excused, names
   stay, and a start keeps its promises. *)
THEOREM BridgeIsRight ==
  Spec => /\ [](/\ QueuedAccounted /\ OnceUnlessBlamed
                /\ StoredOrExcused /\ FirstNameStays /\ StartsAsPromised)
          /\ ReceiptsApart
BY BridgePartsMove, QueuedAccountedHolds, OnceUnlessBlamedHolds, StoredOrExcusedHolds,
   FirstNameStaysHolds, StartsAsPromisedHolds, ReceiptsApartHolds, PTL

=============================================================================
