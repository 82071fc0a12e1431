---------------------------- MODULE BridgeSender ----------------------------
(***************************************************************************)
(* The sending half of Backend-Bridge: the three POST handlers             *)
(* (api/handlers.go), the validation they run (validation/validator.go),   *)
(* the WhatsApp calls they make (api/message_sender.go) and the goroutine  *)
(* that works off the receipt queue.                                       *)
(*                                                                         *)
(* Nothing here is durable.  A receipt is answered "queued" as soon as it  *)
(* is in a channel of 256 places; a crash loses the channel.  A job is     *)
(* tried once, whatever comes of it, and then the worker rests two to      *)
(* three minutes.                                                          *)
(*                                                                         *)
(* Definitions named Wrong... are mutated forms, see Outbox.               *)
(***************************************************************************)
EXTENDS Integers, Sequences

CONSTANTS
  Requests,      (* what users of the bridge want sent                     *)
  Endpoint,      (* the route each request is posted to                    *)
  Words,         (* the words "receipt", "ledger" found in its type,
                    message or path                                        *)
  Paths,         (* what a posted path can name on the disk                *)
  MaxSize,       (* the configured size limit                              *)
  AllowedTypes,  (* the configured extensions                              *)
  QueueCap,      (* places in the receipt channel                          *)
  MinGap,        (* shortest rest after a job, in minutes                  *)
  MaxGap,        (* longest rest after a job                               *)
  NoJob,         (* the worker has no job                                  *)
  MaxTries       (* bound: posts of each request                           *)

Routes == {"send-message", "send-file", "send-file-with-message"}

ASSUME BridgeSenderAssumption ==
  /\ Endpoint \in [Requests -> Routes]
  /\ Words \in [Requests -> SUBSET {"receipt", "ledger"}]
  /\ NoJob \notin Requests
  /\ QueueCap \in Nat \ {0}
  /\ MinGap \in Nat
  /\ MaxGap \in Nat
  /\ MinGap <= MaxGap
  /\ MaxTries \in [Requests -> Nat]

VARIABLES
  queue,      (* the receipt channel                                       *)
  worker,     (* what the queue goroutine is doing                         *)
  job,        (* the request it is doing it for, or NoJob                  *)
  rest,       (* minutes it still sleeps                                   *)
  apart,      (* minutes since a receipt's file last went out, in this
                 process; MaxGap when longer or never                      *)
  call,       (* call[r]: the step the handler of r is at                  *)
  answer,     (* answer[r]: what the last post of r was told               *)
  tries,      (* tries[r]: posts of r                                      *)
  files,      (* files[r]: files WhatsApp took for r                       *)
  texts,      (* texts[r]: texts WhatsApp took for r                       *)
  queued,     (* queued[r]: times r was put in the channel                 *)
  worked,     (* worked[r]: times the worker finished with r               *)
  lost,       (* lost[r]: times r was in memory when the process ended     *)
  blamed      (* requests a failure after WhatsApp took something told the
                 user to send again                                        *)

senderVars == <<queue, worker, job, rest, apart, call, answer, tries, files,
                texts, queued, worked, lost, blamed>>

Zero == [r \in Requests |-> 0]

SenderInit ==
  /\ queue  = <<>>
  /\ worker = "idle" /\ job = NoJob /\ rest = 0 /\ apart = MaxGap
  /\ call   = [r \in Requests |-> "idle"]
  /\ answer = [r \in Requests |-> "none"]
  /\ tries  = Zero /\ files = Zero /\ texts = Zero
  /\ queued = Zero /\ worked = Zero /\ lost = Zero
  /\ blamed = {}

-----------------------------------------------------------------------------

(* The checks of ValidateComplete in their order, and the status of each.
   A path with ".." is refused before the disk is looked at. *)
ValidateComplete(p) ==
  CASE p.dots                       -> 403
    [] ~p.dots /\ ~p.there          -> 404
    [] ~p.dots /\ p.there /\ p.dir  -> 400
    [] OTHER ->
         CASE p.size > MaxSize      -> 413
           [] p.size <= MaxSize /\ ~p.readable -> 403
           [] OTHER -> IF p.ext \in AllowedTypes THEN 200 ELSE 415

(* One mention of a receipt anywhere makes a request a receipt. *)
NormalizeVoucherType(r) ==
  IF "receipt" \in Words[r] THEN "receipt"
  ELSE IF "ledger" \in Words[r] THEN "ledger" ELSE "sale"

IsReceipt(r) ==
  /\ Endpoint[r] = "send-file-with-message"
  /\ NormalizeVoucherType(r) = "receipt"

(* A user posts r, and posts it again only when told it did not work. *)
MayPost(r) ==
  /\ call[r] = "idle"
  /\ tries[r] < MaxTries[r]
  /\ answer[r] \notin {"sent", "queued"}

Answered(r, a) == answer' = [answer EXCEPT ![r] = a]

At(r, step) == call' = [call EXCEPT ![r] = step]

-----------------------------------------------------------------------------

(* A post without a recipient or a text is refused, else the call is made. *)
PostMessage(r) ==
  /\ MayPost(r)
  /\ Endpoint[r] = "send-message"
  /\ tries' = [tries EXCEPT ![r] = @ + 1]
  /\ \/ At(r, "text") /\ UNCHANGED answer
     \/ Answered(r, "refused") /\ UNCHANGED call
  /\ UNCHANGED <<queue, worker, job, rest, apart, files, texts, queued,
                 worked, lost, blamed>>

WrongHasRoom == Len(queue) <= QueueCap

HasRoom == Len(queue) < QueueCap

(* The select in SendFileWithMessage: queued, or refused when it is full. *)
WrongQueueReceipt(r) ==
  /\ queue'  = IF HasRoom THEN Append(queue, r) ELSE queue
  /\ queued' = [queued EXCEPT ![r] = @ + 1]
  /\ Answered(r, "queued")

QueueReceipt(r) ==
  IF HasRoom
    THEN /\ queue'  = Append(queue, r)
         /\ queued' = [queued EXCEPT ![r] = @ + 1]
         /\ Answered(r, "queued")
    ELSE /\ Answered(r, "full")
         /\ UNCHANGED <<queue, queued>>

(* A file that fails validation is answered with its status and goes no
   further; a receipt is for the queue; any other file is sent by the handler
   itself. *)
PostFile(r, p) ==
  /\ MayPost(r)
  /\ Endpoint[r] # "send-message"
  /\ tries' = [tries EXCEPT ![r] = @ + 1]
  /\ \/ /\ ValidateComplete(p) # 200
        /\ Answered(r, "refused")
        /\ UNCHANGED <<queue, call, queued>>
     \/ /\ ValidateComplete(p) = 200
        /\ IsReceipt(r)
        /\ QueueReceipt(r)
        /\ UNCHANGED call
     \/ /\ ValidateComplete(p) = 200
        /\ ~IsReceipt(r)
        /\ At(r, "file")
        /\ UNCHANGED <<queue, answer, queued>>
  /\ UNCHANGED <<worker, job, rest, apart, files, texts, worked, lost, blamed>>

(* What a WhatsApp call can come to.  It fails without effect (no link, bad
   recipient, file gone, upload refused), it succeeds, or it reports an error
   although WhatsApp took the message. *)
Outcomes == {"failed", "sent", "unsure"}

Took(count, r, o) ==
  count' = IF o = "failed" THEN count ELSE [count EXCEPT ![r] = @ + 1]

(* SendFile answers after the file; SendFileWithMessage goes on to the text. *)
CallFile(r, o) ==
  /\ call[r] = "file"
  /\ Took(files, r, o)
  /\ IF o = "sent" /\ Endpoint[r] = "send-file-with-message"
       THEN At(r, "text") /\ UNCHANGED answer
       ELSE At(r, "idle") /\ Answered(r, IF o = "sent" THEN "sent" ELSE "failed")
  /\ blamed' = IF o = "unsure" THEN blamed \cup {r} ELSE blamed
  /\ UNCHANGED <<queue, worker, job, rest, apart, tries, texts, queued,
                 worked, lost>>

(* The text failing after the file went out is answered 500: "File sent but
   failed to send message".  A user who sends again sends the file again. *)
CallText(r, o) ==
  /\ call[r] = "text"
  /\ Took(texts, r, o)
  /\ At(r, "idle")
  /\ Answered(r, IF o = "sent" THEN "sent" ELSE "failed")
  /\ blamed' = IF o = "sent" THEN blamed ELSE blamed \cup {r}
  /\ UNCHANGED <<queue, worker, job, rest, apart, tries, files, queued,
                 worked, lost>>

-----------------------------------------------------------------------------

WorkerTakes ==
  /\ worker = "idle"
  /\ queue # <<>>
  /\ job'    = Head(queue)
  /\ queue'  = Tail(queue)
  /\ worker' = "file"
  /\ UNCHANGED <<rest, apart, call, answer, tries, files, texts, queued,
                 worked, lost, blamed>>

WrongNextReceiptDelay == 0..MaxGap

NextReceiptDelay == MinGap..MaxGap

(* The job is over, however it went, and the worker sleeps. *)
WorkerRests ==
  /\ worker' = "rest"
  /\ job'    = NoJob
  /\ worked' = [worked EXCEPT ![job] = @ + 1]
  /\ rest'  \in NextReceiptDelay

WrongWorkerFile(o) ==
  /\ worker = "file"
  /\ Took(files, job, o)
  /\ apart' = IF o = "failed" THEN apart ELSE 0
  /\ IF o = "sent"
       THEN worker' = "text" /\ UNCHANGED <<queue, job, rest, worked>>
       ELSE /\ worker' = "rest" /\ job' = NoJob /\ rest' = MinGap
            /\ queue' = Append(queue, job)
            /\ UNCHANGED worked
  /\ UNCHANGED <<call, answer, tries, texts, queued, lost, blamed>>

WorkerFile(o) ==
  /\ worker = "file"
  /\ Took(files, job, o)
  /\ apart' = IF o = "failed" THEN apart ELSE 0
  /\ IF o = "sent"
       THEN worker' = "text" /\ UNCHANGED <<job, rest, worked>>
       ELSE WorkerRests
  /\ UNCHANGED <<queue, call, answer, tries, texts, queued, lost, blamed>>

WorkerText(o) ==
  /\ worker = "text"
  /\ Took(texts, job, o)
  /\ WorkerRests
  /\ UNCHANGED <<queue, apart, call, answer, tries, files, queued, lost,
                 blamed>>

WorkerWakes ==
  /\ worker = "rest"
  /\ rest = 0
  /\ worker' = "idle"
  /\ UNCHANGED <<queue, job, rest, apart, call, answer, tries, files, texts,
                 queued, worked, lost, blamed>>

Minute ==
  /\ rest > 0 \/ apart < MaxGap
  /\ rest'  = IF rest > 0 THEN rest - 1 ELSE 0
  /\ apart' = IF apart < MaxGap THEN apart + 1 ELSE apart
  /\ UNCHANGED <<queue, worker, job, call, answer, tries, files, texts,
                 queued, worked, lost, blamed>>

InMemory(r) == job = r \/ \E i \in DOMAIN queue : queue[i] = r

(* The process ends and is started again.  The channel and the job go; a
   handler's caller gets no answer. *)
Restart ==
  /\ queue # <<>> \/ job # NoJob \/ \E r \in Requests : call[r] # "idle"
  /\ queue'  = <<>>
  /\ worker' = "idle" /\ job' = NoJob /\ rest' = 0 /\ apart' = MaxGap
  /\ lost'   = [r \in Requests |->
                  IF InMemory(r) THEN lost[r] + 1 ELSE lost[r]]
  /\ answer' = [r \in Requests |->
                  IF call[r] = "idle" THEN answer[r] ELSE "failed"]
  /\ blamed' = blamed \cup {r \in Requests : call[r] # "idle"}
  /\ call'   = [r \in Requests |-> "idle"]
  /\ UNCHANGED <<tries, files, texts, queued, worked>>

SenderNext ==
  \/ \E r \in Requests : PostMessage(r)
  \/ \E r \in Requests, p \in Paths : PostFile(r, p)
  \/ \E r \in Requests, o \in Outcomes : CallFile(r, o) \/ CallText(r, o)
  \/ WorkerTakes
  \/ \E o \in Outcomes : WorkerFile(o) \/ WorkerText(o)
  \/ WorkerWakes
  \/ Minute
  \/ Restart

SenderSpec == SenderInit /\ [][SenderNext]_senderVars

-----------------------------------------------------------------------------

WorkerSteps == {"idle", "file", "text", "rest"}
Answers     == {"none", "sent", "failed", "refused", "queued", "full"}

SenderTypeOK ==
  /\ queue \in Seq(Requests) /\ Len(queue) <= QueueCap
  /\ worker \in WorkerSteps
  /\ job \in Requests \cup {NoJob}
  /\ rest \in 0..MaxGap /\ apart \in 0..MaxGap
  /\ call \in [Requests -> {"idle", "file", "text"}]
  /\ answer \in [Requests -> Answers]
  /\ tries \in [Requests -> Nat]
  /\ files \in [Requests -> Nat] /\ texts \in [Requests -> Nat]
  /\ queued \in [Requests -> Nat] /\ worked \in [Requests -> Nat]
  /\ lost \in [Requests -> Nat]
  /\ blamed \in SUBSET Requests

(* Every receipt answered "queued" is waiting, being tried, was tried once or
   was lost with the process; none is forgotten or tried twice.  The channel
   never holds more than QueueCap, and a receipt told "queued" was put in it
   (handlers.go, SendFileWithMessage and processReceiptQueue). *)
QueuedAccounted ==
  \A r \in Requests :
    /\ queued[r] = worked[r] + lost[r] + (IF InMemory(r) THEN 1 ELSE 0)
    /\ answer[r] = "queued" => queued[r] = 1
    /\ answer[r] # "queued" => queued[r] = 0

NeedsFile(r) == Endpoint[r] # "send-message"
NeedsText(r) == Endpoint[r] # "send-file"

(* Unless an error was reported after WhatsApp had taken something, nothing
   is sent twice however often a user posts after a failure; and a user told
   "sent" had the file and the text sent, each exactly once. *)
OnceUnlessBlamed ==
  \A r \in Requests \ blamed :
    /\ files[r] <= 1 /\ texts[r] <= 1
    /\ answer[r] = "sent" => /\ NeedsFile(r) => files[r] = 1
                             /\ NeedsText(r) => texts[r] = 1

(* In one process the files of two receipts go out at least MinGap minutes
   apart, also when the first job failed or its outcome is unknown. *)
ReceiptsApart ==
  [][\A r \in Requests :
       IsReceipt(r) /\ files'[r] > files[r] => apart >= MinGap]_senderVars

=============================================================================
