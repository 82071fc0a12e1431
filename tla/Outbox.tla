------------------------------- MODULE Outbox -------------------------------
(***************************************************************************)
(* The durable send queue of tallywa-svc (tallywa/internal/outbox), with   *)
(* the Sender that dispatches an item to WhatsApp (internal/whatsapp), the *)
(* process that runs them, and the WhatsApp connection as environment.     *)
(*                                                                         *)
(* One worker goroutine claims the oldest due item, sends its parts and    *)
(* records the outcome, each record being one BoltDB transaction.  HTTP    *)
(* requests enqueue and resend at any moment.  The process may die between *)
(* any two steps; the database survives, what is in memory does not.       *)
(*                                                                         *)
(* Time is relative.  The code compares stored instants with the current   *)
(* one and nothing else, so an instant is modelled by the number of ticks  *)
(* that remain until it: wait[i] stands for NextAttemptAt - now, and       *)
(* cooldown for lastReceiptSentAt + ReceiptCooldown - now, both 0 once     *)
(* they have passed.                                                       *)
(*                                                                         *)
(* A definition whose name starts with Wrong is no part of the             *)
(* specification: it is the definition after it with a plausible bug, and  *)
(* serves to test that the properties below would notice.                  *)
(***************************************************************************)
EXTENDS Naturals, Sequences

CONSTANTS
  MaxItems,       (* bound: items ever enqueued                           *)
  Keys,           (* idempotency keys                                     *)
  NoKey,          (* an item enqueued without a key                       *)
  Requests,       (* what callers ask to send: [key, kind, receipt]       *)
  MaxAttempts,    (* attempts before an item is dead (8 in the code)      *)
  Backoff,        (* base delays of DefaultSchedule, in ticks             *)
  Cooldown,       (* ReceiptCooldown, in ticks                            *)
  RecoveryDelay,  (* delay of an item found in "sending" at Open          *)
  MaxResends,     (* bound: Resend clicks per item                        *)
  MaxRestarts     (* bound: deaths of the process                         *)

Slots == 1..MaxItems
None  == 0
Kinds == {"text", "file", "file_with_text"}
Parts == {"file", "text"}

ASSUME BoundsAssumption ==
  /\ MaxItems \in Nat
  /\ MaxResends \in Nat
  /\ MaxRestarts \in Nat

ASSUME TimingAssumption ==
  /\ MaxAttempts \in Nat \ {0}
  /\ Backoff \in Seq(Nat)
  /\ Backoff # << >>
  /\ Cooldown \in Nat
  /\ RecoveryDelay \in Nat

ASSUME RequestsAssumption ==
  /\ NoKey \notin Keys
  /\ Requests \subseteq [key : Keys \cup {NoKey}, kind : Kinds, receipt : BOOLEAN]

NoRequest == [key |-> NoKey, kind |-> "none", receipt |-> FALSE]

VARIABLES
  (* The database file: bucket "items" (in ULID order) and bucket "idem". *)
  status,      (* status[i]; "absent" before the item exists              *)
  request,     (* the fields of item i that never change                  *)
  attempts,    (* failures counted against item i                         *)
  wait,        (* ticks until NextAttemptAt of item i                     *)
  idem,        (* idem[k]: the item enqueued under key k, or None         *)
  (* The process. *)
  up,          (* the process runs with the outbox open                   *)
  pc,          (* where the worker goroutine is in Step                   *)
  current,     (* the item the worker holds, or None                      *)
  cooldown,    (* ticks until the next receipt may be claimed             *)
  (* The environment. *)
  connected,   (* WhatsApp socket up and device paired                    *)
  (* History, never read by an action of the code. *)
  copies,      (* copies[i][p]: 0, 1 or 2 (more than one) of part p sent  *)
  doubtful,    (* items for which a second copy has a known cause         *)
  stranded,    (* items whose outcome the database refused to record      *)
  reached,     (* items for which WhatsApp was ever called                *)
  claims,      (* claims[i]: how often the worker has claimed item i      *)
  resent,      (* resent[i]: how often the operator has resent item i     *)
  restarts,    (* how often the process was started again                 *)
  quiet,       (* ticks since a receipt went out, up to Cooldown          *)
  forgot       (* the memory of the last receipt was lost                 *)

db      == <<status, request, attempts, wait, idem>>
worker  == <<pc, current>>
history == <<copies, doubtful, stranded, reached, claims, resent, restarts,
             quiet, forgot>>
vars    == <<db, up, worker, cooldown, connected, history>>

-----------------------------------------------------------------------------
(* Helpers. *)

(* The WhatsApp messages one item becomes, in order: the switch of
   Sender.Send.  The HTTP handlers build no other kind. *)
PartsOf(kind) ==
  CASE kind = "text"           -> {"text"}
    [] kind = "file"           -> {"file"}
    [] kind = "file_with_text" -> {"file", "text"}
    [] OTHER                   -> {}

FirstPart(kind) == IF "file" \in PartsOf(kind) THEN "file" ELSE "text"

(* DefaultSchedule: the table entry of this attempt, clamped to the table's
   ends, plus up to a fifth of it as jitter. *)
Clamp(n) == IF n < 1 THEN 1 ELSE IF n > Len(Backoff) THEN Len(Backoff) ELSE n

Schedule(attempt) ==
  LET base == Backoff[Clamp(attempt)] IN base .. (base + (base \div 5))

IsReceipt(i) == request[i].receipt

Bump(n) == IF n < 2 THEN n + 1 ELSE n

Less(n) == IF n = 0 THEN 0 ELSE n - 1

Delivered(i) ==
  /\ request[i].kind \in Kinds
  /\ \A p \in PartsOf(request[i].kind) : copies[i][p] > 0

AnyCopy(i) == \E p \in Parts : copies[i][p] > 0

-----------------------------------------------------------------------------
Init ==
  /\ status    = [i \in Slots |-> "absent"]
  /\ request   = [i \in Slots |-> NoRequest]
  /\ attempts  = [i \in Slots |-> 0]
  /\ wait      = [i \in Slots |-> 0]
  /\ idem      = [k \in Keys |-> None]
  /\ up        = TRUE
  /\ pc        = "idle"
  /\ current   = None
  /\ cooldown  = 0
  /\ connected = FALSE
  /\ copies    = [i \in Slots |-> [p \in Parts |-> 0]]
  /\ doubtful  = {}
  /\ stranded  = {}
  /\ reached   = {}
  /\ claims    = [i \in Slots |-> 0]
  /\ resent    = [i \in Slots |-> 0]
  /\ restarts  = 0
  /\ quiet     = Cooldown
  /\ forgot    = FALSE

-----------------------------------------------------------------------------
(* Requests from HTTP handlers: each is one write transaction. *)

WrongKnown(key) == key # NoKey /\ idem[key] # None /\ status[idem[key]] # "dead"

Known(key) == key # NoKey /\ idem[key] # None

(* The double click: the key is known, the existing item is returned as it
   stands, whatever its status, and nothing is written. *)
Deduplicate(r) ==
  /\ up
  /\ Known(r.key)
  /\ UNCHANGED vars

(* ULIDs grow with time, so a new item takes the lowest free slot. *)
NextFree(i) ==
  /\ status[i] = "absent"
  /\ \A j \in Slots : status[j] = "absent" => i <= j

Accept(r, i) ==
  /\ up
  /\ ~Known(r.key)
  /\ NextFree(i)
  /\ status'  = [status EXCEPT ![i] = "pending"]
  /\ request' = [request EXCEPT ![i] = r]
  /\ idem'    = [k \in Keys |-> IF k = r.key THEN i ELSE idem[k]]
  /\ UNCHANGED <<attempts, wait, up, worker, cooldown, connected, history>>

Enqueue == \E r \in Requests : Deduplicate(r) \/ \E i \in Slots : Accept(r, i)

WrongResendable(i) == status[i] # "absent"

Resendable(i) == status[i] \in {"pending", "sent", "dead"}

(* The dashboard's Resend.  An item in "sending" is left alone; the count of
   attempts is kept, so a dead item gets one more try. *)
Requeue(i) ==
  /\ up
  /\ Resendable(i)
  /\ resent[i] < MaxResends
  /\ status'   = [status EXCEPT ![i] = "pending"]
  /\ wait'     = [wait EXCEPT ![i] = 0]
  /\ resent'   = [resent EXCEPT ![i] = @ + 1]
  /\ doubtful' = IF status[i] = "sent" THEN doubtful \cup {i} ELSE doubtful
  /\ UNCHANGED <<request, attempts, idem, up, worker, cooldown, connected, copies,
                 stranded, reached, claims, restarts, quiet, forgot>>

-----------------------------------------------------------------------------
(* The worker: Step, one transaction or one call to WhatsApp at a time. *)

WrongDue(i) == status[i] = "pending" /\ wait[i] = 0

Due(i) ==
  /\ status[i] = "pending"
  /\ wait[i] = 0
  /\ IsReceipt(i) => cooldown = 0

Goto(l) == pc' = l /\ UNCHANGED current

(* claimNext: the oldest due item.  A claim whose transaction fails changes
   nothing and is tried again at the next tick of the worker. *)
ClaimNext(i) ==
  /\ up
  /\ pc = "idle"
  /\ Due(i)
  /\ \A j \in Slots : Due(j) => i <= j
  /\ status'  = [status EXCEPT ![i] = "sending"]
  /\ claims'  = [claims EXCEPT ![i] = @ + 1]
  /\ pc'      = "dispatch"
  /\ current' = i
  /\ UNCHANGED <<request, attempts, wait, idem, up, cooldown, connected, copies,
                 doubtful, stranded, reached, resent, restarts, quiet, forgot>>

(* Sender.Send: without a connection the attempt fails before any call. *)
Dispatch ==
  /\ pc = "dispatch"
  /\ IF connected
       THEN /\ Goto(FirstPart(request[current].kind))
            /\ reached' = reached \cup {current}
       ELSE Goto("transient") /\ UNCHANGED reached
  /\ UNCHANGED <<db, up, cooldown, connected, copies, doubtful, stranded, claims,
                 resent, restarts, quiet, forgot>>

WrongLastPart(p) == TRUE

LastPart(p) == p = "text" \/ "text" \notin PartsOf(request[current].kind)

(* One SendFile or SendText that WhatsApp takes and acknowledges. *)
SendOk ==
  /\ pc \in Parts
  /\ connected
  /\ copies' = [copies EXCEPT ![current][pc] = Bump(@)]
  /\ Goto(IF LastPart(pc) THEN "mark_sent" ELSE "text")
  /\ quiet' = IF LastPart(pc) /\ IsReceipt(current) THEN 0 ELSE quiet
  /\ UNCHANGED <<db, up, cooldown, connected, doubtful, stranded, reached, claims,
                 resent, restarts, forgot>>

(* WhatsApp takes the part, but the answer is lost: the call times out. *)
SendUnanswered ==
  /\ pc \in Parts
  /\ connected
  /\ copies'   = [copies EXCEPT ![current][pc] = Bump(@)]
  /\ doubtful' = doubtful \cup {current}
  /\ Goto("transient")
  /\ UNCHANGED <<db, up, cooldown, connected, stranded, reached, claims, resent,
                 restarts, quiet, forgot>>

(* The call fails; only while connected can WhatsApp refuse for good.  Parts
   sent before the failing one stay sent. *)
SendFails(outcome) ==
  /\ pc \in Parts
  /\ outcome = "permanent" => connected
  /\ Goto(outcome)
  /\ doubtful' = IF AnyCopy(current) THEN doubtful \cup {current} ELSE doubtful
  /\ UNCHANGED <<db, up, cooldown, connected, copies, stranded, reached, claims,
                 resent, restarts, quiet, forgot>>

WrongFinish == pc' = "idle" /\ UNCHANGED current

(* Step returns: the worker holds nothing until its next claim. *)
Finish == pc' = "idle" /\ current' = None

(* markSent: the status first, then, in memory, the start of the cooldown. *)
MarkSent ==
  /\ pc = "mark_sent"
  /\ status' = [status EXCEPT ![current] = "sent"]
  /\ IF IsReceipt(current)
       THEN cooldown' = Cooldown /\ forgot' = FALSE
       ELSE UNCHANGED <<cooldown, forgot>>
  /\ Finish
  /\ UNCHANGED <<request, attempts, wait, idem, up, connected, copies, doubtful,
                 stranded, reached, claims, resent, restarts, quiet>>

WrongExhausted(n, outcome) == outcome = "permanent" \/ n > MaxAttempts

Exhausted(n, outcome) == outcome = "permanent" \/ n >= MaxAttempts

WrongFailures(i) == attempts[i]

Failures(i) == attempts[i] + 1

(* markFailed: count the failure, then give up or back off.  A permanent
   failure is counted too. *)
MarkFailed ==
  /\ pc \in {"transient", "permanent"}
  /\ LET n == Failures(current) IN
       /\ attempts' = [attempts EXCEPT ![current] = n]
       /\ IF Exhausted(n, pc)
            THEN /\ status' = [status EXCEPT ![current] = "dead"]
                 /\ UNCHANGED wait
            ELSE /\ status' = [status EXCEPT ![current] = "pending"]
                 /\ \E d \in Schedule(n) : wait' = [wait EXCEPT ![current] = d]
  /\ Finish
  /\ UNCHANGED <<request, idem, up, cooldown, connected, history>>

(* The transaction of markSent or markFailed fails: Step logs it and goes on,
   and the item stays in "sending". *)
MarkLost ==
  /\ pc \in {"mark_sent", "transient", "permanent"}
  /\ stranded' = stranded \cup {current}
  /\ doubtful' = IF AnyCopy(current) THEN doubtful \cup {current} ELSE doubtful
  /\ forgot'   = (forgot \/ (pc = "mark_sent" /\ IsReceipt(current)))
  /\ Finish
  /\ UNCHANGED <<db, up, cooldown, connected, copies, reached, claims, resent,
                 restarts, quiet>>

Work ==
  \/ \E i \in Slots : ClaimNext(i)
  \/ Dispatch
  \/ SendOk
  \/ SendUnanswered
  \/ SendFails("transient")
  \/ SendFails("permanent")
  \/ MarkSent
  \/ MarkFailed
  \/ MarkLost

-----------------------------------------------------------------------------
(* The process and its environment. *)

(* The process ends anywhere: power loss, a kill, the dashboard's Restart
   (os.Exit), or an orderly stop of the service between two Steps. *)
Die ==
  /\ up
  /\ restarts < MaxRestarts
  /\ up'       = FALSE
  /\ cooldown' = 0
  /\ Finish
  /\ doubtful' = IF current # None /\ AnyCopy(current)
                   THEN doubtful \cup {current} ELSE doubtful
  /\ forgot'   = TRUE
  /\ connected' = FALSE
  /\ UNCHANGED <<db, copies, stranded, reached, claims, resent, restarts, quiet>>

WrongInterrupted(st) == st \in {"sending", "sent"}

WrongInterruptedNever(st) == FALSE

Interrupted(st) == st = "sending"

(* Open and recoverInflight, one transaction over the whole bucket. *)
Open ==
  /\ ~up
  /\ up'       = TRUE
  /\ status'   = [i \in Slots |-> IF Interrupted(status[i]) THEN "pending" ELSE status[i]]
  /\ wait'     = [i \in Slots |-> IF Interrupted(status[i]) THEN RecoveryDelay ELSE wait[i]]
  /\ stranded' = {}
  /\ restarts' = restarts + 1
  /\ UNCHANGED <<request, attempts, idem, worker, cooldown, connected, copies,
                 doubtful, reached, claims, resent, quiet, forgot>>

Connect    == up /\ ~connected /\ connected' = TRUE
              /\ UNCHANGED <<db, up, worker, cooldown, history>>

Disconnect == connected /\ connected' = FALSE
              /\ UNCHANGED <<db, up, worker, cooldown, history>>

(* One tick of the wall clock. *)
Tick ==
  /\ \/ cooldown > 0
     \/ quiet < Cooldown
     \/ \E i \in Slots : wait[i] > 0
  /\ wait'     = [i \in Slots |-> Less(wait[i])]
  /\ cooldown' = Less(cooldown)
  /\ quiet'    = IF quiet < Cooldown THEN quiet + 1 ELSE quiet
  /\ UNCHANGED <<status, request, attempts, idem, up, worker, connected, copies,
                 doubtful, stranded, reached, claims, resent, restarts, forgot>>

Next ==
  \/ Enqueue
  \/ \E i \in Slots : Requeue(i)
  \/ Work
  \/ Die
  \/ Open
  \/ Connect
  \/ Disconnect
  \/ Tick

Spec == Init /\ [][Next]_vars

(* The worker runs whenever it can and a call to WhatsApp returns, the clock
   goes on, and the service manager starts a service that has ended. *)
Fairness == WF_vars(Work) /\ WF_vars(Tick) /\ WF_vars(Open)

FairSpec == Spec /\ Fairness

-----------------------------------------------------------------------------
(* Properties. *)

(* Every variable has its type, and the worker holds an item exactly while it
   is inside Step with one, which it is only while the process runs. *)
TypeOK ==
  /\ status    \in [Slots -> {"absent", "pending", "sending", "sent", "dead"}]
  /\ request   \in [Slots -> Requests \cup {NoRequest}]
  /\ attempts  \in [Slots -> Nat]
  /\ wait      \in [Slots -> Nat]
  /\ idem      \in [Keys -> Slots \cup {None}]
  /\ up        \in BOOLEAN
  /\ pc        \in {"idle", "dispatch", "file", "text", "mark_sent", "transient",
                    "permanent"}
  /\ current   \in Slots \cup {None}
  /\ (pc = "idle") <=> (current = None)
  /\ ~up => pc = "idle"
  /\ cooldown  \in Nat
  /\ connected \in BOOLEAN
  /\ copies    \in [Slots -> [Parts -> 0..2]]
  /\ doubtful  \subseteq Slots
  /\ stranded  \subseteq Slots
  /\ reached   \subseteq Slots
  /\ claims    \in [Slots -> Nat]
  /\ resent    \in [Slots -> Nat]
  /\ restarts  \in Nat
  /\ quiet     \in 0..Cooldown
  /\ forgot    \in BOOLEAN

(* While the process runs, an item in "sending" is the one the worker holds,
   or one whose outcome the database refused to record; and the item the
   worker holds is in "sending", so no Resend and no recovery takes it away
   during the send.  (claimNext, Requeue, recoverInflight, the ignored errors
   of Step.) *)
SendingIsHeld ==
  /\ current # None => status[current] = "sending"
  /\ up => \A i \in Slots : status[i] = "sending" => i = current \/ i \in stranded

(* An item reported as sent had every one of its parts taken by WhatsApp.
   (Sender.Send of file_with_text, markSent, across crashes and resends.) *)
SentMeansDelivered ==
  \A i \in Slots : status[i] = "sent" => Delivered(i)

(* An idempotency key stands for one item for ever: the index points at it,
   and no second item carries the key.  (Enqueue's transaction.) *)
OneItemPerKey ==
  /\ \A i \in Slots : request[i].key # NoKey => idem[request[i].key] = i
  /\ \A k \in Keys : idem[k] # None => request[idem[k]].key = k

(* WhatsApp gets a part of an item twice only after one of the causes listed
   in the actions that set "doubtful": an answer lost by WhatsApp, a failure
   after another part went out, a crash or a refused write before the outcome
   was recorded, or the Resend of a sent item. *)
NoUnexplainedDuplicate ==
  \A i \in Slots : i \notin doubtful => \A p \in Parts : copies[i][p] <= 1

(* Every claim of an item is paid for by a counted failure, a Resend, a
   restart, or the send under way or done: no path retries for free. *)
ClaimsAccounted ==
  \A i \in Slots :
    claims[i] <= attempts[i] + resent[i] + restarts
                 + (IF status[i] \in {"sending", "sent"} THEN 1 ELSE 0)

(* An item that may still be tried has fewer failures than MaxAttempts, give
   or take one for each Resend; no item ever has more.  (markFailed's limit,
   Requeue's "attempts are preserved".) *)
AttemptsWithinBudget ==
  \A i \in Slots :
    /\ attempts[i] <= MaxAttempts + resent[i]
    /\ status[i] \in {"pending", "sending"} => attempts[i] < MaxAttempts + resent[i]

(* Two receipts: unless the process has restarted or failed to record the
   last receipt since it went out, a receipt is claimed no sooner than
   Cooldown after it.  (ReceiptCooldown in claimNext and markSent.) *)
ReceiptSpacing ==
  [][\A i \in Slots :
       status[i] = "pending" /\ status'[i] = "sending" /\ IsReceipt(i) /\ ~forgot
         => quiet = Cooldown]_vars

(* The refinement mapping: "pending" and "sending" are both queued. *)
QueueState ==
  [i \in Slots |-> IF status[i] \in {"pending", "sending"} THEN "queued" ELSE status[i]]

QueueKey == [i \in Slots |-> request[i].key]

Handed == {i \in Slots : Delivered(i)}

Queue == INSTANCE MessageQueue WITH
  state <- QueueState, key <- QueueKey, handed <- Handed

(* The outbox keeps the promise of MessageQueue: no accepted item is lost or
   accepted twice under its key, only a delivered one is confirmed, and only
   a Resend reopens one. *)
ImplementsQueue == Queue!Spec

(* Every pending item is in the end sent or dead, or stranded by a database
   error, whatever WhatsApp answers and wherever the process dies. *)
EventuallySettled ==
  \A i \in Slots :
    status[i] = "pending" ~> status[i] \in {"sent", "dead"} \/ i \in stranded

-----------------------------------------------------------------------------
(* What comments of the code say, and the code does not do. *)

(* outbox.go, recoverInflight: "the idempotency key ... prevents duplicates at
   the app layer" when an item in flight is retried after a crash. *)
KeyPreventsDuplicateAfterCrash ==
  \A i \in Slots :
    request[i].key # NoKey /\ resent[i] = 0 /\ attempts[i] = 0
      => \A p \in Parts : copies[i][p] <= 1

(* outbox.go, claimNext: "we never claim a receipt sooner than ReceiptCooldown
   after the previous receipt's successful send". *)
ReceiptSpacingAlways ==
  [][\A i \in Slots :
       status[i] = "pending" /\ status'[i] = "sending" /\ IsReceipt(i)
         => quiet = Cooldown]_vars

(* whatsapp.go, Sender.Send: not being connected is "Transient: keep retrying
   until the user re-pairs WhatsApp", so an item WhatsApp was never called for
   does not die. *)
RetriedUntilReached ==
  \A i \in Slots : status[i] = "dead" => i \in reached

=============================================================================
