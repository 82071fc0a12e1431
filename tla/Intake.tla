------------------------------- MODULE Intake -------------------------------
(***************************************************************************)
(* How a button in Tally becomes items of the outbox: the COM class        *)
(* (TallyInterface.cs) walks through the contacts on a thread of its own,  *)
(* the HTTP client (WhatsAppClient.cs) posts and retries, reading the      *)
(* published port each time (RegistryHandshake.cs), and the handlers of    *)
(* the service (internal/httpapi) check and enqueue.                       *)
(*                                                                         *)
(* The service may be restarted at any point, with another port, which it  *)
(* publishes only when it listens; an answer may be lost or come after the *)
(* client has given up; and at a port that is not the service's any more   *)
(* another program may answer.  The outbox is abstracted to what module    *)
(* Outbox shows of it: an item whose key is known already is not added     *)
(* again.                                                                  *)
(*                                                                         *)
(* Definitions named Wrong... are mutated forms, see Outbox.               *)
(***************************************************************************)
EXTENDS Integers, Sequences, FiniteSets

CONSTANTS
  Presses,      (* presses of a button                                     *)
  Kind,         (* "voucher", "file" or "text"                             *)
  Voucher,      (* the Guid:Now of a voucher, the path of a file           *)
  Contacts,     (* the contacts of each press, in their order              *)
  Valid,        (* the contacts that are numbers of 12 digits              *)
  MaxRetries,   (* attempts of one post                                    *)
  MaxPresses,   (* bound: presses that are made                            *)
  MaxRestarts,  (* bound: restarts of the service                          *)
  MaxBuckets    (* bound: five-minute windows that begin                   *)

Everyone == UNION {{Contacts[p][i] : i \in DOMAIN Contacts[p]} : p \in Presses}

ASSUME IntakeAssumption ==
  /\ Kind \in [Presses -> {"voucher", "file", "text"}]
  /\ Contacts \in [Presses -> Seq(Everyone)]
  /\ Valid \subseteq Everyone
  /\ MaxRetries \in Nat \ {0}
  /\ MaxPresses \in Nat /\ MaxRestarts \in Nat /\ MaxBuckets \in Nat

VARIABLES
  up,         (* the service listens                                       *)
  actual,     (* the port it listens, or listened last, at                 *)
  published,  (* the port in the registry; 0 when there is none            *)
  licensed,   (* the service has a licence                                 *)
  bucket,     (* the five-minute window the time is in                     *)
  keys,       (* the keys in the outbox                                    *)
  items,      (* items[p][c]: items added for contact c by press p         *)
  flight,     (* requests that reached the service and are not handled     *)
  stage,      (* stage[p]: where the thread of p is                        *)
  at,         (* at[p]: the contact it is at, by number                    *)
  attempt,    (* attempt[p]: the attempt of the current post               *)
  using,      (* using[p]: the port it read for this attempt               *)
  failures,   (* failures[p]: contacts that failed                         *)
  posts,      (* posts[p][c]: attempts of a text that reached the service  *)
  began,      (* began[p]: the window file p was pressed in                *)
  told,       (* told[p]: what the COM call returned                       *)
  misled      (* <<p, c>> if another program answered p's post for contact c
                 as if it had been the service                             *)

intakeVars == <<up, actual, published, licensed, bucket, keys, items, flight,
                stage, at, attempt, using, failures, posts, began, told, misled>>

service == <<up, actual, published, licensed>>

None == [c \in Everyone |-> 0]

IntakeInit ==
  /\ up = FALSE /\ actual = 0 /\ published = 0 /\ licensed = FALSE
  /\ bucket = 0 /\ keys = {} /\ flight = {} /\ misled = {}
  /\ items    = [p \in Presses |-> None]
  /\ posts    = [p \in Presses |-> None]
  /\ stage    = [p \in Presses |-> "idle"]
  /\ at       = [p \in Presses |-> 0]
  /\ attempt  = [p \in Presses |-> 0]
  /\ using    = [p \in Presses |-> 0]
  /\ failures = [p \in Presses |-> 0]
  /\ began    = [p \in Presses |-> 0]
  /\ told     = [p \in Presses |-> "nothing"]

-----------------------------------------------------------------------------

(* The service binds a free port, and then publishes it.  It may fail to
   publish, and goes on. *)
ServiceStarts(l) ==
  /\ ~up
  /\ actual <= MaxRestarts
  /\ up' = TRUE
  /\ actual'   = actual + 1
  /\ licensed' = l
  /\ UNCHANGED <<published, bucket, keys, items, flight, stage, at, attempt,
                 using, failures, posts, began, told, misled>>

PublishPort ==
  /\ up
  /\ published # actual
  /\ published' = actual
  /\ UNCHANGED <<up, actual, licensed, bucket, keys, items, flight, stage, at,
                 attempt, using, failures, posts, began, told, misled>>

Activated ==
  /\ up
  /\ ~licensed
  /\ licensed' = TRUE
  /\ UNCHANGED <<up, actual, published, bucket, keys, items, flight, stage, at,
                 attempt, using, failures, posts, began, told, misled>>

(* The port stays in the registry; what was not handled is dropped. *)
ServiceEnds ==
  /\ up
  /\ up' = FALSE
  /\ flight' = {}
  /\ UNCHANGED <<actual, published, licensed, bucket, keys, items, stage, at,
                 attempt, using, failures, posts, began, told, misled>>

WindowEnds ==
  /\ bucket < MaxBuckets
  /\ bucket' = bucket + 1
  /\ UNCHANGED <<service, keys, items, flight, stage, at, attempt, using,
                 failures, posts, began, told, misled>>

-----------------------------------------------------------------------------

GoTo(p, s) == stage' = [stage EXCEPT ![p] = s]

Current(p) == Contacts[p][at[p]]

(* A button is pressed; without its attachment nothing is sent. *)
Press(p) ==
  /\ stage[p] = "idle"
  /\ Cardinality({q \in Presses : stage[q] # "idle"}) < MaxPresses
  /\ began' = [began EXCEPT ![p] = IF Kind[p] = "file" THEN bucket ELSE 0]
  /\ \/ /\ GoTo(p, "contact")
        /\ at' = [at EXCEPT ![p] = 1]
        /\ UNCHANGED told
     \/ /\ Kind[p] # "text"
        /\ GoTo(p, "done")
        /\ told' = [told EXCEPT ![p] = "no file"]
        /\ UNCHANGED at
  /\ UNCHANGED <<service, bucket, keys, items, flight, attempt, using,
                 failures, posts, misled>>

(* A number that is not one counts as failed, and the next has its turn. *)
BeginContact(p) ==
  /\ stage[p] = "contact"
  /\ at[p] <= Len(Contacts[p])
  /\ IF Current(p) \in Valid
       THEN /\ GoTo(p, "load")
            /\ attempt' = [attempt EXCEPT ![p] = 1]
            /\ UNCHANGED <<at, failures>>
       ELSE /\ at' = [at EXCEPT ![p] = @ + 1]
            /\ failures' = [failures EXCEPT ![p] = @ + 1]
            /\ UNCHANGED <<stage, attempt>>
  /\ UNCHANGED <<service, bucket, keys, items, flight, using, posts, began,
                 told, misled>>

Finish(p) ==
  /\ stage[p] = "contact"
  /\ at[p] > Len(Contacts[p])
  /\ GoTo(p, "done")
  /\ told' = [told EXCEPT ![p] = IF failures[p] = 0 THEN "finished" ELSE "partial"]
  /\ UNCHANGED <<service, bucket, keys, items, flight, at, attempt, using,
                 failures, posts, began, misled>>

(* The contact is through; the loop goes on with the next. *)
WrongContactOver(p, success) ==
  /\ GoTo(p, "contact")
  /\ at' = [at EXCEPT ![p] = @ + 1]
  /\ failures' = IF success THEN [failures EXCEPT ![p] = 0]
                            ELSE [failures EXCEPT ![p] = @ + 1]
  /\ attempt' = [attempt EXCEPT ![p] = 0]
  /\ using'   = [using EXCEPT ![p] = 0]

ContactOver(p, success) ==
  /\ GoTo(p, "contact")
  /\ at' = [at EXCEPT ![p] = @ + 1]
  /\ failures' = IF success THEN failures ELSE [failures EXCEPT ![p] = @ + 1]
  /\ attempt' = [attempt EXCEPT ![p] = 0]
  /\ using'   = [using EXCEPT ![p] = 0]

(* PostWithRetry: an error that is not the client's own is tried again. *)
TryAgain(p) ==
  IF attempt[p] < MaxRetries
    THEN /\ GoTo(p, "load")
         /\ attempt' = [attempt EXCEPT ![p] = @ + 1]
         /\ using'   = [using EXCEPT ![p] = 0]
         /\ UNCHANGED <<at, failures>>
    ELSE ContactOver(p, FALSE)

(* RegistryHandshake.Load, anew for each attempt. *)
LoadHandshake(p) ==
  /\ stage[p] = "load"
  /\ IF published = 0
       THEN TryAgain(p)
       ELSE /\ GoTo(p, "send")
            /\ using' = [using EXCEPT ![p] = published]
            /\ UNCHANGED <<at, attempt, failures>>
  /\ UNCHANGED <<service, bucket, keys, items, flight, posts, began, told,
                 misled>>

Request(p) == [press |-> p, contact |-> Current(p), number |-> attempt[p]]

Arrives(p) ==
  /\ stage[p] = "send"
  /\ up /\ using[p] = actual
  /\ GoTo(p, "wait")
  /\ flight' = flight \cup {Request(p)}
  /\ posts'  = IF Kind[p] = "text"
                 THEN [posts EXCEPT ![p][Current(p)] = @ + 1] ELSE posts
  /\ UNCHANGED <<service, bucket, keys, items, at, attempt, using, failures,
                 began, told, misled>>

(* What there is to hear at a port that is not the service's any more: nothing,
   or the answer of another program, which nothing in it tells from the
   service's own.  A 2xx without an error in its body, or a body that says so, is
   a success, any other 4xx a failure for good, and the rest is tried again. *)
Replies == {"success", "failure", "other"}

ReachesAnother(p, reply) ==
  /\ stage[p] = "send"
  /\ ~(up /\ using[p] = actual)
  /\ IF reply = "other" THEN TryAgain(p) ELSE ContactOver(p, reply = "success")
  /\ misled' = misled \cup
       IF reply = "success" THEN {<<p, Current(p)>>} ELSE {}
  /\ UNCHANGED <<service, bucket, keys, items, flight, posts, began, told>>

(* No answer in time, or the connection broke. *)
NoAnswer(p) ==
  /\ stage[p] = "wait"
  /\ TryAgain(p)
  /\ UNCHANGED <<service, bucket, keys, items, flight, posts, began, told,
                 misled>>

-----------------------------------------------------------------------------

(* The key of an item.  The caller's own is for good; the default is good for
   the window in which the request is handled; a text has none. *)
WrongKey(p, c) ==
  CASE Kind[p] = "voucher" -> {<<Voucher[p]>>}
    [] Kind[p] = "file"    -> {<<Voucher[p], c, bucket>>}
    [] Kind[p] = "text"    -> {}

Key(p, c) ==
  CASE Kind[p] = "voucher" -> {<<Voucher[p], c>>}
    [] Kind[p] = "file"    -> {<<Voucher[p], c, bucket>>}
    [] Kind[p] = "text"    -> {}

(* The item is added unless its key is there; both are a success. *)
Enqueue(p, c) ==
  /\ keys' = keys \cup Key(p, c)
  /\ items' = IF Key(p, c) # {} /\ Key(p, c) \subseteq keys
                THEN items ELSE [items EXCEPT ![p][c] = @ + 1]

(* What a handler answers. *)
Statuses == {"queued", "refused", "broken"}

(* The answer reaches the client if it still waits for this very request. *)
Answer(f, status) ==
  /\ stage[f.press] = "wait"
  /\ f = Request(f.press)
  /\ IF status = "broken" THEN TryAgain(f.press)
                          ELSE ContactOver(f.press, status = "queued")

NotDelivered == UNCHANGED <<stage, at, attempt, using, failures>>

(* requireLicense: without a licence nothing gets past a refusal. *)
RequireLicense(status) == status = "refused" \/ licensed

(* A request is handled: refused without a licence (402) or for what it holds
   (400), queued, or not because the outbox failed (500). *)
Handle(f, status) ==
  /\ RequireLicense(status)
  /\ IF status = "queued" THEN Enqueue(f.press, f.contact)
                          ELSE UNCHANGED <<keys, items>>
  /\ flight' = flight \ {f}
  /\ Answer(f, status) \/ NotDelivered
  /\ UNCHANGED <<service, bucket, posts, began, told, misled>>

IntakeNext ==
  \/ \E l \in BOOLEAN : ServiceStarts(l)
  \/ PublishPort \/ Activated \/ ServiceEnds \/ WindowEnds
  \/ \E p \in Presses :
       \/ Press(p) \/ BeginContact(p) \/ Finish(p)
       \/ LoadHandshake(p) \/ Arrives(p) \/ NoAnswer(p)
       \/ \E reply \in Replies : ReachesAnother(p, reply)
  \/ \E f \in flight, status \in Statuses : Handle(f, status)

IntakeSpec == IntakeInit /\ [][IntakeNext]_intakeVars

-----------------------------------------------------------------------------

IntakeTypeOK ==
  /\ up \in BOOLEAN /\ licensed \in BOOLEAN
  /\ actual \in 0..MaxRestarts + 1 /\ published \in 0..actual
  /\ bucket \in 0..MaxBuckets
  /\ items \in [Presses -> [Everyone -> Nat]]
  /\ posts \in [Presses -> [Everyone -> Nat]]
  /\ \A f \in flight : f.press \in Presses /\ f.contact \in Valid
  /\ stage \in [Presses -> {"idle", "contact", "load", "send", "wait", "done"}]
  /\ at \in [Presses -> Nat] /\ attempt \in [Presses -> 0..MaxRetries]
  /\ using \in [Presses -> 0..actual]
  /\ failures \in [Presses -> Nat] /\ began \in [Presses -> 0..bucket]
  /\ told \in [Presses -> {"nothing", "no file", "finished", "partial"}]
  /\ misled \in SUBSET (Presses \X Everyone)

Same(p) == {q \in Presses : Kind[q] = Kind[p] /\ Voucher[q] = Voucher[p]}

(* Retries, late answers and second presses add nothing twice: of a voucher
   pressed twice in one second each contact gets one item whichever press
   made it, of a file one item per five-minute window since it was pressed,
   and of a text no more than attempts that arrived.  A press that was told
   "finished" has an item for each of its contacts, unless the success of one
   came from another program at the port of a service that is gone
   (WhatsAppClient.cs:139, 285, TallyInterface.cs:193, httpapi.go:617). *)
PressAccounted ==
  \A p \in Presses, c \in Everyone :
    /\ Kind[p] = "voucher" /\ items[p][c] > 0 =>
         /\ items[p][c] = 1
         /\ \A q \in Same(p) \ {p} : items[q][c] = 0
    /\ Kind[p] = "file" => items[p][c] <= 1 + bucket - began[p]
    /\ Kind[p] = "text" => items[p][c] <= posts[p][c]
    /\ (\E i \in DOMAIN Contacts[p] : Contacts[p][i] = c) /\ told[p] = "finished"
         => <<p, c>> \in misled \/ \E q \in Same(p) : items[q][c] > 0

=============================================================================
