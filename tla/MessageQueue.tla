---------------------------- MODULE MessageQueue ----------------------------
(***************************************************************************)
(* What the durable outbox promises to the code that hands it a message:   *)
(* an accepted message stays in the queue, and no second message with its  *)
(* idempotency key is accepted, until it has been handed to WhatsApp in    *)
(* full and confirmed, or given up; only the operator's Resend puts it     *)
(* back.                                                                   *)
(*                                                                         *)
(* Nothing here says how: there is no worker, no timer, no database and no *)
(* crash.  Outbox.tla is shown to implement this specification.            *)
(***************************************************************************)

CONSTANTS
  Slots,        (* identifiers a message can get                          *)
  Keys,         (* idempotency keys                                       *)
  NoKey         (* the key of a message sent without one                  *)

VARIABLES
  state,        (* state[i]: what has become of message i                 *)
  key,          (* key[i]: the idempotency key of message i               *)
  handed        (* messages handed to WhatsApp in full at least once      *)

vars == <<state, key, handed>>

Init ==
  /\ state  = [i \in Slots |-> "absent"]
  /\ key    = [i \in Slots |-> NoKey]
  /\ handed = {}

(* A new message is accepted; no message may hold its key already. *)
Accept(i, k) ==
  /\ state[i] = "absent"
  /\ k = NoKey \/ \A j \in Slots : key[j] # k
  /\ state' = [state EXCEPT ![i] = "queued"]
  /\ key'   = [key EXCEPT ![i] = k]
  /\ UNCHANGED handed

(* The last missing part of a queued message reaches WhatsApp. *)
HandOver(i) ==
  /\ state[i] = "queued"
  /\ handed' = handed \cup {i}
  /\ UNCHANGED <<state, key>>

(* Only a message that was handed over is ever reported as sent. *)
Confirm(i) ==
  /\ state[i] = "queued"
  /\ i \in handed
  /\ state' = [state EXCEPT ![i] = "sent"]
  /\ UNCHANGED <<key, handed>>

GiveUp(i) ==
  /\ state[i] = "queued"
  /\ state' = [state EXCEPT ![i] = "dead"]
  /\ UNCHANGED <<key, handed>>

(* The operator's Resend: the only way out of a final state. *)
Resend(i) ==
  /\ state[i] \in {"sent", "dead"}
  /\ state' = [state EXCEPT ![i] = "queued"]
  /\ UNCHANGED <<key, handed>>

Next ==
  \E i \in Slots :
    \/ \E k \in Keys \cup {NoKey} : Accept(i, k)
    \/ HandOver(i)
    \/ Confirm(i)
    \/ GiveUp(i)
    \/ Resend(i)

Spec == Init /\ [][Next]_vars

=============================================================================
