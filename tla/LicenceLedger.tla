---------------------------- MODULE LicenceLedger ----------------------------
(***************************************************************************)
(* What the licence issuer promises: it behaves as one ledger, written by  *)
(* one clerk.  A payment buys one token, of the plan it names; a token has *)
(* seats for so many machines, and a machine that has taken one keeps it,  *)
(* with the licence of the first time; all that is answered is what the    *)
(* ledger says.                                                            *)
(*                                                                         *)
(* Nothing here says how: there are no requests at once, no look-up before *)
(* an insert, no counter, no ids drawn in advance and no failures.         *)
(* Issuer.tla is shown to implement this specification.                    *)
(***************************************************************************)
EXTENDS Naturals, FiniteSets

CONSTANTS
  Payments,        (* captured payments                                    *)
  CLI,             (* in place of a payment: sold over the counter         *)
  PlanOf,          (* the plan a payment names                             *)
  Plans,           (* the plans for sale                                   *)
  MaxRedemptions,  (* the seats of a plan                                  *)
  Codes,           (* tokens                                               *)
  Fingerprints,    (* machines                                             *)
  LicenseIds,      (* licences                                             *)
  None             (* a token not sold yet, and its plan                   *)

VARIABLES
  soldFor,      (* soldFor[c]: what token c was sold for                   *)
  planSold,     (* planSold[c]: the plan it was sold with                  *)
  seats,        (* seats[c]: who has a seat, as [fingerprint, license]     *)
  answers,      (* answers[p]: the tokens named in answers about payment p *)
  signed,       (* the licences signed, as [code, fingerprint, license]    *)
  turnedAway    (* <<code, fingerprint>> for which there was no seat       *)

vars == <<soldFor, planSold, seats, answers, signed, turnedAway>>

Init ==
  /\ soldFor    = [c \in Codes |-> None]
  /\ planSold   = [c \in Codes |-> None]
  /\ seats      = [c \in Codes |-> {}]
  /\ answers    = [p \in Payments |-> {}]
  /\ signed     = {}
  /\ turnedAway = {}

Sell(c, s, pl) ==
  /\ soldFor[c] = None
  /\ s # CLI => pl = PlanOf[s] /\ \A d \in Codes : soldFor[d] # s
  /\ soldFor'  = [soldFor EXCEPT ![c] = s]
  /\ planSold' = [planSold EXCEPT ![c] = pl]
  /\ UNCHANGED <<seats, answers, signed, turnedAway>>

Answer(p, c) ==
  /\ soldFor[c] = p
  /\ answers' = [answers EXCEPT ![p] = @ \cup {c}]
  /\ UNCHANGED <<soldFor, planSold, seats, signed, turnedAway>>

Seated(c, f) == \E r \in seats[c] : r.fingerprint = f

Full(c) == Cardinality(seats[c]) = MaxRedemptions[planSold[c]]

(* A machine takes a seat, with a licence nobody has. *)
Take(c, f, l) ==
  /\ soldFor[c] # None
  /\ ~Seated(c, f) /\ ~Full(c)
  /\ \A d \in Codes : \A r \in seats[d] : r.license # l
  /\ seats' = [seats EXCEPT ![c] = @ \cup {[fingerprint |-> f, license |-> l]}]
  /\ UNCHANGED <<soldFor, planSold, answers, signed, turnedAway>>

(* The licence of a seat is signed, the first time or again. *)
Sign(c, r) ==
  /\ r \in seats[c]
  /\ signed' = signed \cup
       {[code |-> c, fingerprint |-> r.fingerprint, license |-> r.license]}
  /\ UNCHANGED <<soldFor, planSold, seats, answers, turnedAway>>

TurnAway(c, f) ==
  /\ soldFor[c] # None
  /\ ~Seated(c, f) /\ Full(c)
  /\ turnedAway' = turnedAway \cup {<<c, f>>}
  /\ UNCHANGED <<soldFor, planSold, seats, answers, signed>>

Next ==
  \E c \in Codes :
    \/ \E s \in Payments \cup {CLI}, pl \in Plans : Sell(c, s, pl)
    \/ \E p \in Payments : Answer(p, c)
    \/ \E f \in Fingerprints, l \in LicenseIds : Take(c, f, l)
    \/ \E r \in seats[c] : Sign(c, r)
    \/ \E f \in Fingerprints : TurnAway(c, f)

Spec == Init /\ [][Next]_vars

=============================================================================
