----------------------------- MODULE Activation -----------------------------
(***************************************************************************)
(* Activation of an installation: handleActivate (internal/httpapi) calls  *)
(* Activate (internal/activation), which computes the machine's            *)
(* fingerprint, redeems the key at the issuer, verifies the licence and    *)
(* writes it; the handler then stores it in memory.  At its start the      *)
(* service loads the file, if it still fits the machine (tryLoadLicense).  *)
(*                                                                         *)
(* Handlers run at once, the machine's network adapters come and go, the   *)
(* answer of the issuer may be lost after it has redeemed, a write may     *)
(* fail, and the service may end at any point.                             *)
(*                                                                         *)
(* The issuer is abstracted to what the handler sees of it: a key is       *)
(* redeemed for a number of machines, and again for a machine it knows,    *)
(* until its seller revokes it.  The issuer the program is built with is a *)
(* script outside the repository; of the one in cmd/tallywa-issuer, which  *)
(* revokes nothing, module Issuer shows the first two.                     *)
(*                                                                         *)
(* Definitions named Wrong... are mutated forms, see Outbox.               *)
(***************************************************************************)
EXTENDS Integers, Sequences, FiniteSets, WriteAtomic

CONSTANTS
  Activations,      (* handlers of /api/activate                           *)
  Adapters,         (* network adapters, numbered in the order of names    *)
  FirstAdapters,    (* those there are at first, as Windows lists them     *)
  MaxRedemptions,   (* machines one key can be redeemed for                *)
  NoLicense,        (* nothing in memory                                   *)
  MaxChanges        (* bound: changes of the adapters                      *)

ASSUME ActivationAssumption ==
  /\ Adapters \subseteq Nat /\ IsFiniteSet(Adapters)
  /\ MaxRedemptions \in Nat
  /\ MaxChanges \in Nat

Licenses == [machine : Adapters, from : Activations]

ASSUME ActivationFilesAssumption ==
  /\ NoLicense \notin Licenses
  /\ {NoFile, Blank, Mixed} \cap Licenses = {}
  /\ NoFile # Blank /\ NoFile # Mixed /\ Blank # Mixed

VARIABLES
  adapters,     (* the adapters in the order Windows lists them            *)
  running,      (* the service runs                                        *)
  memory,       (* the licence in memory, or NoLicense                     *)
  licenseFile,  (* license.dat                                             *)
  licenseTmp,   (* license.dat.tmp                                         *)
  step,         (* step[a]: where handler a is                             *)
  machine,      (* machine[a]: the fingerprint a computed                  *)
  answered,     (* answered[a]: what the user of a was told                *)
  redeemed,     (* the issuer's record: machines the key was redeemed for  *)
  revoked,      (* the seller has revoked the key at the issuer            *)
  been,         (* what the fingerprint has been so far                    *)
  drifted,      (* the fingerprint changed since the service started       *)
  overlapped,   (* one opened the temporary file before another renamed it *)
  changes       (* changes of the adapters so far                          *)

activationVars == <<adapters, running, memory, licenseFile, licenseTmp, step,
                    machine, answered, redeemed, revoked, been, drifted,
                    overlapped, changes>>

-----------------------------------------------------------------------------

Present(s) == {s[i] : i \in DOMAIN s}

(* The lists Windows may return for a set of adapters, none included. *)
Listings == {s \in UNION {[1..n -> Adapters] : n \in 0..Cardinality(Adapters)} :
               Cardinality(Present(s)) = Len(s)}

ASSUME FirstAdaptersAssumption == FirstAdapters \in Listings

Smallest(s) == {a \in Present(s) : \A b \in Present(s) : a <= b}

WrongFingerprint(s) == s[1]

(* primaryMAC: of the adapters that look physical, the one whose name sorts
   first, whatever order they are listed in; without any it fails. *)
Fingerprint(s) == CHOOSE a \in Smallest(s) : TRUE

ActivationInit ==
  /\ adapters = FirstAdapters
  /\ running = FALSE /\ memory = NoLicense
  /\ licenseFile = NoFile /\ licenseTmp = NoFile
  /\ step     = [a \in Activations |-> "idle"]
  /\ machine  = [a \in Activations |-> 0]
  /\ answered = [a \in Activations |-> "none"]
  /\ redeemed = {} /\ revoked = FALSE
  /\ been     = Smallest(adapters)
  /\ drifted = FALSE /\ overlapped = FALSE
  /\ changes = 0

-----------------------------------------------------------------------------

(* tryLoadLicense: what does not verify for this machine is left alone. *)
StartService ==
  /\ ~running
  /\ running' = TRUE
  /\ memory'  = IF /\ licenseFile \in Licenses
                   /\ adapters # <<>>
                   /\ licenseFile.machine = Fingerprint(adapters)
                  THEN licenseFile ELSE NoLicense
  /\ drifted' = FALSE /\ overlapped' = FALSE
  /\ UNCHANGED <<adapters, licenseFile, licenseTmp, step, machine, answered,
                 redeemed, revoked, been, changes>>

(* The service ends; what its handlers held is closed as it is. *)
EndService ==
  /\ running
  /\ running' = FALSE
  /\ memory'  = NoLicense
  /\ step'    = [a \in Activations |-> "idle"]
  /\ UNCHANGED <<adapters, licenseFile, licenseTmp, machine, answered,
                 redeemed, revoked, been, drifted, overlapped, changes>>

(* An adapter is plugged in, removed, or listed in another place. *)
AdaptersChange(s) ==
  /\ s # adapters
  /\ changes < MaxChanges
  /\ changes'  = changes + 1
  /\ adapters' = s
  /\ been'     = been \cup Smallest(s)
  /\ drifted'  = (drifted \/ Smallest(s) # Smallest(adapters))
  /\ UNCHANGED <<running, memory, licenseFile, licenseTmp, step, machine,
                 answered, redeemed, revoked, overlapped>>

-----------------------------------------------------------------------------

Goto(a, s) == step' = [step EXCEPT ![a] = s]

Tell(a, what) ==
  /\ Goto(a, "idle")
  /\ answered' = [answered EXCEPT ![a] = what]

(* The user asks once more only when told that it did not work. *)
MayAsk(a) == running /\ step[a] = "idle" /\ answered[a] # "activated"

(* Without an adapter there is no fingerprint to ask for. *)
NoFingerprint(a) ==
  /\ MayAsk(a)
  /\ adapters = <<>>
  /\ Tell(a, "failed")
  /\ UNCHANGED <<adapters, running, memory, licenseFile, licenseTmp, machine,
                 redeemed, revoked, been, drifted, overlapped, changes>>

Activate(a) ==
  /\ MayAsk(a)
  /\ adapters # <<>>
  /\ Goto(a, "ask")
  /\ answered' = [answered EXCEPT ![a] = "none"]
  /\ machine'  = [machine EXCEPT ![a] = Fingerprint(adapters)]
  /\ UNCHANGED <<adapters, running, memory, licenseFile, licenseTmp, redeemed,
                 revoked, been, drifted, overlapped, changes>>

Redeemable(f) == f \in redeemed \/ Cardinality(redeemed) < MaxRedemptions

(* A licence that verifies is written before anything else. *)
WrongReceived(a) == Goto(a, "store")

Received(a) == Goto(a, Opening)

(* The seller takes the key back; what it was redeemed for stays on record. *)
Revoke ==
  /\ ~revoked
  /\ revoked' = TRUE
  /\ UNCHANGED <<adapters, running, memory, licenseFile, licenseTmp, step,
                 machine, answered, redeemed, been, drifted, overlapped, changes>>

(* The issuer redeems, and its answer arrives, verified for this machine, or
   is lost: the handler then tells the user the issuer is out of reach. *)
Redeem(a, arrives) ==
  /\ step[a] = "ask"
  /\ Redeemable(machine[a]) /\ ~revoked
  /\ redeemed' = redeemed \cup {machine[a]}
  /\ IF arrives THEN Received(a) /\ UNCHANGED answered
                ELSE Tell(a, "failed")
  /\ UNCHANGED <<adapters, running, memory, licenseFile, licenseTmp, machine,
                 revoked, been, drifted, overlapped, changes>>

(* Out of reach, unknown, or signed by another: nothing redeemed. *)
NotRedeemed(a) ==
  /\ step[a] = "ask"
  /\ Tell(a, "failed")
  /\ UNCHANGED <<adapters, running, memory, licenseFile, licenseTmp, machine,
                 redeemed, revoked, been, drifted, overlapped, changes>>

(* A revoked key is answered for as one without redemptions left, to a machine
   that has redeemed it too. *)
Exhausted(a) ==
  /\ step[a] = "ask"
  /\ ~Redeemable(machine[a]) \/ revoked
  /\ Tell(a, "exhausted")
  /\ UNCHANGED <<adapters, running, memory, licenseFile, licenseTmp, machine,
                 redeemed, revoked, been, drifted, overlapped, changes>>

License(a) == [machine |-> machine[a], from |-> a]

OpenLicense(a) ==
  /\ step[a] = Opening
  /\ Goto(a, "write")
  /\ licenseTmp' = Blank
  /\ overlapped' = (overlapped \/ \E b \in Activations : step[b] \in Holding \cup {Renaming})
  /\ UNCHANGED <<adapters, running, memory, licenseFile, machine, answered,
                 redeemed, revoked, been, drifted, changes>>

WriteLicense(a) ==
  /\ step[a] = "write"
  /\ Goto(a, "close")
  /\ licenseTmp' \in Written(licenseTmp, License(a))
  /\ UNCHANGED <<adapters, running, memory, licenseFile, machine, answered,
                 redeemed, revoked, been, drifted, overlapped, changes>>

CloseLicense(a) ==
  /\ step[a] = "close"
  /\ Goto(a, Renaming)
  /\ UNCHANGED <<adapters, running, memory, licenseFile, licenseTmp, machine,
                 answered, redeemed, revoked, been, drifted, overlapped, changes>>

RenameLicense(a) ==
  /\ step[a] = Renaming
  /\ CanRename(step, a, licenseTmp)
  /\ licenseFile' = licenseTmp
  /\ licenseTmp'  = NoFile
  /\ Goto(a, "store")
  /\ UNCHANGED <<adapters, running, memory, machine, answered, redeemed, revoked,
                 been, drifted, overlapped, changes>>

(* Any step of the write may fail (disk full, file in use); the rename does
   when another handler holds the file or has renamed it away. *)
WriteFails(a) ==
  /\ step[a] \in WriterSteps
  /\ Tell(a, "failed")
  /\ UNCHANGED <<adapters, running, memory, licenseFile, licenseTmp, machine,
                 redeemed, revoked, been, drifted, overlapped, changes>>

(* StoreLicense, and the answer. *)
StoreLicense(a) ==
  /\ step[a] = "store"
  /\ memory' = License(a)
  /\ Tell(a, "activated")
  /\ UNCHANGED <<adapters, running, licenseFile, licenseTmp, machine, redeemed,
                 revoked, been, drifted, overlapped, changes>>

ActivationNext ==
  \/ StartService
  \/ EndService
  \/ \E s \in Listings : AdaptersChange(s)
  \/ Revoke
  \/ \E a \in Activations :
       \/ NoFingerprint(a)
       \/ Activate(a)
       \/ \E arrives \in BOOLEAN : Redeem(a, arrives)
       \/ NotRedeemed(a)
       \/ Exhausted(a)
       \/ OpenLicense(a)
       \/ WriteLicense(a)
       \/ CloseLicense(a)
       \/ RenameLicense(a)
       \/ WriteFails(a)
       \/ StoreLicense(a)

ActivationSpec == ActivationInit /\ [][ActivationNext]_activationVars

-----------------------------------------------------------------------------

ActivationTypeOK ==
  /\ adapters \in Listings
  /\ running \in BOOLEAN /\ drifted \in BOOLEAN /\ overlapped \in BOOLEAN
  /\ revoked \in BOOLEAN
  /\ memory \in Licenses \cup {NoLicense}
  /\ licenseFile \in Licenses \cup {NoFile, Blank, Mixed}
  /\ licenseTmp \in Licenses \cup {NoFile, Blank, Mixed}
  /\ step \in [Activations -> {"idle", "ask", "store"} \cup WriterSteps]
  /\ machine \in [Activations -> Adapters \cup {0}]
  /\ answered \in [Activations -> {"none", "failed", "exhausted", "activated"}]
  /\ redeemed \in SUBSET Adapters /\ been \in SUBSET Adapters
  /\ changes \in 0..MaxChanges

(* An activated service that is restarted stays activated: while there is a
   licence in memory, the file holds a whole licence for this machine, unless
   an activation opened the temporary file before another had renamed it, or
   the fingerprint has changed since the service started (license.go:176,
   httpapi.go:262). *)
SurvivesRestart ==
  memory # NoLicense /\ ~drifted /\ ~overlapped =>
    /\ licenseFile \in Licenses
    /\ licenseFile.machine = memory.machine
    /\ licenseFile.machine = Fingerprint(adapters)

(* However often a user tries again after a lost answer, a failed write or a
   restart, the key is spent once per fingerprint the machine has really had,
   and a machine it was spent for is told it is exhausted only when the seller
   has revoked the key (activation.go:109, 138, httpapi.go:250). *)
SpentOncePerMachine ==
  /\ redeemed \subseteq been
  /\ \A a \in Activations :
       answered[a] = "exhausted" /\ step[a] = "idle" =>
         machine[a] \notin redeemed \/ revoked

=============================================================================
