------------------------------ MODULE MCDesktop ------------------------------
(* Small instances of the parts around the service that share no state: the
   authenticator of its requests, the activation, the edits of tally.ini, the
   updater and the way from a button in Tally to the outbox.  One of them moves and the others stay as they
   begin, so that TLC visits the sum of their states and not the product. *)
EXTENDS Loopback, Activation, TallyIni, Updater, Intake

SecondAdapterFirst == <<2, 1>>

(* tally.ini of a user who had a TDL of their own, turned off. *)
TurnedOff ==
  << [key |-> "text", val |-> "theirs"], Switch("no"), Tdl("own.tdl") >>

TheyAdd == { [key |-> "text", val |-> "more"], Tdl("other.tdl") }

TwoFiles == << "TDL/receipt.tdl", "TDL/sales.tdl" >>

(* Two releases after the first, and a package of the second's version that
   the build pipeline never made. *)
NumberOf ==
  [p \in Packages |->
     CASE p = "first" -> <<1, 9, 0>>
       [] p = "third" -> <<2, 0, 0>>
       [] OTHER       -> <<1, 10, 0>>]

Manifest(p, min) == [version |-> NumberOf[p], msi |-> p, min |-> min]

(* The third asks for an updater of the second. *)
SignedManifests ==
  { Manifest("first", <<>>), Manifest("second", <<>>),
    Manifest("third", <<1, 10, 0>>) }

AllManifests == SignedManifests \cup { Manifest("forged", <<>>) }

(* Two presses of one voucher, a file and a text. *)
KindOf ==
  [p \in Presses |->
     CASE p = "file" -> "file" [] p = "text" -> "text" [] OTHER -> "voucher"]

OneDocument == [p \in Presses |-> "document"]

SentTo ==
  [p \in Presses |->
     CASE p = "press1" -> <<"anna", "ben">>
       [] p = "text"   -> <<"notANumber", "anna">>
       [] OTHER        -> <<"anna">>]

Init ==
  LoopbackInit /\ ActivationInit /\ IniInit /\ UpdaterInit /\ IntakeInit

desktopVars ==
  <<loopbackVars, activationVars, iniVars, updaterVars, intakeVars>>

Next ==
  \/ /\ ActivationInit /\ IniInit /\ UpdaterInit /\ IntakeInit
     /\ LoopbackNext
     /\ UNCHANGED <<activationVars, iniVars, updaterVars, intakeVars>>
  \/ /\ LoopbackInit /\ IniInit /\ UpdaterInit /\ IntakeInit
     /\ ActivationNext
     /\ UNCHANGED <<loopbackVars, iniVars, updaterVars, intakeVars>>
  \/ /\ LoopbackInit /\ ActivationInit /\ UpdaterInit /\ IntakeInit
     /\ IniNext
     /\ UNCHANGED <<loopbackVars, activationVars, updaterVars, intakeVars>>
  \/ /\ LoopbackInit /\ ActivationInit /\ IniInit /\ IntakeInit
     /\ UpdaterNext
     /\ UNCHANGED <<loopbackVars, activationVars, iniVars, intakeVars>>
  \/ /\ LoopbackInit /\ ActivationInit /\ IniInit /\ UpdaterInit
     /\ IntakeNext
     /\ UNCHANGED <<loopbackVars, activationVars, iniVars, updaterVars>>

Spec == Init /\ [][Next]_desktopVars

TypeOK ==
  /\ LoopbackTypeOK /\ ActivationTypeOK /\ IniTypeOK
  /\ UpdaterTypeOK /\ IntakeTypeOK

=============================================================================
