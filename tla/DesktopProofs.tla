---------------------------- MODULE DesktopProofs ----------------------------
(* The activation and the updater, and with the proofs of LoopbackProofs,
   TallyIniProofs and IntakeProofs the parts around the service side by side.

   Activation: for any number of handlers, adapters and redemptions an
   activated service stays activated over a restart, and a key is spent once
   per machine.
   Updater: for any number of runs, packages and manifests, whatever the server
   sends and however runs overlap, the installed version only goes forward.
   What makes it so is that a run installs something newer than what it began
   with, and the installer nothing older than what is there.
   MCDesktop: all of it at once, for any part that moves while the others stay. *)
EXTENDS MCDesktop, LoopbackProofs, TallyIniProofs, IntakeProofs

-----------------------------------------------------------------------------
(* The fingerprint. *)

(* A listing that names an adapter gives a fingerprint, one of the adapters. *)
LEMMA FingerprintExists ==
  ASSUME NEW s \in Listings, s # <<>>
  PROVE  Fingerprint(s) \in Smallest(s) /\ Fingerprint(s) \in Adapters
<1>1. PICK n \in 0..Cardinality(Adapters) : s \in [1..n -> Adapters]
  BY DEF Listings
<1>2. Cardinality(Adapters) \in Nat
  BY FS_CardinalityType, ActivationAssumption
<1>3. n \in Nat
  BY <1>1, <1>2
<1>4. s \in Seq(Adapters) /\ Len(s) = n
  BY <1>1, <1>3
<1>5. n # 0
  BY <1>4
<1>6. Present(s) # {} /\ Present(s) \subseteq Adapters
  <2>1. 1 \in DOMAIN s
    BY <1>1, <1>3, <1>5
  <2> QED BY <1>1, <2>1 DEF Present
<1>7. Smallest(s) # {} /\ Smallest(s) \subseteq Adapters
  <2>1. Present(s) \subseteq Nat
    BY <1>6, ActivationAssumption
  <2>2. PICK x \in Present(s) : \A y \in Present(s) : x <= y
    BY <1>6, <2>1, NatHasSmallest
  <2> QED BY <1>6, <2>2 DEF Smallest
<1> QED BY <1>7 DEF Fingerprint

(* It depends on the adapters that are there, and not on their order. *)
LEMMA SameFingerprint ==
  ASSUME NEW s, NEW t, Smallest(s) = Smallest(t)
  PROVE  Fingerprint(s) = Fingerprint(t)
BY DEF Fingerprint

LEMMA SmallestAdapters == \A s \in Listings : Smallest(s) \subseteq Adapters
<1> SUFFICES ASSUME NEW s \in Listings PROVE Smallest(s) \subseteq Adapters
  OBVIOUS
<1>1. PICK n \in 0..Cardinality(Adapters) : s \in [1..n -> Adapters]
  BY DEF Listings
<1> QED BY <1>1 DEF Smallest, Present

-----------------------------------------------------------------------------
(* The inductive invariant. *)

Past == Holding \cup {Renaming}

(* A handler at work has a fingerprint, and there is none without a service. *)
Working ==
  /\ \A a \in Activations : step[a] # "idle" => machine[a] \in Adapters
  /\ ~running => memory = NoLicense /\ \A a \in Activations : step[a] = "idle"

(* One writer at a time finds in the temporary file what it put there. *)
OneWriter ==
  ~overlapped =>
    /\ \A a, b \in Activations : step[a] \in Past /\ step[b] \in Past => a = b
    /\ \A a \in Activations :
         /\ step[a] = "write" => licenseTmp = Blank
         /\ step[a] \in {"close", Renaming} => licenseTmp = License(a)

(* Everything under way is for the machine as it is. *)
ForThisMachine ==
  ~drifted =>
    /\ \A a \in Activations : step[a] # "idle" => machine[a] = Fingerprint(adapters)
    /\ memory # NoLicense => memory.machine = Fingerprint(adapters)

(* What is in memory, or about to be, was written. *)
Kept ==
  ~drifted /\ ~overlapped
    /\ (memory # NoLicense \/ \E a \in Activations : step[a] = "store") =>
    licenseFile \in Licenses /\ licenseFile.machine = Fingerprint(adapters)

(* The fingerprints asked with were real, and a full record stays as it is. *)
Spent ==
  /\ redeemed \subseteq been /\ Smallest(adapters) \subseteq been
  /\ \A a \in Activations :
       /\ step[a] = "ask" => machine[a] \in been
       /\ answered[a] = "exhausted" => ~Redeemable(machine[a]) \/ revoked

ActivationInv ==
  /\ ActivationTypeOK
  /\ Working
  /\ OneWriter
  /\ ForThisMachine
  /\ Kept
  /\ Spent

LEMMA ActivationInitInv ==
  ASSUME ActivationInit PROVE ActivationInv
<1> USE ActivationAssumption, ActivationFilesAssumption, FirstAdaptersAssumption
        DEF ActivationInit
<1>1. adapters \in Listings /\ been \in SUBSET Adapters
  BY SmallestAdapters
<1>2. ActivationTypeOK
  <2>1. /\ step \in [Activations -> {"idle", "ask", "store"} \cup WriterSteps]
        /\ machine \in [Activations -> Adapters \cup {0}]
        /\ answered \in [Activations -> {"none", "failed", "exhausted", "activated"}]
    OBVIOUS
  <2>2. changes \in 0..MaxChanges
    OBVIOUS
  <2> QED BY <1>1, <2>1, <2>2 DEF ActivationTypeOK
<1>3. Working /\ OneWriter /\ ForThisMachine /\ Kept /\ Spent
  BY DEF Working, OneWriter, Past, Holding, Renaming, ForThisMachine, Kept, Spent
<1> QED BY <1>2, <1>3 DEF ActivationInv

LEMMA ActivationTypeStep ==
  ASSUME ActivationTypeOK, Working, [ActivationNext]_activationVars
  PROVE  ActivationTypeOK'
<1> USE ActivationAssumption
        DEF ActivationTypeOK, Goto, Tell, WriterSteps, Holding, Opening, Renaming
<1>1. CASE StartService
  BY <1>1 DEF StartService
<1>2. CASE EndService \/ Revoke
  BY <1>2 DEF EndService, Revoke
<1>3. ASSUME NEW s \in Listings, AdaptersChange(s) PROVE ActivationTypeOK'
  <2>1. changes' \in 0..MaxChanges
    BY <1>3 DEF AdaptersChange
  <2>2. been' \in SUBSET Adapters
    BY <1>3, SmallestAdapters DEF AdaptersChange
  <2>3. drifted' \in BOOLEAN /\ adapters' \in Listings
    BY <1>3 DEF AdaptersChange
  <2>4. UNCHANGED <<running, memory, licenseFile, licenseTmp, step, machine,
                    answered, redeemed, revoked, overlapped>>
    BY <1>3 DEF AdaptersChange
  <2> QED BY <2>1, <2>2, <2>3, <2>4
<1>4. ASSUME NEW a \in Activations, NoFingerprint(a) PROVE ActivationTypeOK'
  BY <1>4 DEF NoFingerprint
<1>5. ASSUME NEW a \in Activations, Activate(a) PROVE ActivationTypeOK'
  BY <1>5, FingerprintExists DEF Activate
<1>6. ASSUME NEW a \in Activations, NEW arrives \in BOOLEAN, Redeem(a, arrives)
      PROVE  ActivationTypeOK'
  BY <1>6 DEF Redeem, Received, Working
<1>7. ASSUME NEW a \in Activations, NotRedeemed(a) PROVE ActivationTypeOK'
  BY <1>7 DEF NotRedeemed
<1>8. ASSUME NEW a \in Activations, Exhausted(a) PROVE ActivationTypeOK'
  BY <1>8 DEF Exhausted
<1>9. ASSUME NEW a \in Activations, OpenLicense(a) PROVE ActivationTypeOK'
  BY <1>9 DEF OpenLicense
<1>10. ASSUME NEW a \in Activations, step[a] # "idle" PROVE License(a) \in Licenses
  BY <1>10 DEF Working, License, Licenses
<1>11. ASSUME NEW a \in Activations, WriteLicense(a) PROVE ActivationTypeOK'
  BY <1>10, <1>11 DEF WriteLicense, Written
<1>12. ASSUME NEW a \in Activations, CloseLicense(a) PROVE ActivationTypeOK'
  BY <1>12 DEF CloseLicense
<1>13. ASSUME NEW a \in Activations, RenameLicense(a) PROVE ActivationTypeOK'
  BY <1>13 DEF RenameLicense
<1>14. ASSUME NEW a \in Activations, WriteFails(a) PROVE ActivationTypeOK'
  BY <1>14 DEF WriteFails
<1>15. ASSUME NEW a \in Activations, StoreLicense(a) PROVE ActivationTypeOK'
  BY <1>10, <1>15 DEF StoreLicense
<1>16. CASE UNCHANGED activationVars
  BY <1>16 DEF activationVars
<1> QED BY <1>1, <1>2, <1>3, <1>4, <1>5, <1>6, <1>7, <1>8, <1>9, <1>11, <1>12,
           <1>13, <1>14, <1>15, <1>16 DEF ActivationNext

LEMMA WorkingStep ==
  ASSUME ActivationTypeOK, Working, [ActivationNext]_activationVars
  PROVE  Working'
<1> USE DEF ActivationTypeOK, Working, Goto, Tell
<1>1. CASE StartService
  BY <1>1 DEF StartService
<1>2. CASE EndService \/ Revoke
  BY <1>2 DEF EndService, Revoke
<1>3. ASSUME NEW s \in Listings, AdaptersChange(s) PROVE Working'
  BY <1>3 DEF AdaptersChange
<1>4. ASSUME NEW a \in Activations, NoFingerprint(a) PROVE Working'
  BY <1>4 DEF NoFingerprint, MayAsk
<1>5. ASSUME NEW a \in Activations, Activate(a) PROVE Working'
  BY <1>5, FingerprintExists DEF Activate, MayAsk
<1>6. ASSUME NEW a \in Activations, NEW arrives \in BOOLEAN, Redeem(a, arrives)
      PROVE  Working'
  BY <1>6 DEF Redeem, Received
<1>7. ASSUME NEW a \in Activations, NotRedeemed(a) \/ Exhausted(a) PROVE Working'
  BY <1>7 DEF NotRedeemed, Exhausted
<1>8. ASSUME NEW a \in Activations, OpenLicense(a) \/ WriteLicense(a)
      PROVE  Working'
  BY <1>8 DEF OpenLicense, WriteLicense, Opening
<1>9. ASSUME NEW a \in Activations, CloseLicense(a) \/ RenameLicense(a)
      PROVE  Working'
  BY <1>9 DEF CloseLicense, RenameLicense, Renaming
<1>10. ASSUME NEW a \in Activations, WriteFails(a) \/ StoreLicense(a)
       PROVE  Working'
  BY <1>10 DEF WriteFails, StoreLicense, WriterSteps, Opening, Renaming, Holding
<1>11. CASE UNCHANGED activationVars
  BY <1>11 DEF activationVars
<1> QED BY <1>1, <1>2, <1>3, <1>4, <1>5, <1>6, <1>7, <1>8, <1>9, <1>10, <1>11
        DEF ActivationNext

LEMMA OneWriterStep ==
  ASSUME ActivationTypeOK, Working, OneWriter, [ActivationNext]_activationVars
  PROVE  OneWriter'
<1> USE DEF ActivationTypeOK, OneWriter, Past, Holding, Opening, Renaming, License
<1>1. CASE StartService
  BY <1>1 DEF StartService, Working
<1>2. CASE EndService \/ Revoke
  BY <1>2 DEF EndService, Revoke
<1>3. ASSUME NEW s \in Listings, AdaptersChange(s) PROVE OneWriter'
  BY <1>3 DEF AdaptersChange
<1>4. ASSUME NEW a \in Activations, step' = [step EXCEPT ![a] = step'[a]],
             step'[a] \notin Past,
             \A b \in Activations \ {a} : machine'[b] = machine[b],
             UNCHANGED <<licenseTmp, overlapped>>
      PROVE  OneWriter'
  BY <1>4
<1>5. ASSUME NEW a \in Activations, NoFingerprint(a) PROVE OneWriter'
  BY <1>4, <1>5 DEF NoFingerprint, Goto, Tell
<1>6. ASSUME NEW a \in Activations, Activate(a) PROVE OneWriter'
  BY <1>4, <1>6 DEF Activate, Goto
<1>7. ASSUME NEW a \in Activations, NEW arrives \in BOOLEAN, Redeem(a, arrives)
      PROVE  OneWriter'
  BY <1>4, <1>7 DEF Redeem, Received, Goto, Tell
<1>8. ASSUME NEW a \in Activations, NotRedeemed(a) \/ Exhausted(a)
      PROVE  OneWriter'
  BY <1>4, <1>8 DEF NotRedeemed, Exhausted, Goto, Tell
<1>9. ASSUME NEW a \in Activations, WriteFails(a) \/ StoreLicense(a)
      PROVE  OneWriter'
  BY <1>4, <1>9 DEF WriteFails, StoreLicense, Goto, Tell
<1>10. ASSUME NEW a \in Activations, OpenLicense(a) PROVE OneWriter'
  BY <1>10 DEF OpenLicense, Goto
<1>11. ASSUME NEW a \in Activations, WriteLicense(a) PROVE OneWriter'
  BY <1>11 DEF WriteLicense, Goto, Written
<1>12. ASSUME NEW a \in Activations, CloseLicense(a) PROVE OneWriter'
  BY <1>12 DEF CloseLicense, Goto
<1>13. ASSUME NEW a \in Activations, RenameLicense(a) PROVE OneWriter'
  BY <1>13 DEF RenameLicense, Goto
<1>14. CASE UNCHANGED activationVars
  BY <1>14 DEF activationVars
<1> QED BY <1>1, <1>2, <1>3, <1>5, <1>6, <1>7, <1>8, <1>9, <1>10, <1>11, <1>12,
           <1>13, <1>14 DEF ActivationNext

LEMMA ForThisMachineStep ==
  ASSUME ActivationTypeOK, Working, ForThisMachine, [ActivationNext]_activationVars
  PROVE  ForThisMachine'
<1> USE DEF ActivationTypeOK, ForThisMachine, Goto, Tell
<1>1. CASE StartService
  BY <1>1 DEF StartService, Working
<1>2. CASE EndService \/ Revoke
  BY <1>2 DEF EndService, Revoke
<1>3. ASSUME NEW s \in Listings, AdaptersChange(s) PROVE ForThisMachine'
  <2>1. ~drifted' => ~drifted /\ Fingerprint(adapters') = Fingerprint(adapters)
    BY <1>3, SameFingerprint DEF AdaptersChange
  <2> QED BY <1>3, <2>1 DEF AdaptersChange
<1>4. ASSUME NEW a \in Activations, NoFingerprint(a) PROVE ForThisMachine'
  BY <1>4 DEF NoFingerprint
<1>5. ASSUME NEW a \in Activations, Activate(a) PROVE ForThisMachine'
  BY <1>5 DEF Activate
<1>6. ASSUME NEW a \in Activations, NEW arrives \in BOOLEAN, Redeem(a, arrives)
      PROVE  ForThisMachine'
  BY <1>6 DEF Redeem, Received
<1>7. ASSUME NEW a \in Activations, NotRedeemed(a) \/ Exhausted(a)
      PROVE  ForThisMachine'
  BY <1>7 DEF NotRedeemed, Exhausted
<1>8. ASSUME NEW a \in Activations, OpenLicense(a) \/ WriteLicense(a)
      PROVE  ForThisMachine'
  BY <1>8 DEF OpenLicense, WriteLicense, Opening
<1>9. ASSUME NEW a \in Activations, CloseLicense(a) \/ RenameLicense(a)
      PROVE  ForThisMachine'
  BY <1>9 DEF CloseLicense, RenameLicense, Renaming
<1>10. ASSUME NEW a \in Activations, WriteFails(a) PROVE ForThisMachine'
  BY <1>10 DEF WriteFails
<1>11. ASSUME NEW a \in Activations, StoreLicense(a) PROVE ForThisMachine'
  BY <1>11 DEF StoreLicense, License
<1>12. CASE UNCHANGED activationVars
  BY <1>12 DEF activationVars
<1> QED BY <1>1, <1>2, <1>3, <1>4, <1>5, <1>6, <1>7, <1>8, <1>9, <1>10, <1>11,
           <1>12 DEF ActivationNext

LEMMA KeptStep ==
  ASSUME ActivationTypeOK, Working, OneWriter, ForThisMachine, Kept,
         [ActivationNext]_activationVars
  PROVE  Kept'
<1> USE DEF ActivationTypeOK, Kept, Goto, Tell
<1>1. CASE StartService
  BY <1>1 DEF StartService, Working
<1>2. CASE EndService \/ Revoke
  BY <1>2 DEF EndService, Revoke
<1>3. ASSUME NEW s \in Listings, AdaptersChange(s) PROVE Kept'
  <2>1. ~drifted' => ~drifted /\ Fingerprint(adapters') = Fingerprint(adapters)
    BY <1>3, SameFingerprint DEF AdaptersChange
  <2> QED BY <1>3, <2>1 DEF AdaptersChange
<1>4. ASSUME NEW a \in Activations, UNCHANGED <<adapters, memory, licenseFile, drifted>>,
             overlapped => overlapped',
             step' = [step EXCEPT ![a] = step'[a]], step'[a] # "store"
      PROVE  Kept'
  BY <1>4
<1>5. ASSUME NEW a \in Activations, NoFingerprint(a) \/ Activate(a) PROVE Kept'
  BY <1>4, <1>5 DEF NoFingerprint, Activate
<1>6. ASSUME NEW a \in Activations, NEW arrives \in BOOLEAN, Redeem(a, arrives)
      PROVE  Kept'
  BY <1>4, <1>6 DEF Redeem, Received, Opening
<1>7. ASSUME NEW a \in Activations, NotRedeemed(a) \/ Exhausted(a) PROVE Kept'
  BY <1>4, <1>7 DEF NotRedeemed, Exhausted
<1>8. ASSUME NEW a \in Activations, OpenLicense(a) \/ WriteLicense(a) PROVE Kept'
  BY <1>4, <1>8 DEF OpenLicense, WriteLicense
<1>9. ASSUME NEW a \in Activations, CloseLicense(a) \/ WriteFails(a) PROVE Kept'
  BY <1>4, <1>9 DEF CloseLicense, WriteFails, Renaming
<1>10. ASSUME NEW a \in Activations, RenameLicense(a) PROVE Kept'
  <2> SUFFICES ASSUME ~drifted, ~overlapped
               PROVE  licenseFile' \in Licenses /\ licenseFile'.machine = Fingerprint(adapters)
    BY <1>10 DEF RenameLicense
  <2>1. step[a] = Renaming /\ licenseFile' = licenseTmp
    BY <1>10 DEF RenameLicense
  <2>2. licenseTmp = License(a)
    BY <2>1 DEF OneWriter
  <2>3. machine[a] = Fingerprint(adapters) /\ machine[a] \in Adapters
    BY <2>1 DEF ForThisMachine, Working, Renaming
  <2> QED BY <2>1, <2>2, <2>3 DEF License, Licenses
<1>11. ASSUME NEW a \in Activations, StoreLicense(a) PROVE Kept'
  BY <1>11 DEF StoreLicense
<1>12. CASE UNCHANGED activationVars
  BY <1>12 DEF activationVars
<1> QED BY <1>1, <1>2, <1>3, <1>5, <1>6, <1>7, <1>8, <1>9, <1>10, <1>11, <1>12
        DEF ActivationNext

(* A full record takes nobody new. *)
LEMMA FullStaysFull ==
  ASSUME NEW f, NEW g, ~Redeemable(f), Redeemable(g),
         redeemed' = redeemed \cup {g}
  PROVE  redeemed' = redeemed
BY DEF Redeemable

LEMMA SpentStep ==
  ASSUME ActivationTypeOK, Spent, [ActivationNext]_activationVars
  PROVE  Spent'
<1> USE DEF ActivationTypeOK, Spent, Goto, Tell
<1>1. CASE StartService \/ EndService \/ Revoke
  BY <1>1 DEF StartService, EndService, Revoke, Redeemable
<1>2. ASSUME NEW s \in Listings, AdaptersChange(s) PROVE Spent'
  BY <1>2 DEF AdaptersChange, Redeemable
<1>3. ASSUME NEW a \in Activations, NoFingerprint(a) PROVE Spent'
  BY <1>3 DEF NoFingerprint, Redeemable
<1>4. ASSUME NEW a \in Activations, Activate(a) PROVE Spent'
  <2>1. Fingerprint(adapters) \in been
    BY <1>4, FingerprintExists DEF Activate
  <2>2. machine' = [machine EXCEPT ![a] = Fingerprint(adapters)]
        /\ step' = [step EXCEPT ![a] = "ask"]
        /\ answered' = [answered EXCEPT ![a] = "none"]
        /\ UNCHANGED <<adapters, redeemed, revoked, been>>
    BY <1>4 DEF Activate
  <2> QED BY <2>1, <2>2 DEF Redeemable
<1>5. ASSUME NEW a \in Activations, NEW arrives \in BOOLEAN, Redeem(a, arrives)
      PROVE  Spent'
  <2>1. /\ step[a] = "ask" /\ Redeemable(machine[a])
        /\ redeemed' = redeemed \cup {machine[a]}
        /\ UNCHANGED <<adapters, machine, revoked, been>>
    BY <1>5 DEF Redeem
  <2>2. \A b \in Activations :
          /\ answered'[b] = "exhausted" => answered[b] = "exhausted"
          /\ step'[b] = "ask" => step[b] = "ask"
    BY <1>5 DEF Redeem, Received, Opening
  <2>3. ASSUME NEW b \in Activations, answered'[b] = "exhausted"
        PROVE  ~Redeemable(machine[b])' \/ revoked'
    <3>1. ~Redeemable(machine[b]) \/ revoked
      BY <2>2, <2>3
    <3>2. ~Redeemable(machine[b]) => redeemed' = redeemed
      BY <2>1, FullStaysFull
    <3> QED BY <2>1, <3>1, <3>2 DEF Redeemable
  <2> QED BY <2>1, <2>2, <2>3
<1>6. ASSUME NEW a \in Activations, NotRedeemed(a) PROVE Spent'
  BY <1>6 DEF NotRedeemed, Redeemable
<1>7. ASSUME NEW a \in Activations, Exhausted(a) PROVE Spent'
  BY <1>7 DEF Exhausted, Redeemable
<1>8. ASSUME NEW a \in Activations, OpenLicense(a) \/ WriteLicense(a)
      PROVE  Spent'
  BY <1>8 DEF OpenLicense, WriteLicense, Redeemable
<1>9. ASSUME NEW a \in Activations, CloseLicense(a) \/ RenameLicense(a)
      PROVE  Spent'
  BY <1>9 DEF CloseLicense, RenameLicense, Renaming, Redeemable
<1>10. ASSUME NEW a \in Activations, WriteFails(a) \/ StoreLicense(a)
       PROVE  Spent'
  BY <1>10 DEF WriteFails, StoreLicense, Redeemable
<1>11. CASE UNCHANGED activationVars
  BY <1>11 DEF activationVars, Redeemable
<1> QED BY <1>1, <1>2, <1>3, <1>4, <1>5, <1>6, <1>7, <1>8, <1>9, <1>10, <1>11
        DEF ActivationNext

-----------------------------------------------------------------------------

LEMMA ActivationStep ==
  ASSUME ActivationInv, [ActivationNext]_activationVars PROVE ActivationInv'
BY ActivationTypeStep, WorkingStep, OneWriterStep, ForThisMachineStep, KeptStep,
   SpentStep DEF ActivationInv

(* The inductive invariant holds in every state of every behaviour. *)
THEOREM ActivationInvariant == ActivationSpec => []ActivationInv
<1>1. ActivationInit => ActivationInv
  BY ActivationInitInv
<1>2. ActivationInv /\ [ActivationNext]_activationVars => ActivationInv'
  BY ActivationStep
<1> QED BY <1>1, <1>2, PTL DEF ActivationSpec

(* An activated service is still activated after a restart (license.go:176,
   httpapi.go:262), for any number of handlers and adapters. *)
THEOREM SurvivesRestartHolds == ActivationSpec => []SurvivesRestart
<1>1. ActivationInv => SurvivesRestart
  BY DEF ActivationInv, SurvivesRestart, ForThisMachine, Kept
<1> QED BY <1>1, ActivationInvariant, PTL

(* A key is spent once for each fingerprint the machine has had, and a machine
   it was spent for is told it is exhausted only when the key was revoked
   (activation.go:109, 138). *)
THEOREM SpentOncePerMachineHolds == ActivationSpec => []SpentOncePerMachine
<1>1. ActivationInv => SpentOncePerMachine
  BY DEF ActivationInv, SpentOncePerMachine, Spent, Redeemable
<1> QED BY <1>1, ActivationInvariant, PTL

(* A change of the licence file is the whole licence of one handler. *)
LicenseOfOne ==
  \E a \in Activations : licenseFile' = License(a) /\ step'[a] = "store"

FileIsReplacedWhole ==
  [][licenseFile' # licenseFile /\ ~overlapped => LicenseOfOne]_activationVars

(* As long as activations do not overlap in the temporary file, the licence file
   is never seen emptied, cut short or removed: it changes to a whole licence,
   of the handler that goes on to store it (license.go:172-181). *)
THEOREM LicenseFileIsAtomic == ActivationSpec => FileIsReplacedWhole
<1>1. ActivationInv /\ [ActivationNext]_activationVars =>
        [licenseFile' # licenseFile /\ ~overlapped => LicenseOfOne]_activationVars
  <2> SUFFICES ASSUME ActivationInv, ActivationNext, licenseFile' # licenseFile, ~overlapped
               PROVE  LicenseOfOne
    OBVIOUS
  <2>1. PICK a \in Activations : RenameLicense(a)
    BY DEF ActivationNext, StartService, EndService, AdaptersChange, Revoke,
           NoFingerprint, Activate, Redeem, NotRedeemed, Exhausted, OpenLicense, WriteLicense,
           CloseLicense, WriteFails, StoreLicense
  <2>2. licenseFile' = licenseTmp /\ step[a] = Renaming /\ step'[a] = "store"
    BY <2>1 DEF RenameLicense, Goto, ActivationInv, ActivationTypeOK
  <2>3. licenseTmp = License(a)
    BY <2>2 DEF ActivationInv, OneWriter
  <2> QED BY <2>1, <2>2, <2>3 DEF LicenseOfOne
<1> QED BY <1>1, ActivationInvariant, PTL DEF ActivationSpec, FileIsReplacedWhole

-----------------------------------------------------------------------------
(* The order of versions of three numbers. *)

Versions == [1..3 -> Nat]

(* Both comparisons are the lexicographic order. *)
LEMMA Lexicographic ==
  ASSUME NEW a \in Versions, NEW b \in Versions
  PROVE  /\ Outdates(a, b) <=> \/ a[1] > b[1]
                               \/ a[1] = b[1] /\ a[2] > b[2]
                               \/ a[1] = b[1] /\ a[2] = b[2] /\ a[3] > b[3]
         /\ IsNewer(a, b) => Outdates(a, b)
         /\ a = b <=> a[1] = b[1] /\ a[2] = b[2] /\ a[3] = b[3]
<1>1. DOMAIN a = 1..3 /\ DOMAIN b = 1..3 /\ 1..3 = {1, 2, 3}
  BY DEF Versions
<1>2. \A i \in 1..3 : Segment(a, i) = a[i] /\ Segment(b, i) = b[i]
  BY <1>1 DEF Segment
<1>3. Outdates(a, b) <=> \E i \in {1, 2, 3} :
                           /\ \A j \in 1..i - 1 : a[j] = b[j]
                           /\ a[i] > b[i]
  <2>1. \A i \in 1..3 : \A j \in 1..i - 1 : j \in 1..3
    OBVIOUS
  <2> QED BY <1>1, <1>2, <2>1 DEF Outdates
<1>4. 1..1 - 1 = {} /\ 1..2 - 1 = {1} /\ 1..3 - 1 = {1, 2}
  OBVIOUS
<1>5. Outdates(a, b) <=> \/ a[1] > b[1]
                         \/ a[1] = b[1] /\ a[2] > b[2]
                         \/ a[1] = b[1] /\ a[2] = b[2] /\ a[3] > b[3]
  BY <1>3, <1>4
<1>6. IsNewer(a, b) => Outdates(a, b)
  BY <1>1, <1>3 DEF IsNewer
<1>7. a = b <=> a[1] = b[1] /\ a[2] = b[2] /\ a[3] = b[3]
  BY <1>1 DEF Versions
<1> QED BY <1>5, <1>6, <1>7

(* At least as new. *)
NotOlder(a, b) == Outdates(a, b) \/ a = b

LEMMA VersionOrder ==
  ASSUME NEW a \in Versions, NEW b \in Versions, NEW c \in Versions
  PROVE  /\ ~Outdates(a, b) <=> NotOlder(b, a)
         /\ NotOlder(a, b) /\ NotOlder(b, c) => NotOlder(a, c)
         /\ NotOlder(a, b) /\ Outdates(b, c) => Outdates(a, c)
         /\ Outdates(a, b) /\ NotOlder(b, c) => Outdates(a, c)
         /\ ~Outdates(a, a)
<1>1. \A i \in {1, 2, 3} : a[i] \in Nat /\ b[i] \in Nat /\ c[i] \in Nat
  BY DEF Versions
<1>2. ~Outdates(a, b) <=> NotOlder(b, a)
  BY <1>1, Lexicographic DEF NotOlder
<1>3. Outdates(a, b) /\ Outdates(b, c) => Outdates(a, c)
  BY <1>1, Lexicographic
<1>4. ~Outdates(a, a)
  BY <1>1, Lexicographic
<1> QED BY <1>2, <1>3, <1>4 DEF NotOlder

-----------------------------------------------------------------------------
(* The inductive invariant. *)

Ver(k) == VersionOf[installs[k].msi]

InstallsTyped ==
  /\ installs \in Seq([msi : Packages, since : Nat])
  /\ installs # <<>>

RunsTyped ==
  /\ phase \in [Runners -> {"idle", "manifest", "download", "install"}]
  /\ own \in [Runners -> Versions \cup {<<>>}]
  /\ since \in [Runners -> Nat]
  /\ manifest \in [Runners -> SUBSET Manifests]
  /\ temp \in [Runners -> SUBSET Packages]

(* A run goes by the version that was installed when it began. *)
Began ==
  \A u \in Runners : phase[u] # "idle" =>
    since[u] \in 1..Len(installs) /\ own[u] = Ver(since[u])

(* It downloads something signed and newer, and installs what was signed. *)
Fetched ==
  \A u \in Runners : phase[u] \in {"download", "install"} =>
    \E m \in Signed :
      /\ manifest[u] = {m}
      /\ IsNewer(m.version, own[u])
      /\ phase[u] = "install" => \A b \in temp[u] : b = m.msi

UpdaterInv ==
  /\ InstallsTyped
  /\ RunsTyped
  /\ Began
  /\ Fetched
  /\ UpdatesGoForward

LEMMA UpdaterInitInv ==
  ASSUME UpdaterInit PROVE UpdaterInv
<1> USE UpdaterAssumption DEF UpdaterInit
<1>1. InstallsTyped
  BY DEF InstallsTyped
<1>2. RunsTyped
  BY DEF RunsTyped
<1>3. Began /\ Fetched
  BY DEF Began, Fetched
<1>4. UpdatesGoForward
  BY DEF UpdatesGoForward
<1> QED BY <1>1, <1>2, <1>3, <1>4 DEF UpdaterInv

LEMMA ElementTyped ==
  ASSUME NEW S, NEW q \in Seq(S) PROVE \A k \in 1..Len(q) : q[k] \in S
OBVIOUS

LEMMA VerTyped ==
  ASSUME InstallsTyped
  PROVE  /\ Len(installs) \in Nat \ {0}
         /\ \A k \in 1..Len(installs) :
              installs[k].msi \in Packages /\ Ver(k) \in Versions
         /\ VersionOf[Installed] = Ver(Len(installs))
<1>1. Len(installs) \in Nat \ {0}
  BY DEF InstallsTyped
<1>2. \A k \in 1..Len(installs) : installs[k] \in [msi : Packages, since : Nat]
  BY ElementTyped DEF InstallsTyped
<1>3. \A k \in 1..Len(installs) :
        installs[k].msi \in Packages /\ Ver(k) \in Versions
  BY <1>2, UpdaterAssumption DEF Ver, Versions
<1> QED BY <1>1, <1>3 DEF Ver, Installed

LEMMA RunsTypedStep ==
  ASSUME InstallsTyped, RunsTyped, [UpdaterNext]_updaterVars
  PROVE  RunsTyped'
<1> USE DEF RunsTyped, Become
<1>1. ASSUME NEW u \in Runners, EndRun(u) PROVE RunsTyped'
  BY <1>1 DEF EndRun
<1>2. ASSUME NEW u \in Runners, StartRun(u) PROVE RunsTyped'
  <2>1. VersionOf[Installed] \in Versions /\ Len(installs) \in Nat
    BY VerTyped
  <2> QED BY <1>2, <2>1 DEF StartRun
<1>3. ASSUME NEW u \in Runners, NEW m \in Manifests, FetchManifest(u, m)
      PROVE  RunsTyped'
  BY <1>1, <1>3 DEF FetchManifest
<1>4. ASSUME NEW u \in Runners, NEW b \in Packages, DownloadMSI(u, b)
      PROVE  RunsTyped'
  BY <1>1, <1>4 DEF DownloadMSI
<1>5. CASE UNCHANGED updaterVars
  BY <1>5 DEF updaterVars
<1> QED BY <1>1, <1>2, <1>3, <1>4, <1>5 DEF UpdaterNext, RunFails, InstallMSI

(* A step that installs nothing. *)
LEMMA BeganStep ==
  ASSUME InstallsTyped, RunsTyped, Began, UNCHANGED installs,
         [UpdaterNext]_updaterVars
  PROVE  Began'
<1> USE DEF RunsTyped, Began, Become, Ver
<1>1. ASSUME NEW u \in Runners, EndRun(u) PROVE Began'
  BY <1>1 DEF EndRun
<1>2. ASSUME NEW u \in Runners, StartRun(u) PROVE Began'
  <2>1. VersionOf[Installed] = Ver(Len(installs)) /\ Len(installs) \in Nat \ {0}
    BY VerTyped
  <2> QED BY <1>2, <2>1 DEF StartRun
<1>3. ASSUME NEW u \in Runners, NEW m \in Manifests, FetchManifest(u, m)
      PROVE  Began'
  BY <1>1, <1>3 DEF FetchManifest
<1>4. ASSUME NEW u \in Runners, NEW b \in Packages, DownloadMSI(u, b)
      PROVE  Began'
  BY <1>1, <1>4 DEF DownloadMSI
<1>5. CASE UNCHANGED updaterVars
  BY <1>5 DEF updaterVars
<1> QED BY <1>1, <1>2, <1>3, <1>4, <1>5 DEF UpdaterNext, RunFails, InstallMSI

LEMMA FetchedStep ==
  ASSUME RunsTyped, Fetched, [UpdaterNext]_updaterVars
  PROVE  Fetched'
<1> USE DEF RunsTyped, Fetched, Become
<1>1. ASSUME NEW u \in Runners, EndRun(u) PROVE Fetched'
  BY <1>1 DEF EndRun
<1>2. ASSUME NEW u \in Runners, StartRun(u) PROVE Fetched'
  BY <1>2 DEF StartRun
<1>3. ASSUME NEW u \in Runners, NEW m \in Manifests, FetchManifest(u, m)
      PROVE  Fetched'
  BY <1>1, <1>3 DEF FetchManifest, Suitable
<1>4. ASSUME NEW u \in Runners, NEW b \in Packages, DownloadMSI(u, b)
      PROVE  Fetched'
  <2>1. CASE EndRun(u)
    BY <1>1, <2>1
  <2>2. CASE /\ phase' = [phase EXCEPT ![u] = "install"]
             /\ temp' = [temp EXCEPT ![u] = {b}]
             /\ \A m \in manifest[u] : b = m.msi
             /\ UNCHANGED <<own, manifest>>
    <3>1. PICK m \in Signed : manifest[u] = {m} /\ IsNewer(m.version, own[u])
      BY <1>4 DEF DownloadMSI
    <3>2. \A c \in temp'[u] : c = m.msi
      BY <2>2, <3>1
    <3> QED BY <2>2, <3>1, <3>2
  <2> QED BY <1>4, <2>1, <2>2 DEF DownloadMSI, Genuine
<1>5. CASE UNCHANGED updaterVars
  BY <1>5 DEF updaterVars
<1> QED BY <1>1, <1>2, <1>3, <1>4, <1>5 DEF UpdaterNext, RunFails, InstallMSI

(* What an installation adds is newer than what its run began with. *)
LEMMA InstallNewer ==
  ASSUME InstallsTyped, RunsTyped, Began, Fetched,
         NEW u \in Runners, NEW b \in Packages, InstallMSI(u, b)
  PROVE  /\ \E m \in Signed : m.msi = b
         /\ VersionOf[b] \in Versions /\ since[u] \in 1..Len(installs)
         /\ Outdates(VersionOf[b], Ver(since[u]))
         /\ NotOlder(VersionOf[b], Ver(Len(installs)))
<1>1. /\ phase[u] = "install" /\ b \in temp[u]
      /\ ~Outdates(VersionOf[Installed], VersionOf[b])
  BY DEF InstallMSI
<1>2. PICK m \in Signed : m.msi = b /\ IsNewer(m.version, own[u])
  BY <1>1 DEF Fetched
<1>3. since[u] \in 1..Len(installs) /\ own[u] = Ver(since[u])
  BY <1>1 DEF Began
<1>4. VersionOf[b] = m.version /\ VersionOf[b] \in Versions
  BY <1>2, UpdaterAssumption DEF Versions
<1>5. Len(installs) \in Nat \ {0} /\ VersionOf[Installed] = Ver(Len(installs))
      /\ Ver(since[u]) \in Versions /\ Ver(Len(installs)) \in Versions
  BY <1>3, VerTyped
<1>6. Outdates(VersionOf[b], Ver(since[u]))
  BY <1>2, <1>3, <1>4, <1>5, Lexicographic
<1>7. NotOlder(VersionOf[b], Ver(Len(installs)))
  BY <1>1, <1>4, <1>5, VersionOrder
<1> QED BY <1>2, <1>3, <1>4, <1>6, <1>7

(* The earlier of two installations is not of a newer version. *)
LEMMA Forward ==
  ASSUME InstallsTyped, UpdatesGoForward,
         NEW j \in 1..Len(installs), NEW k \in 1..Len(installs), j <= k
  PROVE  NotOlder(Ver(k), Ver(j))
<1>1. CASE j = k
  BY <1>1 DEF NotOlder
<1>2. CASE j # k
  <2>1. k \in 2..Len(installs) /\ j \in 1..k - 1
    BY <1>2, VerTyped
  <2> QED BY <2>1 DEF UpdatesGoForward, NotOlder, Ver
<1> QED BY <1>1, <1>2

LEMMA InstallStep ==
  ASSUME UpdaterInv, RunsTyped', NEW u \in Runners, NEW b \in Packages,
         InstallMSI(u, b)
  PROVE  UpdaterInv'
<1> DEFINE new == [msi |-> b, since |-> since[u]]
           n   == Len(installs)
<1> USE DEF UpdaterInv
<1>1. /\ installs' = Append(installs, new) /\ n \in Nat \ {0}
      /\ installs \in Seq([msi : Packages, since : Nat])
      /\ new \in [msi : Packages, since : Nat]
  BY VerTyped DEF InstallMSI, InstallsTyped, RunsTyped
<1>2. /\ InstallsTyped' /\ Len(installs') = n + 1 /\ installs'[n + 1] = new
      /\ \A k \in 1..n : installs'[k] = installs[k]
  BY <1>1 DEF InstallsTyped
<1>3. Began'
  <2>1. \A v \in Runners : phase'[v] # "idle" =>
          phase[v] # "idle" /\ since'[v] = since[v] /\ own'[v] = own[v]
    BY DEF InstallMSI, EndRun, Become, RunsTyped
  <2>2. \A k \in 1..n : k \in 1..n + 1 /\ installs'[k] = installs[k]
    BY <1>1, <1>2
  <2> QED BY <1>2, <2>1, <2>2 DEF Began, Ver
<1>4. Fetched'
  BY DEF Fetched, InstallMSI, EndRun, Become, RunsTyped
<1>5. UpdatesGoForward'
  <2> SUFFICES ASSUME NEW k \in 2..n + 1
               PROVE  /\ \E m \in Signed : m.msi = installs'[k].msi
                      /\ \A j \in 1..k - 1 :
                           \/ Outdates(VersionOf[installs'[k].msi], VersionOf[installs'[j].msi])
                           \/ /\ VersionOf[installs'[k].msi] = VersionOf[installs'[j].msi]
                              /\ installs'[k].since < j
    BY <1>2 DEF UpdatesGoForward
  <2>1. CASE k \in 2..n
    <3>1. k \in 1..n /\ \A j \in 1..k - 1 : j \in 1..n
      BY <1>1, <2>1
    <3> QED BY <1>2, <2>1, <3>1 DEF UpdatesGoForward
  <2>2. CASE k = n + 1
    <3>1. installs'[k].msi = b /\ installs'[k].since = since[u]
      BY <1>2, <2>2
    <3>2. /\ \E m \in Signed : m.msi = b
          /\ VersionOf[b] \in Versions /\ since[u] \in 1..n
          /\ Outdates(VersionOf[b], Ver(since[u]))
          /\ NotOlder(VersionOf[b], Ver(n))
      BY InstallNewer
    <3>3. ASSUME NEW j \in 1..k - 1
          PROVE  \/ Outdates(VersionOf[b], Ver(j))
                 \/ VersionOf[b] = Ver(j) /\ since[u] < j
      <4>1. j \in 1..n /\ n \in 1..n /\ j <= n
        BY <1>1, <2>2
      <4>2. Ver(j) \in Versions /\ Ver(n) \in Versions /\ Ver(since[u]) \in Versions
        BY <3>2, <4>1, VerTyped
      <4>3. NotOlder(Ver(n), Ver(j))
        BY <4>1, Forward
      <4>4. NotOlder(VersionOf[b], Ver(j))
        BY <3>2, <4>2, <4>3, VersionOrder
      <4>5. ASSUME VersionOf[b] = Ver(j), ~(since[u] < j)
            PROVE  FALSE
        <5>1. j <= since[u]
          BY <3>2, <4>1, <4>5
        <5>2. NotOlder(Ver(since[u]), Ver(j))
          BY <3>2, <4>1, <5>1, Forward
        <5>3. Outdates(Ver(j), Ver(j))
          BY <3>2, <4>2, <4>5, <5>2, VersionOrder
        <5> QED BY <4>2, <5>3, VersionOrder
      <4> QED BY <4>4, <4>5 DEF NotOlder
    <3>4. \A j \in 1..k - 1 : installs'[j] = installs[j]
      BY <1>1, <1>2, <2>2
    <3> QED BY <3>1, <3>2, <3>3, <3>4 DEF Ver
  <2>3. k \in 2..n \/ k = n + 1
    BY <1>1
  <2> QED BY <2>1, <2>2, <2>3
<1> QED BY <1>2, <1>3, <1>4, <1>5

LEMMA UpdaterStep ==
  ASSUME UpdaterInv, [UpdaterNext]_updaterVars PROVE UpdaterInv'
<1>1. RunsTyped'
  BY RunsTypedStep DEF UpdaterInv
<1>2. CASE UNCHANGED installs
  <2>1. InstallsTyped' /\ UpdatesGoForward'
    BY <1>2 DEF UpdaterInv, InstallsTyped, UpdatesGoForward
  <2> QED BY <1>1, <1>2, <2>1, BeganStep, FetchedStep DEF UpdaterInv
<1>3. ASSUME NEW u \in Runners, NEW b \in Packages, InstallMSI(u, b)
      PROVE  UpdaterInv'
  BY <1>1, <1>3, InstallStep
<1> QED BY <1>2, <1>3
        DEF UpdaterNext, updaterVars, StartRun, RunFails, FetchManifest,
            DownloadMSI

(* The inductive invariant holds in every state of every behaviour. *)
THEOREM UpdaterInvariant == UpdaterSpec => []UpdaterInv
<1>1. UpdaterInit => UpdaterInv
  BY UpdaterInitInv
<1>2. UpdaterInv /\ [UpdaterNext]_updaterVars => UpdaterInv'
  BY UpdaterStep
<1> QED BY <1>1, <1>2, PTL DEF UpdaterSpec

(* Only what was signed for is installed, and no version gives way to an older
   one or to itself a second time by a run that saw it (main.go:89, :252). *)
THEOREM UpdatesGoForwardHolds == UpdaterSpec => []UpdatesGoForward
<1>1. UpdaterInv => UpdatesGoForward
  BY DEF UpdaterInv
<1> QED BY <1>1, UpdaterInvariant, PTL

-----------------------------------------------------------------------------
(* The types of the updater: a run has one manifest and one file at most, and
   the file only while it installs. *)

OneFileEach ==
  /\ runs \in [Runners -> 0..MaxRuns]
  /\ \A u \in Runners :
       /\ manifest[u] \in {{}} \cup {{m} : m \in Manifests}
       /\ temp[u] \in {{}} \cup {{b} : b \in Packages}
       /\ temp[u] # {} <=> phase[u] = "install"

LEMMA OneFileEachInit ==
  ASSUME UpdaterInit PROVE OneFileEach
<1> USE UpdaterAssumption DEF UpdaterInit
<1>1. runs \in [Runners -> 0..MaxRuns]
  OBVIOUS
<1> QED BY <1>1 DEF OneFileEach

LEMMA OneFileEachStep ==
  ASSUME RunsTyped, OneFileEach, [UpdaterNext]_updaterVars
  PROVE  OneFileEach'
<1> USE DEF RunsTyped, OneFileEach, Become
<1>1. ASSUME NEW u \in Runners, EndRun(u), runs' = runs PROVE OneFileEach'
  BY <1>1 DEF EndRun
<1>2. ASSUME NEW u \in Runners, StartRun(u) PROVE OneFileEach'
  <2>1. runs' \in [Runners -> 0..MaxRuns]
    BY <1>2, UpdaterAssumption DEF StartRun
  <2> QED BY <1>2, <2>1 DEF StartRun
<1>3. ASSUME NEW u \in Runners, NEW m \in Manifests, FetchManifest(u, m)
      PROVE  OneFileEach'
  <2>1. CASE Suitable(m, own[u])
    <3>1. phase' = [phase EXCEPT ![u] = "download"] /\ manifest' = [manifest EXCEPT ![u] = {m}]
          /\ temp' = temp /\ runs' = runs /\ phase[u] = "manifest"
      BY <1>3, <2>1 DEF FetchManifest
    <3>2. \A v \in Runners : manifest'[v] \in {{}} \cup {{n} : n \in Manifests}
      BY <3>1
    <3>3. \A v \in Runners : temp'[v] # {} <=> phase'[v] = "install"
      BY <3>1
    <3> QED BY <3>1, <3>2, <3>3
  <2>2. CASE ~Suitable(m, own[u])
    BY <1>1, <1>3, <2>2 DEF FetchManifest
  <2> QED BY <2>1, <2>2
<1>4. ASSUME NEW u \in Runners, NEW b \in Packages, DownloadMSI(u, b)
      PROVE  OneFileEach'
  <2>1. CASE \A m \in manifest[u] : Genuine(b, m)
    <3>1. phase' = [phase EXCEPT ![u] = "install"] /\ temp' = [temp EXCEPT ![u] = {b}]
          /\ manifest' = manifest /\ runs' = runs
      BY <1>4, <2>1 DEF DownloadMSI
    <3>2. \A v \in Runners : temp'[v] \in {{}} \cup {{c} : c \in Packages}
      BY <3>1
    <3>3. \A v \in Runners : temp'[v] # {} <=> phase'[v] = "install"
      BY <3>1
    <3> QED BY <3>1, <3>2, <3>3
  <2>2. CASE ~\A m \in manifest[u] : Genuine(b, m)
    BY <1>1, <1>4, <2>2 DEF DownloadMSI
  <2> QED BY <2>1, <2>2
<1>5. ASSUME NEW u \in Runners, RunFails(u) PROVE OneFileEach'
  BY <1>1, <1>5 DEF RunFails
<1>6. ASSUME NEW u \in Runners, NEW b \in Packages, InstallMSI(u, b)
      PROVE  OneFileEach'
  BY <1>1, <1>6 DEF InstallMSI
<1>7. CASE UNCHANGED updaterVars
  BY <1>7 DEF updaterVars
<1> QED BY <1>2, <1>3, <1>4, <1>5, <1>6, <1>7 DEF UpdaterNext

-----------------------------------------------------------------------------
(* The parts side by side. *)

DesktopInv ==
  /\ LoopbackInv
  /\ ActivationInv
  /\ IniInv
  /\ UpdaterInv /\ OneFileEach
  /\ IntakeInv /\ IntakeTyping

LEMMA DesktopStep ==
  ASSUME DesktopInv, [Next]_desktopVars
  PROVE  DesktopInv'
<1>1. /\ [LoopbackNext]_loopbackVars
      /\ [ActivationNext]_activationVars /\ [IniNext]_iniVars
      /\ [UpdaterNext]_updaterVars /\ [IntakeNext]_intakeVars
  BY DEF Next, desktopVars
<1>2. ActivationInv'
  BY <1>1, ActivationStep DEF DesktopInv
<1>3. IniInv'
  BY <1>1, IniInvStep DEF DesktopInv
<1>4. UpdaterInv'
  BY <1>1, UpdaterStep DEF DesktopInv
<1>5. OneFileEach'
  BY <1>1, OneFileEachStep DEF DesktopInv, UpdaterInv
<1>6. IntakeInv'
  BY <1>1, IntakeStep DEF DesktopInv
<1>7. IntakeTyping'
  BY <1>1, IntakeTypingStep DEF DesktopInv, IntakeInv
<1>8. LoopbackInv'
  BY <1>1, LoopbackStep DEF DesktopInv
<1> QED BY <1>2, <1>3, <1>4, <1>5, <1>6, <1>7, <1>8 DEF DesktopInv

(* The inductive invariants of the five parts hold together. *)
THEOREM DesktopInvariant == Spec => []DesktopInv
<1>1. Init => DesktopInv
  BY LoopbackInitInv, ActivationInitInv, IniInitInv, UpdaterInitInv, OneFileEachInit, IntakeInitInv,
     IntakeTypingInit
     DEF Init, DesktopInv
<1>2. DesktopInv /\ [Next]_desktopVars => DesktopInv'
  BY DesktopStep
<1> QED BY <1>1, <1>2, PTL DEF Spec

(* So whichever part moves, everything has its type: a run of the updater has
   one file at most and only while it installs, a request is for a valid
   contact, a port the client knows is one the service has had, and a file
   holds lines or what a broken write left. *)
THEOREM DesktopTyped == Spec => []TypeOK
<1>1. DesktopInv => UpdaterTypeOK
  BY DEF DesktopInv, UpdaterInv, InstallsTyped, RunsTyped, OneFileEach, UpdaterTypeOK
<1>2. DesktopInv => IntakeTypeOK
  BY IntakeTypingMeans DEF DesktopInv
<1>3. DesktopInv => LoopbackTypeOK /\ ActivationTypeOK /\ IniTypeOK
  BY DEF DesktopInv, LoopbackInv, ActivationInv, IniInv
<1>4. DesktopInv => TypeOK
  BY <1>1, <1>2, <1>3 DEF TypeOK
<1> QED BY <1>4, DesktopInvariant, PTL

(* A behaviour of the five side by side is one of each by itself, for which
   the other four only stutter. *)
THEOREM DesktopPartsMove ==
  Spec => LoopbackSpec /\ ActivationSpec /\ IniSpec /\ UpdaterSpec /\ IntakeSpec
<1>1. Init => LoopbackInit /\ ActivationInit /\ IniInit /\ UpdaterInit /\ IntakeInit
  BY DEF Init
<1>2. [Next]_desktopVars =>
        /\ [LoopbackNext]_loopbackVars
        /\ [ActivationNext]_activationVars /\ [IniNext]_iniVars
        /\ [UpdaterNext]_updaterVars /\ [IntakeNext]_intakeVars
  BY DEF Next, desktopVars
<1> QED BY <1>1, <1>2, PTL
        DEF Spec, LoopbackSpec, ActivationSpec, IniSpec, UpdaterSpec, IntakeSpec

(* What is proved of each part therefore holds of the instance that is
   checked: a signed request is accepted once, licences survive restarts and
   keys are spent once, tally.ini keeps the user's lines and takes patches,
   updates go forward, and presses are accounted for. *)
THEOREM DesktopIsRight ==
  Spec => [](/\ AcceptedAtMostOnce /\ RememberedWhileAcceptable
             /\ SurvivesRestart /\ SpentOncePerMachine
             /\ UserLinesSurvive /\ PatchTakesEffect
             /\ UpdatesGoForward /\ PressAccounted)
BY DesktopPartsMove, AtMostOnce, RememberedLongEnough, SurvivesRestartHolds, SpentOncePerMachineHolds, UserLinesAreKept,
   PatchesTakeEffect, UpdatesGoForwardHolds, PressAccountedHolds, PTL

=============================================================================
