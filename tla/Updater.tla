------------------------------- MODULE Updater -------------------------------
(***************************************************************************)
(* tallywa-updater: once a day, and whenever somebody runs it by hand, it  *)
(* fetches a manifest, downloads the MSI named there and has msiexec       *)
(* install it, all within five minutes.  Runs may overlap.                 *)
(*                                                                         *)
(* What the server sends is arbitrary: any manifest ever signed, one that  *)
(* was not, and any bytes for an MSI.  A run goes by the version built     *)
(* into its own executable, which another run may have replaced on disk    *)
(* since.  Windows Installer runs one installation at a time and, as       *)
(* Product.wxs asks, refuses a version older than the installed one; a     *)
(* failed installation is rolled back.                                     *)
(*                                                                         *)
(* Versions of packages are three numbers, as the installer demands; "dev" *)
(* and other words do not occur here.  A manifest may ask for any minimum, *)
(* the empty one included.                                                 *)
(*                                                                         *)
(* Definitions named Wrong... are mutated forms, see Outbox.               *)
(***************************************************************************)
EXTENDS Integers, Sequences, FiniteSets

CONSTANTS
  Runners,     (* processes of the updater                                 *)
  Packages,    (* MSI files, by their SHA-256                              *)
  VersionOf,   (* the version each installs                                *)
  Manifests,   (* manifests a server may send: version, msi, min           *)
  Signed,      (* those the build pipeline has signed                      *)
  FirstMsi,    (* what was installed by hand                               *)
  MaxRuns      (* bound: runs of each process                              *)

ASSUME UpdaterAssumption ==
  /\ VersionOf \in [Packages -> [1..3 -> Nat]]
  /\ Signed \subseteq Manifests
  /\ \A m \in Signed : VersionOf[m.msi] = m.version
  /\ FirstMsi \in Packages
  /\ MaxRuns \in Nat

VARIABLES
  installs,   (* the installations so far: msi, and how many there had been
                 when the run that made it began                           *)
  phase,      (* phase[u]: where run u is                                  *)
  own,        (* own[u]: the version built into it                         *)
  since,      (* since[u]: installations there had been when it began      *)
  manifest,   (* manifest[u]: the manifest it works on                     *)
  temp,       (* temp[u]: its temporary file, or {}                        *)
  runs        (* runs[u]: runs so far                                      *)

updaterVars == <<installs, phase, own, since, manifest, temp, runs>>

Installed == installs[Len(installs)].msi

UpdaterInit ==
  /\ installs = <<[msi |-> FirstMsi, since |-> 0]>>
  /\ phase    = [u \in Runners |-> "idle"]
  /\ own      = [u \in Runners |-> <<>>]
  /\ since    = [u \in Runners |-> 0]
  /\ manifest = [u \in Runners |-> {}]
  /\ temp     = [u \in Runners |-> {}]
  /\ runs     = [u \in Runners |-> 0]

-----------------------------------------------------------------------------

(* cmpVersion > 0: the first segment that differs decides; a segment that is
   missing is less than any number, zero included. *)
IsNewer(a, b) ==
  \E i \in DOMAIN a :
    /\ \A j \in 1..i - 1 : j \in DOMAIN b /\ a[j] = b[j]
    /\ i \in DOMAIN b => a[i] > b[i]

(* Windows Installer's own comparison, for which a missing segment is zero. *)
Segment(v, i) == IF i \in DOMAIN v THEN v[i] ELSE 0

Outdates(a, b) ==
  \E i \in 1..3 :
    /\ \A j \in 1..i - 1 : Segment(a, j) = Segment(b, j)
    /\ Segment(a, i) > Segment(b, i)

(* fetchManifest and run: signed, not for newer updaters, and an update. *)
Suitable(m, version) ==
  /\ m \in Signed
  /\ ~IsNewer(m.min, version)
  /\ IsNewer(m.version, version)

(* downloadMSI: the bytes are those the manifest names. *)
WrongGenuine(b, m) == VersionOf[b] = m.version

Genuine(b, m) == b = m.msi

-----------------------------------------------------------------------------

Become(u, s) == phase' = [phase EXCEPT ![u] = s]

StartRun(u) ==
  /\ phase[u] = "idle"
  /\ runs[u] < MaxRuns
  /\ runs'  = [runs EXCEPT ![u] = @ + 1]
  /\ own'   = [own EXCEPT ![u] = VersionOf[Installed]]
  /\ since' = [since EXCEPT ![u] = Len(installs)]
  /\ Become(u, "manifest")
  /\ UNCHANGED <<installs, manifest, temp>>

(* run() returns; what it deferred removes the temporary file. *)
WrongEndRun(u) ==
  /\ Become(u, "idle")
  /\ manifest' = [manifest EXCEPT ![u] = {}]
  /\ own'      = [own EXCEPT ![u] = <<>>]
  /\ since'    = [since EXCEPT ![u] = 0]
  /\ UNCHANGED temp

EndRun(u) ==
  /\ Become(u, "idle")
  /\ manifest' = [manifest EXCEPT ![u] = {}]
  /\ temp'     = [temp EXCEPT ![u] = {}]
  /\ own'      = [own EXCEPT ![u] = <<>>]
  /\ since'    = [since EXCEPT ![u] = 0]

(* The manifest arrives; it is used or the run ends. *)
FetchManifest(u, m) ==
  /\ phase[u] = "manifest"
  /\ IF Suitable(m, own[u])
       THEN /\ Become(u, "download")
            /\ manifest' = [manifest EXCEPT ![u] = {m}]
            /\ UNCHANGED <<own, since, temp>>
       ELSE EndRun(u)
  /\ UNCHANGED <<installs, runs>>

(* The bytes are written to a temporary file, removed at once when they are
   not those of the manifest. *)
DownloadMSI(u, b) ==
  /\ phase[u] = "download"
  /\ IF \A m \in manifest[u] : Genuine(b, m)
       THEN /\ Become(u, "install")
            /\ temp' = [temp EXCEPT ![u] = {b}]
            /\ UNCHANGED <<own, since, manifest>>
       ELSE EndRun(u)
  /\ UNCHANGED <<installs, runs>>

(* No connection, an error of the server or the disk, or the deadline, or the
   process is killed; and msiexec may refuse or roll back.  A file that a
   killed process leaves behind has a name of its own and is never read. *)
RunFails(u) ==
  /\ phase[u] # "idle"
  /\ EndRun(u)
  /\ UNCHANGED <<installs, runs>>

(* msiexec installs; the deadline may end the client and not the installation.
   The same version is installed over itself. *)
InstallMSI(u, b) ==
  /\ phase[u] = "install"
  /\ b \in temp[u]
  /\ ~Outdates(VersionOf[Installed], VersionOf[b])
  /\ installs' = Append(installs, [msi |-> b, since |-> since[u]])
  /\ EndRun(u)
  /\ UNCHANGED <<runs>>

UpdaterNext ==
  \E u \in Runners :
    \/ StartRun(u) \/ RunFails(u)
    \/ \E m \in Manifests : FetchManifest(u, m)
    \/ \E b \in Packages : DownloadMSI(u, b) \/ InstallMSI(u, b)

UpdaterSpec == UpdaterInit /\ [][UpdaterNext]_updaterVars

-----------------------------------------------------------------------------

UpdaterTypeOK ==
  /\ installs \in Seq([msi : Packages, since : Nat])
  /\ phase \in [Runners -> {"idle", "manifest", "download", "install"}]
  /\ \A u \in Runners :
       /\ manifest[u] \in {{}} \cup {{m} : m \in Manifests}
       /\ temp[u] \in {{}} \cup {{b} : b \in Packages}
       /\ temp[u] # {} <=> phase[u] = "install"
  /\ since \in [Runners -> Nat]
  /\ runs \in [Runners -> 0..MaxRuns]

(* Whatever the server sends and however runs overlap: only an MSI that was
   signed for is installed, the installed version never goes back, and the
   same one is installed again only by a run that began before it was there
   (main.go:252, main.go:166, Product.wxs:47). *)
UpdatesGoForward ==
  \A k \in 2..Len(installs) :
    /\ \E m \in Signed : m.msi = installs[k].msi
    /\ \A j \in 1..k - 1 :
         LET before == VersionOf[installs[j].msi]
             after  == VersionOf[installs[k].msi]
         IN  Outdates(after, before) \/ (after = before /\ installs[k].since < j)

=============================================================================
