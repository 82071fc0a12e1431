------------------------------ MODULE TallyIni ------------------------------
(***************************************************************************)
(* The edits of tally.ini (internal/tally): the installer's helper and the *)
(* service at each start add the lines that load the shipped TDL files     *)
(* (PatchIni), the uninstaller's helper takes them out again (UnpatchIni). *)
(* Each is a process of its own that reads the file, computes new          *)
(* contents, copies the file to tally.ini.bak and replaces it by way of    *)
(* tally.ini.tmp.  No lock is held, and the user edits the file, too.      *)
(*                                                                         *)
(* A line is a comment or a setting of no concern ("text"), a file to load *)
(* ("tdl") or the line that makes Tally load any ("switch", of which the   *)
(* last counts).                                                           *)
(*                                                                         *)
(* Definitions named Wrong... are mutated forms, see Outbox.               *)
(***************************************************************************)
EXTENDS Integers, Sequences, FiniteSets, WriteAtomic

CONSTANTS
  Patchers,     (* the installer's helper and the service                  *)
  Unpatchers,   (* the uninstaller's helper                                *)
  Shipped,      (* the TDL files to load, a sequence of paths              *)
  Under,        (* the paths that begin with the directory of those        *)
  FirstIni,     (* tally.ini before the installation, or NoFile            *)
  UserLines,    (* lines the user may add                                  *)
  Idle,         (* contents of a worker that has none                      *)
  MaxStarts,    (* bound: starts of each worker                            *)
  MaxEdits      (* bound: edits by the user                                *)

Workers == Patchers \cup Unpatchers

Listed(s) == {s[i] : i \in DOMAIN s}

Note      == [key |-> "text", val |-> "added by TallyWhatsApp"]
Switch(v) == [key |-> "switch", val |-> v]
Tdl(p)    == [key |-> "tdl", val |-> p]

Read(file) == IF file = NoFile THEN <<>> ELSE file

(* Every line there can be. *)
Lines ==
  Listed(Read(FirstIni)) \cup UserLines \cup {Note, Switch("yes"), Switch("no")}
    \cup {Tdl(p) : p \in Listed(Shipped)}

ASSUME TallyIniAssumption ==
  /\ Patchers \cap Unpatchers = {}
  /\ Shipped \in Seq(Under)
  /\ FirstIni \in Seq(Lines) \cup {NoFile}
  /\ MaxStarts \in Nat /\ MaxEdits \in Nat

ASSUME IniFilesAssumption ==
  /\ NoFile \notin Seq(Lines) /\ Blank \notin Seq(Lines)
  /\ Mixed \notin Seq(Lines) /\ Idle \notin Seq(Lines)
  /\ NoFile # Blank /\ NoFile # Mixed

VARIABLES
  ini,          (* tally.ini: its lines, or NoFile                         *)
  bak,          (* tally.ini.bak                                           *)
  iniTmp,       (* tally.ini.tmp                                           *)
  pc,           (* pc[w]: where worker w is                                *)
  contents,     (* contents[w]: the contents w computed                    *)
  starts,       (* starts[w]: starts of w                                  *)
  edits,        (* edits by the user so far                                *)
  mine,         (* the user's lines, as the user last saw them             *)
  behind,       (* workers that read the file before its last change       *)
  fresh,        (* workers that succeeded and saw no change since          *)
  disturbed     (* one replaced a change it had not read, opened the
                   temporary file before another had renamed it, or failed
                   to copy while another was past its copy                 *)

iniVars == <<ini, bak, iniTmp, pc, contents, starts, edits, mine, behind,
             fresh, disturbed>>

-----------------------------------------------------------------------------

(* The elements of s that are in S, in their order. *)
Keep(s, S) ==
  LET upTo[i \in 0..Len(s)] ==
        IF i = 0 THEN <<>>
        ELSE IF s[i] \in S THEN Append(upTo[i - 1], s[i]) ELSE upTo[i - 1]
  IN  upTo[Len(s)]

Loaded(s) == {l.val : l \in {x \in Listed(s) : x.key = "tdl"}}

(* The last switch line counts. *)
SwitchedOn(s) ==
  \E i \in DOMAIN s : /\ s[i] = Switch("yes")
                      /\ \A j \in DOMAIN s : j > i => s[j].key # "switch"

Additions(s) ==
  (IF SwitchedOn(s) THEN <<>> ELSE <<Switch("yes")>>)
    \o [i \in DOMAIN Keep(Shipped, Under \ Loaded(s)) |->
          Tdl(Keep(Shipped, Under \ Loaded(s))[i])]

(* applyPatch: nothing is inserted, what is missing is put at the end. *)
WrongApplyPatch(s) ==
  LET missing == Keep(Shipped, Under \ Loaded(s))
      added   == (IF \E l \in Listed(s) : l.key = "switch"
                    THEN <<>> ELSE <<Switch("yes")>>)
                   \o [i \in DOMAIN missing |-> Tdl(missing[i])]
  IN  IF added = <<>> THEN s ELSE s \o <<Note>> \o added

ApplyPatch(s) ==
  IF Additions(s) = <<>> THEN s ELSE s \o <<Note>> \o Additions(s)

(* stripTDLs: the lines whose path begins with the directory go; when no TDL
   is left to load, every switch is turned off.  The notes stay. *)
WrongStripTDLs(s) ==
  LET kept == Keep(s, {l \in Lines : l.key # "tdl"})
  IN  [i \in DOMAIN kept |->
         IF kept[i] = Switch("yes") THEN Switch("no") ELSE kept[i]]

Elsewhere == {l \in Lines : l.key = "tdl" => l.val \notin Under}

StripTDLs(s) ==
  LET kept == Keep(s, Elsewhere)
  IN  [i \in DOMAIN kept |->
         IF Loaded(kept) = {} /\ kept[i] = Switch("yes")
           THEN Switch("no") ELSE kept[i]]

(* What worker w makes of the contents s. *)
Result(w, s) == IF w \in Patchers THEN ApplyPatch(s) ELSE StripTDLs(s)

(* The lines that are the user's. *)
Theirs == {l \in Elsewhere : l # Note /\ l.key # "switch"}

OfUser(s) == Keep(s, Theirs)

IniInit ==
  /\ ini = FirstIni /\ bak = NoFile /\ iniTmp = NoFile
  /\ pc       = [w \in Workers |-> "idle"]
  /\ contents = [w \in Workers |-> Idle]
  /\ starts   = [w \in Workers |-> 0]
  /\ edits    = 0
  /\ mine     = OfUser(Read(FirstIni))
  /\ behind = {} /\ fresh = {} /\ disturbed = FALSE

-----------------------------------------------------------------------------

Go(w, step) == pc' = [pc EXCEPT ![w] = step]

(* Read the file and compute.  Without a change to make there is nothing more
   to do; a file that is not there cannot be unpatched and needs no copy. *)
ReadIni(w) ==
  /\ pc[w] = "idle"
  /\ starts[w] < MaxStarts
  /\ starts' = [starts EXCEPT ![w] = @ + 1]
  /\ ini # Blank /\ ini # Mixed
  /\ behind' = behind \ {w}
  /\ IF Result(w, Read(ini)) = Read(ini)
       THEN /\ fresh' = fresh \cup {w}
            /\ UNCHANGED <<pc, contents>>
       ELSE /\ fresh' = fresh \ {w}
            /\ contents' = [contents EXCEPT ![w] = Result(w, Read(ini))]
            /\ Go(w, IF ini = NoFile THEN Opening ELSE "backup")
  /\ UNCHANGED <<ini, bak, iniTmp, edits, mine, disturbed>>

(* The copy is made of the file as it is now. *)
BackupFile(w) ==
  /\ pc[w] = "backup"
  /\ ini # NoFile
  /\ bak' = ini
  /\ Go(w, Opening)
  /\ UNCHANGED <<ini, iniTmp, contents, starts, edits, mine, behind, fresh,
                 disturbed>>

OpenIni(w) ==
  /\ pc[w] = Opening
  /\ iniTmp'    = Blank
  /\ disturbed' = (disturbed \/ \E v \in Workers : pc[v] \in Holding \cup {Renaming})
  /\ Go(w, "write")
  /\ UNCHANGED <<ini, bak, contents, starts, edits, mine, behind, fresh>>

WriteIni(w) ==
  /\ pc[w] = "write"
  /\ iniTmp' \in Written(iniTmp, contents[w])
  /\ Go(w, "close")
  /\ UNCHANGED <<ini, bak, contents, starts, edits, mine, behind, fresh,
                 disturbed>>

CloseIni(w) ==
  /\ pc[w] = "close"
  /\ Go(w, Renaming)
  /\ UNCHANGED <<ini, bak, iniTmp, contents, starts, edits, mine, behind,
                 fresh, disturbed>>

Stop(w) ==
  /\ Go(w, "idle")
  /\ contents' = [contents EXCEPT ![w] = Idle]

RenameIni(w) ==
  /\ pc[w] = Renaming
  /\ CanRename(pc, w, iniTmp)
  /\ ini' = iniTmp /\ iniTmp' = NoFile
  /\ Stop(w)
  /\ fresh'     = {w}
  /\ behind'    = Workers \ {w}
  /\ disturbed' = (disturbed \/ w \in behind)
  /\ UNCHANGED <<bak, starts, edits, mine>>

(* A worker is killed, or a step of it fails and it gives up; a write cut
   short leaves the copy or the temporary file empty. *)
GiveUp(w) ==
  /\ pc[w] # "idle"
  /\ Stop(w)
  /\ \/ UNCHANGED <<bak, disturbed>>
     \/ /\ pc[w] = "backup"
        /\ bak' = Blank
        /\ disturbed' = (disturbed \/ \E v \in Workers : pc[v] \in WriterSteps)
  /\ UNCHANGED <<ini, iniTmp, starts, edits, mine, behind, fresh>>

(* The user saves the file from an editor. *)
UserSaves(s) ==
  /\ edits < MaxEdits
  /\ ini # Blank /\ ini # Mixed
  /\ s # Read(ini)
  /\ ini'    = s
  /\ edits'  = edits + 1
  /\ mine'   = OfUser(s)
  /\ behind' = Workers
  /\ fresh'  = {}
  /\ UNCHANGED <<bak, iniTmp, pc, contents, starts, disturbed>>

(* Tally is installed anew and the file is gone. *)
TallyReinstalled ==
  /\ edits < MaxEdits
  /\ ini # NoFile
  /\ ini'    = NoFile
  /\ edits'  = edits + 1
  /\ mine'   = <<>>
  /\ behind' = Workers
  /\ fresh'  = {}
  /\ UNCHANGED <<bak, iniTmp, pc, contents, starts, disturbed>>

(* A line added at the top, one taken out, the switch turned off. *)
Edited(s) ==
  {<<l>> \o s : l \in UserLines \ Listed(s)}
    \cup {Keep(s, Lines \ {l}) : l \in Listed(s)}
    \cup {Append(Keep(s, {x \in Lines : x.key # "switch"}), Switch("no"))}

IniNext ==
  \/ \E w \in Workers :
       \/ ReadIni(w) \/ BackupFile(w) \/ OpenIni(w) \/ WriteIni(w)
       \/ CloseIni(w) \/ RenameIni(w) \/ GiveUp(w)
  \/ \E s \in (IF ini \in {Blank, Mixed} THEN {} ELSE Edited(Read(ini))) :
       UserSaves(s)
  \/ TallyReinstalled

IniSpec == IniInit /\ [][IniNext]_iniVars

-----------------------------------------------------------------------------

IniTypeOK ==
  /\ ini    \in Seq(Lines) \cup {NoFile, Blank, Mixed}
  /\ bak    \in Seq(Lines) \cup {NoFile, Blank, Mixed}
  /\ iniTmp \in Seq(Lines) \cup {NoFile, Blank, Mixed}
  /\ contents \in [Workers -> Seq(Lines) \cup {Idle}]
  /\ mine \in Seq(Lines)
  /\ pc \in [Workers -> {"idle", "backup"} \cup WriterSteps]
  /\ \A w \in Workers : pc[w] = "idle" <=> contents[w] = Idle
  /\ starts \in [Workers -> 0..MaxStarts]
  /\ edits \in 0..MaxEdits
  /\ behind \in SUBSET Workers /\ fresh \in SUBSET Workers
  /\ disturbed \in BOOLEAN

(* No patch, unpatch, failure or crash loses, adds or moves a line of the
   user, and while the file is being replaced the copy holds them all, unless
   a worker replaced a change it had not read or two used the temporary file
   or the copy at once: nothing in the code prevents that (tally.go:76, tally.go:298). *)
UserLinesSurvive ==
  ~disturbed =>
    /\ OfUser(Read(ini)) = mine
    /\ \A w \in Workers \ behind :
         pc[w] \in WriterSteps /\ ini # NoFile => OfUser(bak) = mine

(* After a patch that succeeded Tally loads every shipped file, whatever the
   user had turned off or taken out before, and after an unpatch none of
   them, until somebody changes the file again (tally.go:154, tally.go:199);
   in particular a second patch right after changes nothing. *)
PatchTakesEffect ==
  ~disturbed =>
    \A w \in fresh :
      IF w \in Patchers
        THEN SwitchedOn(Read(ini)) /\ Listed(Shipped) \subseteq Loaded(Read(ini))
        ELSE /\ Loaded(Read(ini)) \cap Under = {}
             /\ Loaded(Read(ini)) = {} => ~SwitchedOn(Read(ini))

=============================================================================
