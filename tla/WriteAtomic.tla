----------------------------- MODULE WriteAtomic -----------------------------
(***************************************************************************)
(* The protocol of license.Write and of tally's writeAtomic: write all the *)
(* data to <path>.tmp, then rename that onto <path>.  Every writer of a    *)
(* path uses the same temporary file, which is what this module is about.  *)
(*                                                                         *)
(* os.WriteFile opens the file, which empties it, writes once from the     *)
(* beginning, and closes it.  Two writers may hold the file at once; then  *)
(* the shorter data may leave the end of the longer behind it.  On Windows *)
(* a file that anybody holds open cannot be renamed.                       *)
(***************************************************************************)
CONSTANTS
  NoFile,   (* the file does not exist                                     *)
  Blank,    (* it was emptied and not written yet                          *)
  Mixed     (* it holds the beginning of one and the end of another data   *)

(* Where a writer is: about to open, to write, to close, to rename. *)
Opening  == "open"
Holding  == {"write", "close"}
Renaming == "rename"

WriterSteps == {Opening, Renaming} \cup Holding

(* What the temporary file can hold after one writes data to it. *)
Written(tmp, data) == IF tmp \in {Blank, data} THEN {data} ELSE {data, Mixed}

(* w's rename goes through: there is a file and nobody else holds it. *)
CanRename(step, w, tmp) ==
  /\ tmp # NoFile
  /\ \A v \in DOMAIN step \ {w} : step[v] \notin Holding

=============================================================================
