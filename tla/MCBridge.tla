------------------------------ MODULE MCBridge ------------------------------
(* Small instances of the parts of Backend-Bridge that share no state: its
   sender, its message store and its start.  One of them moves and the others
   stay as they begin, so that TLC visits the sum of their states and not the
   product. *)
EXTENDS BridgeSender, BridgeStore, BridgeStartup

(* Two receipts, another voucher, a file and a text; the second receipt and
   the voucher may be posted twice. *)
OneOfEach ==
  [r \in Requests |->
     CASE r = "text" -> "send-message"
       [] r = "file" -> "send-file"
       [] OTHER      -> "send-file-with-message"]

SaidInEach ==
  [r \in Requests |->
     CASE r \in {"receipt1", "receipt2"} -> {"receipt", "ledger"}
       [] r = "ledger"                   -> {"ledger"}
       [] OTHER                          -> {}]

TwicePosted == [r \in Requests |-> IF r \in {"receipt2", "ledger"} THEN 2 ELSE 1]

GoodFile ==
  [dots |-> FALSE, there |-> TRUE, dir |-> FALSE, size |-> 1,
   readable |-> TRUE, ext |-> "pdf"]

(* One good file, and one wrong in each way the checks tell apart. *)
EachPath ==
  {GoodFile,
   [GoodFile EXCEPT !.dots = TRUE], [GoodFile EXCEPT !.there = FALSE],
   [GoodFile EXCEPT !.dir = TRUE], [GoodFile EXCEPT !.size = 2],
   [GoodFile EXCEPT !.readable = FALSE], [GoodFile EXCEPT !.ext = "exe"]}

(* Two messages of a contact, one of them by this account and the other without
   a date, and one of a group. *)
InChat == [m \in Texts |-> IF m = "inGroup" THEN "group" ELSE "contact"]

Dated == [m \in Texts |-> CASE m = "undated" -> 0 [] OTHER -> 1]

Init == SenderInit /\ StoreInit /\ StartupInit

Next ==
  \/ /\ StoreInit /\ StartupInit
     /\ SenderNext
     /\ UNCHANGED <<storeVars, startupVars>>
  \/ /\ SenderInit /\ StartupInit
     /\ StoreNext
     /\ UNCHANGED <<senderVars, startupVars>>
  \/ /\ SenderInit /\ StoreInit
     /\ StartupNext
     /\ UNCHANGED <<senderVars, storeVars>>

Spec == Init /\ [][Next]_<<senderVars, storeVars, startupVars>>

TypeOK == SenderTypeOK /\ StoreTypeOK /\ StartupTypeOK

=============================================================================
