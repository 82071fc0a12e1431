------------------------------ MODULE MCOutbox ------------------------------
(* Small instances of Outbox for TLC: what callers ask for, and the table of
   delays, which a configuration file cannot write down. *)
EXTENDS Outbox

CONSTANTS k1, nokey

Request(key, kind, receipt) == [key |-> key, kind |-> kind, receipt |-> receipt]

(* A voucher with its PDF and text under a key, and a receipt without one. *)
MixedRequests ==
  { Request(k1, "file_with_text", FALSE), Request(nokey, "text", TRUE) }

(* One voucher clicked twice. *)
OneVoucher == { Request(k1, "text", FALSE) }

Receipts == { Request(nokey, "text", TRUE) }

ShortBackoff == <<1>>

(* Long enough for the second delay to have jitter: 5 or 6 ticks. *)
TwoStepBackoff == <<1, 5>>

=============================================================================
