------------------------ MODULE MCWhatsAppLifecycle ------------------------
(* Small instances of WhatsAppLifecycle: callers are interchangeable. *)
EXTENDS WhatsAppLifecycle, TLC

Symmetry == Permutations(Callers)

=============================================================================
