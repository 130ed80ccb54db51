----------------------------- MODULE MCFraming -----------------------------
(* Framing with small packets. *)
EXTENDS Framing
=============================================================================
