--------------------------- MODULE MCChannelLife ---------------------------
(* ChannelLife on small sets of keys and threads. *)
EXTENDS ChannelLifeProperties
=============================================================================
