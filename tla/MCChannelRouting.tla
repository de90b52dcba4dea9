--------------------------- MODULE MCChannelRouting ---------------------------
(* Instances of ChannelRouting for TLC. *)
EXTENDS ChannelRouting
=============================================================================
