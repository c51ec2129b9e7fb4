--------------------------- MODULE MCChannelSync ----------------------------
(* Instances of ChannelSync for TLC; subscribers are interchangeable.      *)
EXTENDS ChannelSync, TLC

Subscribers == Permutations(Sub)
=============================================================================
