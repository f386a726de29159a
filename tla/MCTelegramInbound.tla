------------------------- MODULE MCTelegramInbound -------------------------
(* Instances of TelegramInbound for TLC. *)
EXTENDS TelegramInbound

CONSTANTS l1, l2

TwoLoops  == {l1, l2}
NoUpdates == {}
First     == {1}
Second    == {2}
Third     == {3}
=============================================================================
