-------------------------- MODULE MCSubscribeEvent --------------------------
(* SubscribeEvent for TLC: one subscription, two keys.                      *)
EXTENDS SubscribeEvent, TLC

CONSTANTS list, k1, k2

MCSubs == {list}
MCKeys == {k1, k2}
=============================================================================
