-------------------------- MODULE MCOutlookBridge --------------------------
(* TLC instances of OutlookBridge: two messages, the first from an allowed   *)
(* sender.                                                                   *)
EXTENDS OutlookBridge

CONSTANTS m1, m2

Pair   == {m1, m2}
OnlyM1 == {m1}
=============================================================================
