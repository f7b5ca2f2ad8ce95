---------------------------- MODULE MCRealtimeHub ----------------------------
(* A small instance of RealtimeHub for TLC: tab1 and tab2 are two tabs of u1, tab3 *)
(* is one of u2.                                                                  *)
EXTENDS RealtimeHub

CONSTANTS u1, u2, tab1, tab2, tab3

TwoTabs == [c \in Conn |-> IF c = tab3 THEN u2 ELSE u1]
=============================================================================
