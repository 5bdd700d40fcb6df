---------------------------- MODULE MCOrderDelivery ----------------------------
(* Small instances of OrderDelivery for TLC.                               *)
EXTENDS OrderDelivery

CONSTANTS o1, o2, e1, e2, w1, w2

\* The provider gives both orders one id.
OneExternal == [o \in Orders |-> e1]
=============================================================================
