----------------------------- MODULE MCSightings -----------------------------
(***************************************************************************)
(* Values for the constants that a cfg file cannot write down.             *)
(***************************************************************************)
EXTENDS SightingsProperties, TLC

CONSTANTS m1, v1, t1    \* model values the functions below mention

NoOui   == [m \in Mac |-> ""]                       \* no MAC has an OUI vendor
AllOui  == [m \in Mac |-> v1]                       \* every MAC is v1's
Untyped == [v \in Vendor |-> ""]
Typed   == [v \in Vendor |-> IF v = v1 THEN t1 ELSE ""]
=============================================================================
