--------------------------- MODULE MCVzController ------------------------------
(***************************************************************************)
(* Small instances of VzController for TLC: a component a that is always   *)
(* enabled, as the first one of the registry is, and a component b that    *)
(* depends on it.                                                          *)
(***************************************************************************)
EXTENDS VzController, TLC

CONSTANTS a, b

Both      == {a, b}
BNeedsA   == (a :> {}) @@ (b :> {a})
AnyTime   == (a :> 1) @@ (b :> 1)
BAtThree  == (a :> 1) @@ (b :> 3)

(* The registry of each operator version.                                   *)
AnyVersion  == [v \in 1..MaxVersion |-> <<a, b>>]
BSinceTwo   == [v \in 1..MaxVersion |-> IF v < 2 THEN <<a>> ELSE <<a, b>>]
BSinceThree == [v \in 1..MaxVersion |-> IF v < 3 THEN <<a>> ELSE <<a, b>>]

BOptional == {{a}, {a, b}}

(* A single component.                                                      *)
OnlyA     == [v \in 1..MaxVersion |-> <<a>>]
OneNeeds  == (a :> {})
OneTime   == (a :> 1)
OneFixed  == {{a}}
===============================================================================
