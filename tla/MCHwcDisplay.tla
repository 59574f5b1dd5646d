---------------------------- MODULE MCHwcDisplay ----------------------------
(* One display with two layer handles, two z-orders, two configs whose    *)
(* modes differ, and a boot mode that is none of them.                      *)
EXTENDS HwcDisplay

CONSTANTS m1, m2, m0

MCConfigMode == [i \in {1, 2} |-> IF i = 1 THEN m1 ELSE m2]

=============================================================================
