--------------------------- MODULE MCCreditLedger ---------------------------
EXTENDS CreditLedger, TLC

CONSTANTS web, news, r1, r2

(* web and news ask Search, whose cache rows they share: one query of each  *)
(* is the other's too.                                                      *)
MCPlan == (web :> {"shared", "web_only"}) @@ (news :> {"shared"})
MCCost == [q \in {"shared", "web_only"} |-> 1]

Symmetry == Permutations(Runs)
=============================================================================
