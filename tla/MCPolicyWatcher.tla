--------------------------- MODULE MCPolicyWatcher ---------------------------
(* A small instance of PolicyWatcher for TLC: a policy that lets r1 in, one *)
(* that lets r1 in by its allow rules but denies it, and one with no rules. *)
EXTENDS PolicyWatcher, TLC

CONSTANTS open, barred, blank, r1, r2

MCPolicies == {open, barred, blank}
MCRequests == {r1, r2}
MCDenied  == open :> {r2} @@ barred :> {r1} @@ blank :> {}
MCAllowed == open :> {r1} @@ barred :> {r1, r2} @@ blank :> {}
===============================================================================
