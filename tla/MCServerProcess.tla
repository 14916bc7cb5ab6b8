--------------------------- MODULE MCServerProcess ---------------------------
(***************************************************************************)
(* An instance of Shutdown, and of ServerStart with it: two good           *)
(* configurations, one of which enables execution, and every one that      *)
(* differs from a good one in one place; then three executions, one after  *)
(* the other.                                                              *)
(***************************************************************************)
EXTENDS Shutdown

CONSTANTS strict, lax

Good ==
  [supported |-> TRUE, timeout |-> 5, enabled |-> FALSE, margin |-> 0,
   limit |-> [l \in Limits |-> 1], policy |-> strict]

Bad == {-1, 0, NotFinite}

MCContent ==
  {Good, None,
   [Good EXCEPT !.policy = lax, !.enabled = TRUE],
   [Good EXCEPT !.policy = Invalid],
   [Good EXCEPT !.supported = FALSE],
   [Good EXCEPT !.margin = -1],
   [Good EXCEPT !.margin = NotFinite]}
  \cup {[Good EXCEPT !.timeout = x] : x \in Bad}
  \cup {[Good EXCEPT !.limit[l] = x] : l \in Limits, x \in Bad}
=============================================================================
