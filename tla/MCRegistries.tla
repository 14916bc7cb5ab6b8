---------------------------- MODULE MCRegistries ----------------------------
(***************************************************************************)
(* Small instances of PlanRegistry and ExecutionRegistry.                  *)
(*                                                                         *)
(* Plans: three callers compete for a registry of two slots, so that       *)
(* eviction, a registry full of reservations, and expiry around a          *)
(* reservation all happen.  Executions: any legal sequence of calls by     *)
(* anybody, with a history short enough to be trimmed.                     *)
(*                                                                         *)
(* The registries do not know each other, so one of them is used while the *)
(* other is as it was made.                                                *)
(***************************************************************************)
EXTENDS PlanRegistry, ExecutionRegistry

\* An execution record keeps the name of its plan; one name is enough.
OneName ==
  \A x \in ExecId : records'[x].state # "none" => records'[x].plan = 1

Init == PlanInit /\ ExecInit

Next ==
  \/ ExecInit /\ PlanNext /\ UNCHANGED execVars
  \/ PlanInit /\ ExecNext /\ OneName /\ UNCHANGED planVars

Spec == Init /\ [][Next]_<<planVars, execVars>>
=============================================================================
