---------------------------- MODULE Identifiers ----------------------------
(***************************************************************************)
(* The identifiers every component shares.                                 *)
(*                                                                         *)
(* Plan and execution identifiers are random tokens (token_urlsafe(18)),   *)
(* drawn again while they are in use.  The model takes them as never       *)
(* issued twice and names each by its place in the order of issue; since   *)
(* assigning to an existing key of an OrderedDict keeps its place, that is *)
(* also the iteration order of both registries.                            *)
(***************************************************************************)
EXTENDS Integers

CONSTANTS
  MaxIssue,   \* bound: how many plans are ever stored
  MaxExec,    \* bound: how many executions are ever created
  None        \* Python's None

ASSUME IdentifierAssumption ==
  /\ MaxIssue \in Nat
  /\ MaxExec \in Nat
  /\ None \notin Int

PlanId == 1..MaxIssue
ExecId == 1..MaxExec
=============================================================================
