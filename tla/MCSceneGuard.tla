---------------------------- MODULE MCSceneGuard ----------------------------
(***************************************************************************)
(* Instances of SceneGuard: tables and a bin, one of them in two sizes.    *)
(* The policy wants names under "cell", two objects, no size above 2.      *)
(*                                                                         *)
(* Either one client is alone, with every object and no faults; or two     *)
(* crowd, with few objects, beside another node that brings a mesh and     *)
(* writes that are overdue.                                                *)
(***************************************************************************)
EXTENDS SceneGuard, TLC

Thing(n, primitive, size) ==
  [id |-> <<"cell", n>>, primitive |-> primitive, size |-> size,
   frame |-> <<"world">>]

Table == Thing("table", "box", 1)
WideTable == Thing("table", "box", 2)
Bin == Thing("bin", "cylinder", 1)
Post == Thing("post", "cylinder", 2)
Tower == Thing("tower", "box", 3)
Stray == [Thing("bin", "box", 1) EXCEPT !.id = <<"bin">>]
Mesh == Thing("mesh", "mesh", 1)

TwoObjects == {Table, Bin}
AllObjects == {Table, WideTable, Bin, Post, Tower, Stray, Mesh}
MeshArrives == {{Mesh}}
NoScenes == {}
OnlyFalse == {FALSE}
Either == BOOLEAN

CellPolicy ==
  [id |-> <<"cell">>, groups |-> {}, workspace |-> None,
   max |-> [l \in Limit |-> IF l \in {"velocity", "acceleration"}
                            THEN One ELSE 2],
   minStep |-> 1, minFraction |-> One, mustAvoid |-> TRUE,
   prefixes |-> {<<"cell">>}, primitives |-> {"box", "cylinder"},
   frames |-> {}, mayReplace |-> TRUE, needsRevision |-> TRUE]

Symmetry == Permutations(Client)

-----------------------------------------------------------------------------
VARIABLE alone

Undisturbed ==
  /\ \E c \in Client : \A d \in Client \ {c} : pc'[d] = "idle"
  /\ late' = {}
  /\ Mesh \notin scene'

\* What two clients that crowd ask for.
Modest(w) ==
  IF Removes(w) THEN TRUE ELSE w.object \in TwoObjects /\ ~w.replace

AloneOrCrowd ==
  IF alone THEN Undisturbed
  ELSE \A c \in Client : call'[c] # None => Modest(call'[c])

MCInit == Init /\ alone \in BOOLEAN

MCNext == Next /\ AloneOrCrowd /\ UNCHANGED alone

MCSpec == MCInit /\ [][MCNext]_<<vars, alone>>

\* One client, making one call after another, cannot get anything past the
\* policy (apply_collision_object, SafetyEvaluator.evaluate_collision_object).
PolicyHoldsAlone == alone => PolicyHolds

\* Nor can it replace an object without having said so (replace_existing).
NoSilentReplacementAlone ==
  [][alone => ReplacesOnRequest]_<<vars, alone>>

\* One client, alone, gets neither past the policy nor past its own words.
PolicyKept == []PolicyHoldsAlone /\ NoSilentReplacementAlone
=============================================================================
