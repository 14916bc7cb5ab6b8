------------------------------ MODULE MCWaits ------------------------------
(***************************************************************************)
(* An instance of everything that waits on a clock (Waits).                *)
(*                                                                         *)
(* Plans are shorter and longer than the maximum allows for.  One of two   *)
(* joints creeps or jumps, the other is at rest; velocities are reported   *)
(* or not.  Two calls of one service and a reader of the joint states      *)
(* share two workers.                                                      *)
(***************************************************************************)
EXTENDS Waits, TLC

CONSTANTS c1, c2, c3, fk

UpToSix == 0..6

Arm == {"shoulder", "elbow"}
Speed(v) == [j \in Arm |-> IF j = "elbow" THEN v ELSE 0]
ArmReadings ==
  [position : {p \in [Arm -> 0..3] : p["elbow"] = 0},
   velocity : {None, Speed(0), Speed(2)}]
AroundZero == {-3, 1}

MCServiceOf == c1 :> fk @@ c2 :> fk
=============================================================================
