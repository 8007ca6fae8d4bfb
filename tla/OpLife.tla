-------------------------------- MODULE OpLife ---------------------------------
(***************************************************************************)
(* What the scheduler promises about operations without an interval that   *)
(* have a completion callback: each is refused or listed once, then either *)
(* given to the modem (or failed) and completed, or completed at once      *)
(* because its frame has passed, or cancelled. Nothing comes back.         *)
(***************************************************************************)
EXTENDS Naturals

CONSTANT Shots   \* the operations

VARIABLE life

Stages == {"new", "refused", "listed", "busy", "over", "cancelled"}

LifeInit == life = [op \in Shots |-> "new"]

Becomes(op, from, to) ==
  /\ life[op] \in from
  /\ life' = [life EXCEPT ![op] = to]

Submit(op) == Becomes(op, {"new"}, "listed") \/ Becomes(op, {"new"}, "refused")
Start(op) == Becomes(op, {"listed"}, "busy")
Miss(op) == Becomes(op, {"listed"}, "over")
Finish(op) == Becomes(op, {"busy"}, "over")

\* A removal takes one operation, a purge all that are listed or busy.
Cancel(S) ==
  /\ \A op \in S : life[op] \in {"listed", "busy"}
  /\ life' = [op \in Shots |-> IF op \in S THEN "cancelled" ELSE life[op]]

LifeNext ==
  \/ \E op \in Shots : Submit(op) \/ Start(op) \/ Miss(op) \/ Finish(op)
  \/ \E S \in SUBSET Shots : Cancel(S)

LifeSpec == LifeInit /\ [][LifeNext]_life
================================================================================
