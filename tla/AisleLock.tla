------------------------------ MODULE AisleLock ------------------------------
(***************************************************************************)
(* What the occupancy protocol promises: a robot goes onto a shared point  *)
(* only with the permission for it, gives the permission back only as it   *)
(* leaves, and nobody else is permitted meanwhile.                         *)
(***************************************************************************)
CONSTANTS Robots, Points, NoPoint

VARIABLES
  granted,   \* the point each robot is permitted to use
  inside     \* the point each robot is on

lockVars == << granted, inside >>

LockInit ==
  /\ granted = [r \in Robots |-> NoPoint]
  /\ inside = [r \in Robots |-> NoPoint]

Acquire(r, p) ==
  /\ granted[r] = NoPoint
  /\ \A s \in Robots : granted[s] # p
  /\ granted' = [granted EXCEPT ![r] = p]
  /\ UNCHANGED inside

Enter(r) ==
  /\ granted[r] # NoPoint
  /\ inside' = [inside EXCEPT ![r] = granted[r]]
  /\ UNCHANGED granted

\* Leaving and giving the permission back are one step.
Leave(r) ==
  /\ granted[r] # NoPoint
  /\ granted' = [granted EXCEPT ![r] = NoPoint]
  /\ inside' = [inside EXCEPT ![r] = NoPoint]

LockNext ==
  \E r \in Robots : (\E p \in Points : Acquire(r, p)) \/ Enter(r) \/ Leave(r)

LockSpec == LockInit /\ [][LockNext]_lockVars
=============================================================================
