----------------------------- MODULE Scheduler -----------------------------
(***************************************************************************)
(* The slot bank of scheduler.rs, which selects the task that runs next.   *)
(* Every tick each alive slot's potential grows by its bias and by a part  *)
(* of its neighbours'; the highest one that reached the threshold wins and *)
(* starts again from 0.                                                    *)
(*                                                                         *)
(* The code counts in f32 with threshold 1.0.  Here a potential is a whole *)
(* number of sevenths, rounded down.  The bias 0.15 is 1.05 of them and    *)
(* the bonds of a slot, scaled by 0.05, add up to at most 0.1, so a slot   *)
(* gains at least 1 and at most what Gains allows, with more to spare on   *)
(* both sides than f32 rounds away.  The slot the code selects is one of   *)
(* the highest after rounding down, so every run of the code is a run of   *)
(* this bank.                                                              *)
(***************************************************************************)
EXTENDS Integers, FiniteSets

CONSTANT MaxTasks   \* MAX_TASKS, the slots there can ever be
ASSUME MaxTasksAssumption == MaxTasks \in Nat \ {0}

VARIABLES nslots,    \* slots.len(), which is TASKS.len() as well
          alive,     \* the slots with their alive flag set
          potential  \* of every slot; 0 when it is dead or not there yet
bank == <<nslots, alive, potential>>

Ids == 0 .. MaxTasks - 1
Threshold == 7   \* THRESHOLD

\* Mutant: only neighbours raise a potential.
GainsNoBias == {0} \cup UNION {0 .. 1 + (potential[u] + 1) \div 10 : u \in alive}

\* What a slot may gain in a tick: the bias, and a tenth of the loudest potential.
Gains == {1, 2} \cup UNION {1 .. 2 + (potential[u] + 1) \div 10 : u \in alive}

\* Potentials after a tick's growth, before one fires.
Grown == {[t \in Ids |-> IF t \in alive THEN potential[t] + gain[t] ELSE potential[t]] : gain \in [alive -> Gains]}

Ready(p) == {t \in alive : p[t] >= Threshold}
Highest(p) == {t \in Ready(p) : \A u \in Ready(p) : p[u] <= p[t]}

\* Who fires: one of the highest that are ready, or none.
NoSlot == -1
Winners(p) == IF Ready(p) = {} THEN {NoSlot} ELSE Highest(p)

----------------------------------------------------------------------------
New(n) ==
    /\ nslots' = n
    /\ alive' = 0 .. n - 1
    /\ potential' = [t \in Ids |-> 0]

KillSlot(t) ==
    /\ alive' = alive \ {t}
    /\ potential' = [potential EXCEPT ![t] = 0]
    /\ UNCHANGED nslots

AddSlot ==
    /\ nslots' = nslots + 1
    /\ alive' = alive \cup {nslots}
    /\ potential' = [potential EXCEPT ![nslots] = 0]

Revive(t) ==
    /\ alive' = alive \cup {t}
    /\ potential' = [potential EXCEPT ![t] = 0]
    /\ UNCHANGED nslots

\* step() with result w, for w \in Winners(p) and p \in Grown.
Step(p, w) ==
    /\ potential' = [t \in Ids |-> IF t = w THEN 0 ELSE p[t]]
    /\ UNCHANGED <<nslots, alive>>
============================================================================
