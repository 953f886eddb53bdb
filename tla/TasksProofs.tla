---------------------------- MODULE TasksProofs ----------------------------
(***************************************************************************)
(* Theorems about Tasks: for any number of tasks and any length of the     *)
(* demo, stacks are owned, the one in use is kept, and few wait to be      *)
(* freed.                                                                  *)
(***************************************************************************)
EXTENDS Tasks, TLAPS

USE MaxTasksAssumption, DemoAssumption

(***************************************************************************)
(* The steps of the scheduler.                                             *)
(***************************************************************************)

\* A slot that fires is alive, and growth leaves every potential a number.
LEMMA StepIsSound ==
    ASSUME alive \subseteq Ids, potential \in [Ids -> Nat],
           NEW p \in Grown, NEW w \in Winners(p), Step(p, w)
    PROVE  /\ w \in alive \cup {NoSlot}
           /\ potential' \in [Ids -> Nat]
           /\ UNCHANGED <<nslots, alive>>
<1>1. w \in alive \cup {NoSlot}
  BY DEF Winners, Highest, Ready
<1>2. Gains \subseteq Nat
  <2> SUFFICES ASSUME NEW g \in Gains PROVE g \in Nat
    OBVIOUS
  <2>1. CASE g \in {1, 2}
    BY <2>1
  <2>2. CASE \E u \in alive : g \in 1 .. 2 + (potential[u] + 1) \div 10
    <3>1. PICK u \in alive : g \in 1 .. 2 + (potential[u] + 1) \div 10
      BY <2>2
    <3>2. (potential[u] + 1) \div 10 \in Int
      <4>1. potential[u] \in Nat
        OBVIOUS
      <4> QED
        BY <4>1
    <3> QED
      BY <3>1, <3>2
  <2> QED
    BY <2>1, <2>2 DEF Gains
<1>3. p \in [Ids -> Nat]
  <2>1. PICK gain \in [alive -> Gains] :
            p = [t \in Ids |-> IF t \in alive THEN potential[t] + gain[t] ELSE potential[t]]
    BY DEF Grown
  <2>2. \A t \in alive : gain[t] \in Nat
    BY <1>2
  <2> QED
    BY <2>1, <2>2
<1> QED
  BY <1>1, <1>3 DEF Step

(***************************************************************************)
(* The inductive invariant: besides the properties, that nothing lies      *)
(* beyond the last slot (so AddSlot appends a fresh one), that there is    *)
(* nothing before the demo, and that the demo stops at its budget.         *)
(***************************************************************************)
SlotsInRange == stacks \subseteq 0 .. nslots - 1
BootIsEmpty == phase = "boot" => zombies = {} /\ current = Kernel
DemoInBudget == phase = "demo" => ticks < MaxTicks

TasksInv ==
    /\ TypeOK
    /\ StacksAreOwned
    /\ RunningStackKept
    /\ FewZombies
    /\ SlotsInRange
    /\ BootIsEmpty
    /\ DemoInBudget

LEMMA InitInv == Init => TasksInv
BY DEF Init, TasksInv, TypeOK, StacksAreOwned, RunningStackKept, FewZombies, SlotsInRange, BootIsEmpty,
       DemoInBudget, Contexts, Ids, Kernel, Nobody

LEMMA StartDemoInv == ASSUME TasksInv, StartDemo PROVE TasksInv'
<1> USE DEF TasksInv, StartDemo, New
<1>1. TypeOK'
  BY DEF TypeOK, Ids, Contexts
<1>2. /\ StacksAreOwned' /\ RunningStackKept' /\ SlotsInRange' /\ BootIsEmpty' /\ DemoInBudget'
  BY DEF StacksAreOwned, RunningStackKept, SlotsInRange, BootIsEmpty, DemoInBudget
<1>3. FewZombies'
  BY DEF FewZombies, BootIsEmpty, Contexts
<1> QED
  BY <1>1, <1>2, <1>3

LEMMA EnableBackgroundInv == ASSUME TasksInv, EnableBackground PROVE TasksInv'
BY DEF TasksInv, EnableBackground, bank, TypeOK, StacksAreOwned, RunningStackKept, FewZombies, SlotsInRange,
       BootIsEmpty, DemoInBudget

\* Reaping keeps the stack in use, whatever context the tick then switches to.
LEMMA ReapInv ==
    ASSUME TasksInv, ReapZombies, UNCHANGED <<nslots, alive>>, current' \in alive \cup {Kernel, current}
    PROVE  /\ stacks' \subseteq Ids /\ zombies' \subseteq Ids
           /\ StacksAreOwned' /\ RunningStackKept' /\ FewZombies' /\ SlotsInRange'
<1> USE DEF TasksInv, ReapZombies
<1>1. stacks' \subseteq Ids /\ zombies' \subseteq Ids
  BY DEF TypeOK
<1>2. StacksAreOwned'
  BY DEF StacksAreOwned
<1>3. RunningStackKept'
  BY DEF StacksAreOwned, RunningStackKept
<1>4. zombies' \subseteq {current} /\ current \in Contexts
  BY DEF TypeOK
<1>5. FewZombies'
  BY <1>4 DEF FewZombies, Contexts, Ids
<1>6. SlotsInRange'
  BY DEF SlotsInRange
<1> QED
  BY <1>1, <1>2, <1>3, <1>5, <1>6

LEMMA TickInv == ASSUME TasksInv, Tick PROVE TasksInv'
<1> USE DEF TasksInv
<1>1. CASE IdleTick
  BY <1>1, ReapInv DEF IdleTick, bank, TypeOK, BootIsEmpty, DemoInBudget, ReapZombies
<1>2. CASE EndDemo
  BY <1>2, ReapInv DEF EndDemo, DemoIsOver, bank, TypeOK, BootIsEmpty, DemoInBudget, Contexts
<1>3. CASE SchedulingTick
  <2>0. PICK p \in Grown : \E w \in Winners(p) : Step(p, w) /\ current' = IF w = NoSlot THEN current ELSE w
    BY <1>3 DEF SchedulingTick
  <2>1. PICK w \in Winners(p) : Step(p, w) /\ current' = IF w = NoSlot THEN current ELSE w
    BY <2>0
  <2>2. w \in alive \cup {NoSlot} /\ potential' \in [Ids -> Nat] /\ UNCHANGED <<nslots, alive>>
    BY <2>1, StepIsSound DEF TypeOK
  <2>3. current' \in alive \cup {current}
    BY <2>1, <2>2
  <2>4. ReapZombies
    BY <1>3 DEF SchedulingTick
  <2>5. /\ stacks' \subseteq Ids /\ zombies' \subseteq Ids
        /\ StacksAreOwned' /\ RunningStackKept' /\ FewZombies' /\ SlotsInRange'
    BY <2>2, <2>3, <2>4, ReapInv
  <2>6. ticks' \in 0 .. MaxTicks /\ DemoInBudget' /\ BootIsEmpty'
    BY <1>3 DEF SchedulingTick, Scheduling, DemoIsOver, TypeOK, DemoInBudget, BootIsEmpty
  <2>7. TypeOK'
    BY <1>3, <2>2, <2>3, <2>5, <2>6 DEF SchedulingTick, TypeOK, Contexts
  <2> QED
    BY <2>5, <2>6, <2>7
<1> QED
  BY <1>1, <1>2, <1>3 DEF Tick

LEMMA RangeGrows ==
    ASSUME NEW m \in Nat, NEW n \in Nat, m <= n, NEW t \in Nat, t < n
    PROVE  0 .. m - 1 \subseteq 0 .. n - 1 /\ t \in 0 .. n - 1
OBVIOUS

LEMMA SpawnInv == ASSUME TasksInv, Spawn PROVE TasksInv'
<1> USE DEF TasksInv
<1>1. PICK t \in Ids : /\ t \notin stacks
                       /\ alive' = alive \cup {t}
                       /\ stacks' = stacks \cup {t}
                       /\ potential' = [potential EXCEPT ![t] = 0]
                       /\ nslots' \in 0 .. MaxTasks
                       /\ nslots <= nslots'
                       /\ t < nslots'
  <2> DEFINE Taken(t) == /\ t \notin stacks
                         /\ alive' = alive \cup {t}
                         /\ stacks' = stacks \cup {t}
                         /\ potential' = [potential EXCEPT ![t] = 0]
                         /\ nslots' \in 0 .. MaxTasks
                         /\ nslots <= nslots'
                         /\ t < nslots'
  <2>1. CASE \E t \in FreeIds : Revive(t) /\ stacks' = stacks \cup {t}
    <3>1. PICK t \in FreeIds : Revive(t) /\ stacks' = stacks \cup {t}
      BY <2>1
    <3>2. t \in Ids /\ t < nslots /\ t \notin stacks
      BY DEF FreeIds, TypeOK, Ids
    <3>3. Taken(t)
      BY <3>1, <3>2 DEF Revive, TypeOK
    <3> QED
      BY <3>2, <3>3
  <2>2. CASE nslots < MaxTasks /\ AddSlot /\ stacks' = stacks \cup {nslots}
    <3>1. nslots \in Ids /\ nslots \notin stacks
      BY <2>2 DEF SlotsInRange, TypeOK, Ids
    <3>2. Taken(nslots)
      BY <2>2, <3>1 DEF AddSlot, TypeOK
    <3> QED
      BY <3>1, <3>2
  <2> QED
    BY <2>1, <2>2 DEF Spawn
<1>2. UNCHANGED <<zombies, current, phase, ticks, host>>
  BY DEF Spawn
<1>3. TypeOK'
  BY <1>1, <1>2 DEF TypeOK
<1>4. StacksAreOwned' /\ RunningStackKept' /\ FewZombies'
  BY <1>1, <1>2 DEF StacksAreOwned, RunningStackKept, FewZombies
<1>5. SlotsInRange'
  <2>1. nslots \in Nat /\ nslots' \in Nat
    BY <1>1 DEF TypeOK
  <2>2. t \in Nat /\ t < nslots' /\ nslots <= nslots'
    BY <1>1 DEF Ids
  <2> HIDE DEF TasksInv
  <2> QED
    BY <1>1, <2>1, <2>2, RangeGrows DEF SlotsInRange, TasksInv
<1>6. BootIsEmpty' /\ DemoInBudget'
  BY <1>2 DEF BootIsEmpty, DemoInBudget
<1> QED
  BY <1>3, <1>4, <1>5, <1>6

LEMMA KillInv == ASSUME TasksInv, NEW t \in Ids, Kill(t) PROVE TasksInv'
<1> USE DEF TasksInv, Kill, KillSlot
<1>1. TypeOK'
  BY DEF TypeOK
<1>2. StacksAreOwned'
  BY DEF StacksAreOwned
<1>3. RunningStackKept'
  BY DEF RunningStackKept
<1>4. FewZombies'
  BY DEF FewZombies
<1>5. SlotsInRange' /\ BootIsEmpty' /\ DemoInBudget'
  BY DEF SlotsInRange, BootIsEmpty, DemoInBudget, Prompt
<1> QED
  BY <1>1, <1>2, <1>3, <1>4, <1>5

LEMMA NextInv == TasksInv /\ [Next]_vars => TasksInv'
<1> SUFFICES ASSUME TasksInv, [Next]_vars PROVE TasksInv'
  OBVIOUS
<1>1. CASE RunProgram \/ ProgramEnds
  BY <1>1 DEF RunProgram, ProgramEnds, bank, TasksInv, TypeOK, StacksAreOwned, RunningStackKept, FewZombies,
              SlotsInRange, BootIsEmpty, DemoInBudget
<1>2. CASE UNCHANGED vars
  BY <1>2 DEF vars, bank, TasksInv, TypeOK, StacksAreOwned, RunningStackKept, FewZombies,
              SlotsInRange, BootIsEmpty, DemoInBudget
<1> QED
  BY <1>1, <1>2, StartDemoInv, EnableBackgroundInv, TickInv, SpawnInv, KillInv DEF Next

LEMMA Inductive == Spec => []TasksInv
BY InitInv, NextInv, PTL DEF Spec

\* Types are kept by every operation of tasks.rs and scheduler.rs.
THEOREM TasksTypeCorrect == Spec => []TypeOK
<1>1. TasksInv => TypeOK
  BY DEF TasksInv
<1> QED
  BY <1>1, Inductive, PTL

\* With any number of tasks, spawn, kill, reap and switch never lose a stack,
\* nor free one that is in use, and leave at most two killed tasks unreaped.
THEOREM StacksAreSafe == Spec => [](StacksAreOwned /\ RunningStackKept /\ FewZombies)
<1>1. TasksInv => StacksAreOwned /\ RunningStackKept /\ FewZombies
  BY DEF TasksInv
<1> QED
  BY <1>1, Inductive, PTL

\* The stack the processor runs on is never given back, a killed task's no more than another's.
THEOREM RunningStackIsKept == Spec => []RunningStackKept
BY StacksAreSafe, PTL

\* Reaping at every tick keeps up with killing: at most two stacks wait for it.
THEOREM ZombiesAreFew == Spec => []FewZombies
BY StacksAreSafe, PTL
============================================================================
