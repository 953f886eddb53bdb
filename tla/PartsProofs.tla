----------------------------- MODULE PartsProofs -----------------------------
(***************************************************************************)
(* Proofs about the parts that keep to themselves: the boot sequence, the  *)
(* spiking network with its speaker, the mouse, the clock, the shell's     *)
(* working directory and its line on the console, and the file of weights. *)
(* Each part has its section, with the invariant of its specification and  *)
(* the theorems that follow from it.                                       *)
(***************************************************************************)
EXTENDS Boot, SpikingNetwork, MousePackets, RealTimeClock, WorkingDir, ShellConsole,
        WeightsFile, FiniteSetTheorems, WellFoundedInduction, SequenceTheorems, TLAPS

-----------------------------------------------------------------------------
(* Numbers and recursion.                                                  *)

\* Induction on a number, for a property given as a set: of the numbers outside it the one with
\* the smallest interval below it would have its predecessor in the set.
LEMMA SetInduction ==
    ASSUME NEW S, 0 \in S, \A n \in Nat : n \in S => n + 1 \in S
    PROVE  Nat \subseteq S
<1> DEFINE Bad == Nat \ S
           UpTo(x) == 0..x - 1
           T == {UpTo(x) : x \in Bad}
<1>1. SUFFICES ASSUME Bad # {} PROVE FALSE
  OBVIOUS
<1>2. T \subseteq FiniteSubsetsOf(Nat) /\ T # {}
  <2>1. ASSUME NEW x \in Bad PROVE UpTo(x) \subseteq Nat /\ IsFiniteSet(UpTo(x))
    BY FS_Interval
  <2>2. QED
    BY <1>1, <2>1 DEF FiniteSubsetsOf
<1>3. PICK t \in T : \A u \in T : <<u, t>> \notin StrictSubsetOrdering(Nat)
  <2>1. IsWellFoundedOn(StrictSubsetOrdering(Nat), FiniteSubsetsOf(Nat))
    BY FS_StrictSubsetOrderingWellFounded
  <2>2. QED
    BY <1>2, <2>1, WFMin
<1>4. PICK x \in Bad : t = UpTo(x)
  OBVIOUS
<1>5. x # 0 /\ x - 1 \in Nat
  BY <1>4
<1>6. x - 1 \in Bad
  <2>1. SUFFICES ASSUME x - 1 \in S PROVE FALSE
    BY <1>5
  <2>2. (x - 1) + 1 \in S
    BY <1>5, <2>1
  <2>3. QED
    BY <1>4, <2>2
<1>7. UpTo(x - 1) \subseteq UpTo(x) /\ x - 1 \in UpTo(x) /\ x - 1 \notin UpTo(x - 1)
  BY <1>5
<1>8. <<UpTo(x - 1), UpTo(x)>> \in StrictSubsetOrdering(Nat)
  <2>1. UpTo(x - 1) \subseteq Nat /\ UpTo(x) \subseteq Nat
    OBVIOUS
  <2>2. QED
    BY <1>7, <2>1 DEF StrictSubsetOrdering
<1>9. QED
  BY <1>3, <1>4, <1>6, <1>8

\* f follows the rule G from a for n steps.
Follows(f, a, G, n, R) ==
    f \in [0..n -> R] /\ f[0] = a /\ \A i \in 1..n : f[i] = G[<<i, f[i - 1]>>]

LEMMA StepwiseFunction ==
    ASSUME NEW R, NEW a \in R, NEW G \in [Nat \X R -> R], NEW n \in Nat
    PROVE  \E f : Follows(f, a, G, n, R)
<1> DEFINE S == {m \in Nat : \E f : Follows(f, a, G, m, R)}
<1>1. 0 \in S
  <2>1. Follows([i \in 0..0 |-> a], a, G, 0, R)
    BY DEF Follows
  <2>2. QED
    BY <2>1
<1>2. ASSUME NEW m \in Nat, m \in S PROVE m + 1 \in S
  <2>1. PICK f : Follows(f, a, G, m, R)
    BY <1>2
  <2> DEFINE g == [i \in 0..m + 1 |-> IF i = m + 1 THEN G[<<m + 1, f[m]>>] ELSE f[i]]
  <2>2. G[<<m + 1, f[m]>>] \in R
    BY <2>1 DEF Follows
  <2>3. g \in [0..m + 1 -> R]
    BY <2>1, <2>2 DEF Follows
  <2>4. g[m + 1] = G[<<m + 1, f[m]>>] /\ \A j \in 0..m : g[j] = f[j]
    OBVIOUS
  <2> HIDE DEF g
  <2>5. ASSUME NEW i \in 1..m + 1 PROVE g[i] = G[<<i, g[i - 1]>>]
    <3>1. CASE i = m + 1
      <4>1. i - 1 = m /\ g[m] = f[m]
        BY <2>4, <3>1
      <4>2. QED
        BY <2>4, <3>1, <4>1
    <3>2. CASE i # m + 1
      <4>1. i \in 1..m /\ i \in 0..m /\ i - 1 \in 0..m
        BY <3>2
      <4>2. g[i] = f[i] /\ g[i - 1] = f[i - 1]
        BY <2>4, <4>1
      <4>3. QED
        BY <2>1, <4>1, <4>2 DEF Follows
    <3>3. QED
      BY <3>1, <3>2
  <2>6. g[0] = a
    BY <2>1, <2>4 DEF Follows
  <2>7. QED
    BY <2>3, <2>5, <2>6 DEF Follows
<1>3. Nat \subseteq S
  BY <1>1, <1>2, SetInduction
<1>4. QED
  BY <1>3

-----------------------------------------------------------------------------
(* Boot.                                                                   *)

\* The list of steps, number by number.
LEMMA BootSteps ==
    /\ Len(Order) = 23
    /\ Order[1] = Framebuffer
    /\ Order[2] = HeapUp
    /\ Order[3] = ProcessesUp
    /\ Order[4] = AllocatorPublished
    /\ Order[5] = SelfTests
    /\ Order[6] = NetworkUp
    /\ Order[7] = SchedulerTrials
    /\ Order[8] = TablesUp
    /\ Order[9] = SignalTest
    /\ Order[10] = DevicesUp
    /\ Order[11] = PicsUp
    /\ Order[12] = PromptUp
    /\ Order[13] = EnableInterrupts
    /\ Order[14] = Wait("wait_80")
    /\ Order[15] = PushTasks
    /\ Order[16] = NewScheduler
    /\ Order[17] = Publish
    /\ Order[18] = FirstRsp
    /\ Order[19] = FirstSwitch
    /\ Order[20] = Wait("wait_150")
    /\ Order[21] = ReadTyped
    /\ Order[22] = Background
    /\ Order[23] = Parked
BY DEF Order

\* What the proofs need to know of them.
StepFacts(i, step) ==
    /\ step.name = "heap" <=> i = 2
    /\ step.name = "signal_test" <=> i = 9
    /\ step.name = "publish" <=> i = 17
    /\ step.name = "first_rsp" <=> i = 18
    /\ step.name = "switch" <=> i = 19
    /\ step.needs \subseteq {"heap", "memory_map", "tables"}
    /\ "tables" \in step.needs => i > 8
    /\ "heap" \in step.needs => i > 2
    /\ "memory_map" \in step.needs => i > 1
    /\ i = 2 => step.needs = {"memory_map"}
    /\ i \in {2, 8, 11, 12} => ~step.mayFail
    /\ i = 2 => "heap" \in step.gives
    /\ i = 8 => "tables" \in step.gives
    /\ i = 12 => "prompt" \in step.gives
    /\ "pics" \in step.gives <=> i = 11
    /\ "interrupts" \in step.gives => i = 13

LEMMA BootStepFacts == \A i \in 1..23 : StepFacts(i, Order[i])
<1>1. StepFacts(1, Framebuffer)
  BY DEF StepFacts, Step, Framebuffer
<1>2. StepFacts(2, HeapUp)
  BY DEF StepFacts, Step, HeapUp
<1>3. StepFacts(3, ProcessesUp)
  BY DEF StepFacts, Step, ProcessesUp
<1>4. StepFacts(4, AllocatorPublished)
  BY DEF StepFacts, Step, AllocatorPublished
<1>5. StepFacts(5, SelfTests)
  BY DEF StepFacts, Step, SelfTests
<1>6. StepFacts(6, NetworkUp)
  BY DEF StepFacts, Step, NetworkUp
<1>7. StepFacts(7, SchedulerTrials)
  BY DEF StepFacts, Step, SchedulerTrials
<1>8. StepFacts(8, TablesUp)
  BY DEF StepFacts, Step, TablesUp
<1>9. StepFacts(9, SignalTest)
  BY DEF StepFacts, Step, SignalTest
<1>10. StepFacts(10, DevicesUp)
  BY DEF StepFacts, Step, DevicesUp
<1>11. StepFacts(11, PicsUp)
  BY DEF StepFacts, Step, PicsUp
<1>12. StepFacts(12, PromptUp)
  BY DEF StepFacts, Step, PromptUp
<1>13. StepFacts(13, EnableInterrupts)
  BY DEF StepFacts, Step, EnableInterrupts
<1>14. StepFacts(14, Wait("wait_80"))
  BY DEF StepFacts, Step, Wait
<1>15. StepFacts(15, PushTasks)
  BY DEF StepFacts, Step, PushTasks
<1>16. StepFacts(16, NewScheduler)
  BY DEF StepFacts, Step, NewScheduler
<1>17. StepFacts(17, Publish)
  BY DEF StepFacts, Step, Publish
<1>18. StepFacts(18, FirstRsp)
  BY DEF StepFacts, Step, FirstRsp
<1>19. StepFacts(19, FirstSwitch)
  BY DEF StepFacts, Step, FirstSwitch
<1>20. StepFacts(20, Wait("wait_150"))
  BY DEF StepFacts, Step, Wait
<1>21. StepFacts(21, ReadTyped)
  BY DEF StepFacts, Step, ReadTyped
<1>22. StepFacts(22, Background)
  BY DEF StepFacts, Step, Background
<1>23. StepFacts(23, Parked)
  BY DEF StepFacts, Step, Parked
<1>24. \A i \in 1..23 :
         \/ i = 1 \/ i = 2 \/ i = 3 \/ i = 4 \/ i = 5 \/ i = 6 \/ i = 7 \/ i = 8
         \/ i = 9 \/ i = 10 \/ i = 11 \/ i = 12 \/ i = 13 \/ i = 14 \/ i = 15 \/ i = 16
         \/ i = 17 \/ i = 18 \/ i = 19 \/ i = 20 \/ i = 21 \/ i = 22 \/ i = 23
  OBVIOUS
<1>25. QED
  BY BootSteps, <1>1, <1>2, <1>3, <1>4, <1>5, <1>6, <1>7, <1>8, <1>9, <1>10, <1>11, <1>12,
     <1>13, <1>14, <1>15, <1>16, <1>17, <1>18, <1>19, <1>20, <1>21, <1>22, <1>23, <1>24

Stray == strayTicks >= FirstWinner

\* What the steps done so far have set up.
BootReady ==
    /\ at > 2 => {"heap", "memory_map"} \subseteq ready
    /\ at > 8 => "tables" \in ready
    /\ "pics" \in ready <=> at > 11
    /\ at > 12 => "prompt" \in ready
    /\ "interrupts" \in ready => at > 13

\* Where the demo stands, and what it takes for a stack pointer to resume kernel_main.
BootDemo ==
    /\ strayTicks \in Nat
    /\ at < 18 => ~demoOn /\ strayTicks = 0
    /\ at < 19 => ~kernelRsp
    /\ demoOn => at \in {18, 19} /\ current \in Ids /\ budget < DemoBudget
    /\ demoOn /\ ~kernelRsp => strayTicks = budget
    /\ (\E t \in Ids : slotRsp[t] = "kernel") => Stray
    /\ firstRsp = "kernel" => Stray
    /\ demoOn /\ kernelRsp /\ onCpu = "kernel" => Stray

BootInv == BootTypeOK /\ BootReady /\ BootDemo /\ PromptComesFirst /\ BootStopsOnlyWhere

LEMMA BootAtFirst == BootInit => BootInv
<1> SUFFICES ASSUME BootInit PROVE BootInv
  OBVIOUS
<1>1. BootTypeOK
  <2>1. at \in 1..Len(Order) /\ hlts \in 0..Hlts /\ keys \in 0..MaxKeys /\ budget \in 0..DemoBudget
    BY BootAssumption, BootSteps DEF BootInit
  <2>2. slotRsp \in [Ids -> {"worker", "kernel"}]
    BY DEF BootInit
  <2>3. QED
    BY <2>1, <2>2 DEF BootInit, BootTypeOK
<1>2. BootReady
  BY DEF BootInit, BootReady
<1>3. BootDemo
  BY DEF BootInit, BootDemo
<1>4. PromptComesFirst /\ BootStopsOnlyWhere
  BY DEF BootInit, PromptComesFirst, BootStopsOnlyWhere
<1>5. QED
  BY <1>1, <1>2, <1>3, <1>4 DEF BootInv

\* The steps by their numbers.
LEMMA BootNumbers ==
    ASSUME BootTypeOK
    PROVE  /\ at \in 1..23 /\ Len(Order) = 23 /\ StepFacts(at, Order[at])
           /\ In("heap") <=> at = 2
           /\ In("signal_test") <=> at = 9
           /\ In("publish") <=> at = 17
           /\ In("first_rsp") <=> at = 18
           /\ In("switch") <=> at = 19
<1>1. at \in 1..23 /\ Len(Order) = 23
  BY BootSteps DEF BootTypeOK
<1>2. StepFacts(at, Order[at])
  BY <1>1, BootStepFacts
<1>3. QED
  BY <1>1, <1>2 DEF StepFacts, In

\* A panic, a step that only fails where there is no memory.
LEMMA AdvancePanics ==
    ASSUME BootInv, Advance, ~(Order[at].needs \subseteq ready)
    PROVE  BootInv'
<1>1. /\ outcome' = "panic" /\ UNCHANGED <<at, ready, hlts, demoVars, keys, keyBeforePrompt>>
  BY DEF Advance
<1>2. at = 2 /\ "memory_map" \notin ready
  BY BootNumbers DEF BootInv, BootReady, StepFacts
<1>3. In("heap")
  BY <1>2, BootNumbers DEF BootInv
<1>4. BootTypeOK' /\ BootReady' /\ BootDemo' /\ PromptComesFirst'
  BY <1>1 DEF BootInv, BootTypeOK, BootReady, BootDemo, PromptComesFirst, Stray, demoVars
<1>5. BootStopsOnlyWhere'
  BY <1>1, <1>2, <1>3 DEF BootStopsOnlyWhere, In
<1>6. QED
  BY <1>4, <1>5 DEF BootInv

LEMMA AdvanceWorks ==
    ASSUME BootInv, Advance, Order[at].needs \subseteq ready
    PROVE  BootInv'
<1>1. /\ outcome = "running" /\ onCpu = "kernel" /\ at < 23
      /\ outcome' = IF In("switch") /\ firstRsp = "kernel" THEN "lost" ELSE outcome
      /\ at' = IF In("switch") THEN at ELSE at + 1
      /\ hlts' = 0 /\ DemoStep /\ UNCHANGED <<keys, keyBeforePrompt>>
  BY BootSteps DEF Advance, Executing
<1>2. PICK works \in {TRUE} \cup (IF Order[at].mayFail THEN {FALSE} ELSE {}) :
        ready' = ready \cup (IF works THEN Order[at].gives ELSE {})
  BY DEF Advance
<1>3. /\ at \in 1..23 /\ StepFacts(at, Order[at]) /\ BootTypeOK
      /\ (In("publish") <=> at = 17) /\ (In("first_rsp") <=> at = 18) /\ (In("switch") <=> at = 19)
  BY BootNumbers DEF BootInv
<1>4. at' = IF at = 19 THEN 19 ELSE at + 1
  BY <1>1, <1>3
<1>5. BootReady'
  <2>1. ready \subseteq ready' /\ ready' \subseteq ready \cup Order[at].gives
    BY <1>2
  <2>2. at \in {2, 8, 11, 12} => Order[at].gives \subseteq ready'
    BY <1>2, <1>3 DEF StepFacts
  <2>3. BootReady /\ Order[at].needs \subseteq ready
    BY DEF BootInv
  <2>4. at' > 2 => {"heap", "memory_map"} \subseteq ready'
    BY <1>3, <1>4, <2>1, <2>2, <2>3 DEF BootReady, StepFacts
  <2>5. at' > 8 => "tables" \in ready'
    BY <1>3, <1>4, <2>1, <2>2, <2>3 DEF BootReady, StepFacts
  <2>6. "pics" \in ready' <=> at' > 11
    BY <1>3, <1>4, <2>1, <2>2, <2>3 DEF BootReady, StepFacts
  <2>7. at' > 12 => "prompt" \in ready'
    BY <1>3, <1>4, <2>1, <2>2, <2>3 DEF BootReady, StepFacts
  <2>8. "interrupts" \in ready' => at' > 13
    BY <1>3, <1>4, <2>1, <2>2, <2>3 DEF BootReady, StepFacts
  <2>9. QED
    BY <2>4, <2>5, <2>6, <2>7, <2>8 DEF BootReady
<1>6. at' \in 1..Len(Order)' /\ hlts' \in 0..Hlts
  BY <1>1, <1>3, <1>4, BootSteps, BootAssumption
<1>7. CASE at = 17
  <2>1. /\ budget' = 0 /\ current' = 0 /\ demoOn' = TRUE /\ at' = 18 /\ outcome' = outcome
        /\ UNCHANGED <<kernelRsp, slotRsp, firstRsp, onCpu, strayTicks>>
    BY <1>1, <1>3, <1>7 DEF DemoStep
  <2>2. BootTypeOK' /\ BootDemo'
    <3>1. 0 \in Ids /\ 0 < DemoBudget
      BY BootAssumption DEF Ids
    <3>2. BootTypeOK'
      BY <1>1, <1>3, <1>7, <1>6, <2>1, <3>1 DEF BootTypeOK
    <3>3. BootDemo /\ strayTicks = 0 /\ ~kernelRsp
      BY <1>7 DEF BootInv, BootDemo
    <3>4. BootDemo'
      BY <1>7, <2>1, <3>1, <3>3 DEF BootDemo, Stray
    <3>5. QED
      BY <3>2, <3>4
  <2>3. PromptComesFirst' /\ BootStopsOnlyWhere'
    BY <1>1, <2>1 DEF BootInv, PromptComesFirst, BootStopsOnlyWhere
  <2>4. QED
    BY <1>5, <2>2, <2>3 DEF BootInv
<1>8. CASE at = 18
  <2>1. /\ firstRsp' = slotRsp[0] /\ at' = 19 /\ outcome' = outcome
        /\ UNCHANGED <<demoOn, current, budget, kernelRsp, slotRsp, onCpu, strayTicks>>
    BY <1>1, <1>3, <1>8 DEF DemoStep
  <2>2. BootTypeOK' /\ BootDemo'
    <3>1. 0 \in Ids /\ slotRsp[0] \in {"worker", "kernel"}
      BY <1>3, BootAssumption DEF BootTypeOK, Ids
    <3>2. BootTypeOK'
      BY <1>1, <1>3, <1>8, <1>6, <2>1, <3>1 DEF BootTypeOK
    <3>3. BootDemo
      BY DEF BootInv
    <3>4. BootDemo'
      BY <1>8, <2>1, <3>1, <3>3 DEF BootDemo, Stray
    <3>5. QED
      BY <3>2, <3>4
  <2>3. PromptComesFirst' /\ BootStopsOnlyWhere'
    BY <1>1, <2>1 DEF BootInv, PromptComesFirst, BootStopsOnlyWhere
  <2>4. QED
    BY <1>5, <2>2, <2>3 DEF BootInv
<1>9. CASE at = 19
  <2>1. /\ kernelRsp' = TRUE /\ onCpu' = "worker" /\ at' = 19
        /\ outcome' = IF firstRsp = "kernel" THEN "lost" ELSE "running"
        /\ UNCHANGED <<demoOn, current, budget, slotRsp, firstRsp, strayTicks>>
    BY <1>1, <1>3, <1>9 DEF DemoStep
  <2>2. BootTypeOK' /\ BootDemo'
    <3>1. BootTypeOK'
      BY <1>1, <1>3, <1>9, <1>6, <2>1 DEF BootTypeOK
    <3>2. BootDemo
      BY DEF BootInv
    <3>3. BootDemo'
      BY <1>9, <2>1, <3>2 DEF BootDemo, Stray
    <3>4. QED
      BY <3>1, <3>3
  <2>3. PromptComesFirst' /\ BootStopsOnlyWhere'
    BY <1>1, <2>1 DEF BootInv, BootDemo, Stray, PromptComesFirst, BootStopsOnlyWhere
  <2>4. QED
    BY <1>5, <2>2, <2>3 DEF BootInv
<1>10. CASE at \notin {17, 18, 19}
  <2>1. /\ at' = at + 1 /\ outcome' = outcome /\ UNCHANGED demoVars
    BY <1>1, <1>3, <1>10 DEF DemoStep
  <2>2. BootTypeOK' /\ BootDemo'
    <3>1. BootTypeOK'
      BY <1>1, <1>3, <1>10, <1>6, <2>1 DEF BootTypeOK, demoVars
    <3>2. BootDemo /\ ~demoOn
      BY <1>10 DEF BootInv, BootDemo
    <3>3. BootDemo'
      BY <1>3, <1>10, <2>1, <3>2 DEF BootDemo, Stray, demoVars
    <3>4. QED
      BY <3>1, <3>3
  <2>3. PromptComesFirst' /\ BootStopsOnlyWhere'
    BY <1>1, <2>1 DEF BootInv, PromptComesFirst, BootStopsOnlyWhere, demoVars
  <2>4. QED
    BY <1>5, <2>2, <2>3 DEF BootInv
<1>11. QED
  BY <1>7, <1>8, <1>9, <1>10

\* A handler spins only where kernel_main holds locks.
LEMMA SpinKeepsBoot ==
    ASSUME BootInv, InterruptsOn, NEW wants, SpinOn(wants)
    PROVE  BootInv'
<1>1. outcome' = "spinning" /\ UNCHANGED <<at, ready, hlts, keys, keyBeforePrompt, demoVars>>
  BY DEF SpinOn
<1>2. \E name \in {"push_tasks", "new_scheduler", "first_rsp", "read_typed"} : In(name)
  BY DEF SpinOn, Spins, Held
<1>3. BootTypeOK' /\ BootReady' /\ BootDemo' /\ PromptComesFirst'
  BY <1>1 DEF BootInv, BootTypeOK, BootReady, BootDemo, PromptComesFirst, Stray, demoVars
<1>4. BootStopsOnlyWhere'
  BY <1>1, <1>2 DEF BootStopsOnlyWhere, In
<1>5. QED
  BY <1>3, <1>4 DEF BootInv

\* A handler that runs through and leaves the demo alone.
LEMMA QuietHandlerKeepsBoot ==
    ASSUME BootInv, HltReturns, UNCHANGED <<at, ready, outcome, demoVars>>,
           keys' \in 0..MaxKeys, keyBeforePrompt' = keyBeforePrompt
    PROVE  BootInv'
<1>1. hlts' \in 0..Hlts
  BY BootAssumption DEF HltReturns, BootInv, BootTypeOK
<1>2. BootTypeOK'
  BY <1>1 DEF BootInv, BootTypeOK, demoVars
<1>3. BootReady' /\ BootDemo'
  BY DEF BootInv, BootReady, BootDemo, Stray, demoVars
<1>4. PromptComesFirst' /\ BootStopsOnlyWhere'
  BY DEF BootInv, PromptComesFirst, BootStopsOnlyWhere, In, demoVars
<1>5. QED
  BY <1>2, <1>3, <1>4 DEF BootInv

\* A tick in the demo: the time is over, or a task is chosen.
LEMMA EndDemoKeepsBoot ==
    ASSUME BootInv, outcome = "running", demoOn, budget + 1 >= DemoBudget, HltReturns, EndDemo,
           CountStray, UNCHANGED <<ready, keys, keyBeforePrompt>>
    PROVE  BootInv'
<1>1. /\ BootTypeOK /\ BootDemo /\ BootReady /\ at \in {18, 19} /\ budget + 1 = DemoBudget
      /\ current \in Ids
  BY BootAssumption DEF BootInv, BootDemo, BootTypeOK
<1>2. hlts' \in 0..Hlts
  BY BootAssumption DEF HltReturns, BootInv, BootTypeOK
<1>3. ~kernelRsp \/ onCpu = "kernel" => Stray'
  <2>1. CASE kernelRsp /\ onCpu = "kernel"
    BY <1>1, <2>1, BootAssumption DEF BootDemo, CountStray, Stray
  <2>2. CASE ~kernelRsp
    BY <1>1, <2>2, BootAssumption DEF BootDemo, CountStray, Stray
  <2>3. QED
    BY <2>1, <2>2
<1>4. Stray => Stray'
  BY <1>1, BootAssumption DEF BootDemo, CountStray, Stray
<1>5. /\ demoOn' = FALSE /\ current' = NoTask /\ budget' = DemoBudget
      /\ slotRsp' = [slotRsp EXCEPT ![current] = onCpu] /\ onCpu' = "kernel"
      /\ at' = (IF kernelRsp THEN at + 1 ELSE at)
      /\ outcome' = (IF kernelRsp THEN outcome ELSE "lost")
      /\ kernelRsp' = kernelRsp /\ firstRsp' = firstRsp
  BY <1>1 DEF EndDemo
<1>6. strayTicks' \in Nat
  BY <1>1 DEF CountStray, BootDemo
<1>7. kernelRsp => at = 19
  BY <1>1 DEF BootDemo
<1>8. BootTypeOK'
  <2>1. at' \in 1..Len(Order) /\ budget' \in 0..DemoBudget
    BY <1>1, <1>5, <1>7, BootSteps, BootAssumption DEF BootTypeOK
  <2>2. slotRsp' \in [Ids -> {"worker", "kernel"}]
    BY <1>1, <1>5 DEF BootTypeOK
  <2>3. outcome' \in {"running", "panic", "halted", "spinning", "lost"}
    BY <1>1, <1>5 DEF BootTypeOK
  <2>4. current' \in Ids \cup {NoTask} /\ onCpu' \in {"worker", "kernel"} /\ demoOn' \in BOOLEAN
    BY <1>5
  <2>5. QED
    BY <1>1, <1>2, <1>5, <2>1, <2>2, <2>3, <2>4 DEF BootTypeOK
<1>9. BootReady'
  BY <1>1, <1>5, <1>7 DEF BootReady
<1>10. BootDemo'
  <2>1. (\E t \in Ids : slotRsp'[t] = "kernel") => Stray'
    BY <1>1, <1>3, <1>4, <1>5 DEF BootTypeOK, BootDemo
  <2>2. firstRsp' = "kernel" => Stray'
    BY <1>1, <1>4, <1>5 DEF BootDemo
  <2>3. (at' < 18 => ~demoOn' /\ strayTicks' = 0) /\ (at' < 19 => ~kernelRsp')
    BY <1>1, <1>5, <1>7
  <2>4. QED
    BY <1>5, <1>6, <2>1, <2>2, <2>3 DEF BootDemo
<1>11. PromptComesFirst' /\ BootStopsOnlyWhere'
  BY <1>3, <1>5 DEF BootInv, PromptComesFirst, BootStopsOnlyWhere, Stray
<1>12. QED
  BY <1>8, <1>9, <1>10, <1>11 DEF BootInv

LEMMA SwitchKeepsBoot ==
    ASSUME BootInv, outcome = "running", demoOn, ~(budget + 1 >= DemoBudget), HltReturns,
           NEW next \in Picks, SwitchTo(next), CountStray,
           UNCHANGED <<ready, keys, keyBeforePrompt>>
    PROVE  BootInv'
<1>1. /\ BootTypeOK /\ BootDemo /\ BootReady /\ at \in {18, 19} /\ current \in Ids
      /\ budget \in Nat /\ DemoBudget \in Nat /\ FirstWinner \in Nat
  BY BootAssumption DEF BootInv, BootDemo, BootTypeOK
<1>2. hlts' \in 0..Hlts
  BY BootAssumption DEF HltReturns, BootInv, BootTypeOK
<1>3. next \in Ids /\ (next # current => budget + 1 >= FirstWinner)
  BY <1>1 DEF Picks
<1>4. /\ budget' = budget + 1 /\ current' = next
      /\ UNCHANGED <<at, outcome, demoOn, kernelRsp, firstRsp>>
  BY DEF SwitchTo
<1>5. strayTicks' = (IF kernelRsp THEN strayTicks ELSE strayTicks + 1) /\ strayTicks' \in Nat
  BY <1>1 DEF CountStray, BootDemo
<1>6. Stray => Stray'
  BY <1>1, <1>5 DEF BootDemo, Stray
<1>7. BootReady' /\ PromptComesFirst' /\ BootStopsOnlyWhere'
  BY <1>4 DEF BootInv, BootReady, PromptComesFirst, BootStopsOnlyWhere
<1>8. CASE next = current
  <2>1. UNCHANGED <<slotRsp, onCpu>>
    BY <1>8 DEF SwitchTo
  <2>2. BootTypeOK'
    BY <1>1, <1>2, <1>3, <1>4, <2>1, BootAssumption DEF BootTypeOK
  <2>3. BootDemo'
    BY <1>1, <1>3, <1>4, <1>5, <1>6, <2>1 DEF BootDemo
  <2>4. QED
    BY <1>7, <2>2, <2>3 DEF BootInv
<1>9. CASE next # current
  <2>1. slotRsp' = [slotRsp EXCEPT ![current] = onCpu] /\ onCpu' = slotRsp[next]
    BY <1>9 DEF SwitchTo
  <2>2. BootTypeOK'
    BY <1>1, <1>2, <1>3, <1>4, <2>1, BootAssumption DEF BootTypeOK
  <2>3. ~kernelRsp => Stray'
    BY <1>1, <1>3, <1>5, <1>9 DEF BootDemo, Stray
  <2>4. onCpu = "kernel" => Stray'
    BY <1>1, <1>6, <2>3 DEF BootDemo
  <2>5. (\E t \in Ids : slotRsp'[t] = "kernel") => Stray'
    BY <1>1, <1>6, <2>1, <2>4 DEF BootDemo, BootTypeOK
  <2>6. onCpu' = "kernel" => Stray'
    BY <1>1, <1>3, <1>6, <2>1 DEF BootDemo
  <2>7. firstRsp' = "kernel" => Stray'
    BY <1>1, <1>4, <1>6 DEF BootDemo
  <2>8. demoOn' /\ ~kernelRsp' => strayTicks' = budget'
    BY <1>1, <1>4, <1>5 DEF BootDemo
  <2>9. demoOn' => at' \in {18, 19} /\ current' \in Ids /\ budget' < DemoBudget
    BY <1>1, <1>3, <1>4
  <2>10. (at' < 18 => ~demoOn' /\ strayTicks' = 0) /\ (at' < 19 => ~kernelRsp')
    BY <1>1, <1>4 DEF BootDemo
  <2>11. BootDemo'
    BY <1>5, <2>5, <2>6, <2>7, <2>8, <2>9, <2>10 DEF BootDemo
  <2>12. QED
    BY <1>7, <2>2, <2>11 DEF BootInv
<1>10. QED
  BY <1>8, <1>9

LEMMA TimerKeepsBoot ==
    ASSUME BootInv, TimerInterrupt
    PROVE  BootInv'
<1>1. InterruptsOn /\ outcome = "running" /\ UNCHANGED <<ready, keys, keyBeforePrompt>>
  BY DEF TimerInterrupt, InterruptsOn
<1>2. PICK fires \in {{}, {"heap"}} :
        IF ~demoOn THEN Handled(fires, UNCHANGED <<at, outcome, demoVars>>)
        ELSE IF budget + 1 >= DemoBudget
             THEN Handled(fires \cup {"TASKS"}, EndDemo /\ CountStray)
             ELSE \E next \in Picks :
                    Handled({"heap", "SCHED"} \cup (IF next = current THEN {} ELSE {"TASKS"}),
                            SwitchTo(next) /\ CountStray)
  BY DEF TimerInterrupt
<1>3. keys \in 0..MaxKeys
  BY DEF BootInv, BootTypeOK
<1>4. CASE ~demoOn
  <2>1. SpinOn(fires) \/ (HltReturns /\ UNCHANGED <<at, outcome, demoVars>>)
    BY <1>2, <1>4 DEF Handled
  <2>2. QED
    BY <1>1, <1>3, <2>1, SpinKeepsBoot, QuietHandlerKeepsBoot
<1>5. CASE demoOn /\ budget + 1 >= DemoBudget
  <2>1. SpinOn(fires \cup {"TASKS"}) \/ (HltReturns /\ EndDemo /\ CountStray)
    BY <1>2, <1>5 DEF Handled
  <2>2. QED
    BY <1>1, <1>5, <2>1, SpinKeepsBoot, EndDemoKeepsBoot
<1>6. CASE demoOn /\ ~(budget + 1 >= DemoBudget)
  <2>1. PICK next \in Picks :
          Handled({"heap", "SCHED"} \cup (IF next = current THEN {} ELSE {"TASKS"}),
                  SwitchTo(next) /\ CountStray)
    BY <1>2, <1>6
  <2> DEFINE wants == {"heap", "SCHED"} \cup (IF next = current THEN {} ELSE {"TASKS"})
  <2>2. SpinOn(wants) \/ (HltReturns /\ SwitchTo(next) /\ CountStray)
    BY <2>1 DEF Handled
  <2> HIDE DEF wants
  <2>3. QED
    BY <1>1, <1>6, <2>2, SpinKeepsBoot, SwitchKeepsBoot
<1>7. QED
  BY <1>4, <1>5, <1>6

LEMMA BootKept == BootInv /\ [BootNext]_bootVars => BootInv'
<1> SUFFICES ASSUME BootInv, [BootNext]_bootVars PROVE BootInv'
  OBVIOUS
<1>1. CASE Advance
  BY <1>1, AdvancePanics, AdvanceWorks
<1>2. CASE UnmappedInterrupt
  <2>1. /\ outcome' = "halted" /\ UNCHANGED <<at, ready, hlts, keys, keyBeforePrompt, demoVars>>
        /\ "pics" \notin ready /\ (In("signal_test") \/ "interrupts" \in ready)
    BY <1>2 DEF UnmappedInterrupt, InterruptsOn
  <2>2. In("signal_test")
    BY <2>1, BootNumbers DEF BootInv, BootReady
  <2>3. BootTypeOK' /\ BootReady' /\ BootDemo' /\ PromptComesFirst'
    BY <2>1 DEF BootInv, BootTypeOK, BootReady, BootDemo, PromptComesFirst, Stray, demoVars
  <2>4. BootStopsOnlyWhere'
    BY <2>1, <2>2 DEF BootStopsOnlyWhere, In
  <2>5. QED
    BY <2>3, <2>4 DEF BootInv
<1>3. CASE TimerInterrupt
  BY <1>3, TimerKeepsBoot
<1>4. CASE KeyInterrupt
  <2>1. PICK wants \in KeyWants :
          Handled(wants, /\ keys' = keys + 1
                         /\ keyBeforePrompt' = (keyBeforePrompt \/ "prompt" \notin ready)
                         /\ UNCHANGED <<at, ready, outcome, demoVars>>)
    BY <1>4 DEF KeyInterrupt
  <2>2. InterruptsOn /\ "pics" \in ready /\ keys < MaxKeys
    BY <1>4 DEF KeyInterrupt
  <2>3. CASE SpinOn(wants)
    BY <2>2, <2>3, SpinKeepsBoot
  <2>4. CASE /\ HltReturns /\ keys' = keys + 1
             /\ keyBeforePrompt' = (keyBeforePrompt \/ "prompt" \notin ready)
             /\ UNCHANGED <<at, ready, outcome, demoVars>>
    <3>1. "prompt" \in ready
      <4>1. at > 11 /\ (In("signal_test") <=> at = 9) /\ at \in 1..23
        BY <2>2, BootNumbers DEF BootInv, BootReady
      <4>2. "interrupts" \in ready
        BY <2>2, <4>1 DEF InterruptsOn
      <4>3. QED
        BY <4>1, <4>2 DEF BootInv, BootReady
    <3>2. keyBeforePrompt' = keyBeforePrompt
      BY <2>4, <3>1 DEF BootInv, BootTypeOK
    <3>3. keys' \in 0..MaxKeys
      BY <2>2, <2>4, BootAssumption DEF BootInv, BootTypeOK
    <3>4. QED
      BY <2>4, <3>2, <3>3, QuietHandlerKeepsBoot
  <2>5. QED
    BY <2>1, <2>3, <2>4 DEF Handled
<1>5. CASE MouseInterrupt
  <2>1. PICK wants \in {{}, {"heap"}} :
          Handled(wants, UNCHANGED <<at, ready, outcome, keys, keyBeforePrompt, demoVars>>)
    BY <1>5 DEF MouseInterrupt
  <2>2. InterruptsOn /\ keys \in 0..MaxKeys
    BY <1>5 DEF MouseInterrupt, BootInv, BootTypeOK
  <2>3. CASE SpinOn(wants)
    BY <2>2, <2>3, SpinKeepsBoot
  <2>4. CASE HltReturns /\ UNCHANGED <<at, ready, outcome, keys, keyBeforePrompt, demoVars>>
    BY <2>2, <2>4, QuietHandlerKeepsBoot
  <2>5. QED
    BY <2>1, <2>3, <2>4 DEF Handled
<1>6. CASE UNCHANGED bootVars
  <2>1. UNCHANGED <<at, ready, outcome, hlts, keys, keyBeforePrompt, demoVars>>
    BY <1>6 DEF bootVars
  <2>2. BootTypeOK' /\ BootReady' /\ BootDemo'
    BY <2>1 DEF BootInv, BootTypeOK, BootReady, BootDemo, Stray, demoVars
  <2>3. PromptComesFirst' /\ BootStopsOnlyWhere'
    BY <2>1 DEF BootInv, PromptComesFirst, BootStopsOnlyWhere, In, demoVars
  <2>4. QED
    BY <2>2, <2>3 DEF BootInv
<1>7. QED
  BY <1>1, <1>2, <1>3, <1>4, <1>5, <1>6 DEF BootNext, BootStays

\* Whatever interrupts fall into it and however many, the boot stops short of its end only in the
\* cases BootStopsOnlyWhere names, and no key is handled before there is a prompt.
THEOREM BootGoesOn == BootSpec => [](BootStopsOnlyWhere /\ PromptComesFirst)
<1>1. BootInv => BootStopsOnlyWhere /\ PromptComesFirst
  BY DEF BootInv
<1>2. QED
  BY <1>1, BootAtFirst, BootKept, PTL DEF BootSpec

\* No key press is handled before the prompt is printed and the line editor ready for it.
THEOREM PromptIsFirst == BootSpec => []PromptComesFirst
BY BootGoesOn, PTL

-----------------------------------------------------------------------------
(* The spiking network.                                                    *)

SoundInv == beepLeft \in Nat /\ SpikeToneIsTimed

LEMMA SoundKept ==
    ASSUME SoundInv, [NetNext]_netVars
    PROVE  SoundInv'
<1>1. CASE Tick
  <2>1. TickSound(FiringNow)
    BY <1>1 DEF Tick
  <2>2. CASE FiringNow # {}
    <3>1. beepLeft' = BeepTicks /\ BeepTicks \in Nat /\ BeepTicks > 0
      BY <2>1, <2>2, NetworkAssumption DEF TickSound
    <3>2. beepLeft' \in Nat /\ beepLeft' > 0
      BY <3>1
    <3> DEFINE left == beepLeft' > 0
    <3>3. left
      BY <3>2
    <3>4. (speakerOn /\ toneBy = "spike" => beepLeft > 0)'
      <4> HIDE DEF left
      <4>1. (speakerOn /\ toneBy = "spike")' => left
        BY <3>3
      <4>2. QED
        BY <4>1, Zenon DEF left
    <3>5. SpikeToneIsTimed'
      BY <3>4, Zenon DEF SpikeToneIsTimed
    <3>6. QED
      BY <3>2, <3>5 DEF SoundInv
  <2>3. CASE FiringNow = {}
    <3>1. /\ beepLeft' = Larger(beepLeft - 1, 0) /\ toneBy' = toneBy
          /\ speakerOn' = (speakerOn /\ beepLeft # 1)
      BY <2>1, <2>3 DEF TickSound
    <3>2. beepLeft' \in Nat /\ (beepLeft > 1 => beepLeft' > 0)
      BY <3>1 DEF Larger, SoundInv
    <3>3. ASSUME speakerOn', toneBy' = "spike" PROVE beepLeft' > 0
      <4>1. speakerOn /\ beepLeft # 1 /\ toneBy = "spike"
        BY <3>1, <3>3, Zenon
      <4>2. beepLeft > 0
        BY <4>1, Zenon DEF SoundInv, SpikeToneIsTimed
      <4>3. beepLeft > 1
        BY <4>1, <4>2 DEF SoundInv
      <4>4. QED
        BY <3>2, <4>3
    <3>4. SpikeToneIsTimed'
      BY <3>3, Zenon DEF SpikeToneIsTimed
    <3>5. QED
      BY <3>2, <3>4 DEF SoundInv
  <2>4. QED
    BY <2>2, <2>3
<1>2. CASE ShellBeep
  BY <1>2 DEF ShellBeep, SoundInv, SpikeToneIsTimed
<1>3. CASE ShellSilence
  BY <1>3 DEF ShellSilence, SoundInv, SpikeToneIsTimed
<1>4. CASE UNCHANGED <<beepLeft, speakerOn, toneBy>>
  BY <1>4 DEF SoundInv, SpikeToneIsTimed
<1>5. ASSUME NEW n, AddNeuron(n) PROVE UNCHANGED <<beepLeft, speakerOn, toneBy>>
  BY <1>5 DEF AddNeuron, soundVars
<1>6. ASSUME NEW n, NEW a, Stimulate(n, a) PROVE UNCHANGED <<beepLeft, speakerOn, toneBy>>
  BY <1>6 DEF Stimulate, soundVars
<1>7. ASSUME NEW from, NEW to, NEW w, AddSynapse(from, to, w)
      PROVE  UNCHANGED <<beepLeft, speakerOn, toneBy>>
  BY <1>7 DEF AddSynapse, soundVars
<1>8. ASSUME NEW from, NEW to, NEW gap, NEW pre, TrainSynapse(from, to, gap, pre)
      PROVE  UNCHANGED <<beepLeft, speakerOn, toneBy>>
  BY <1>8 DEF TrainSynapse, soundVars
<1>9. QED
  BY <1>1, <1>2, <1>3, <1>4, <1>5, <1>6, <1>7, <1>8 DEF NetNext, netVars, soundVars

\* A tone that a spike started never sounds without the countdown that stops it, however ticks and
\* the shell's `beep` and `silence` follow on one another.
THEOREM SpikeTonesEnd == NetSpec => []SpikeToneIsTimed
<1>1. NetInit => SoundInv
  BY DEF NetInit, SoundInv, SpikeToneIsTimed
<1>2. SoundInv => SpikeToneIsTimed
  BY DEF SoundInv
<1>3. QED
  BY <1>1, <1>2, SoundKept, PTL DEF NetSpec

SynapseRecords ==
    [from : NeuronNames, to : NeuronNames, weight : Int, gate : BOOLEAN,
     evidence : 0..EvidenceOne, window : 0..Window + 1]

\* An open window is as old as the last firing of the synapse's first neuron.
SynapseInv ==
    /\ neurons \subseteq NeuronNames
    /\ synapses \in Seq(SynapseRecords)
    /\ sinceFire \in [NeuronNames -> 1..Window + 1]
    /\ \A i \in 1..Len(synapses) :
         synapses[i].window # 0 => synapses[i].window = sinceFire[synapses[i].from]

LEMMA NetNumbers ==
    /\ Window \in Nat /\ EvidenceOne \in Nat /\ WeightOne \in Nat /\ InitialWeight \in Int
    /\ GateOn \in 0..EvidenceOne /\ GateOff \in 0..GateOn
    /\ \A g \in Gaps : g \in Nat
    /\ \A w \in Weights : w \in Int
<1>1. /\ EvidenceOne \in Nat /\ Gaps \subseteq Nat /\ Weights \subseteq Int
      /\ GateOn \in 0..EvidenceOne /\ GateOff \in 0..GateOn
  BY NetworkAssumption
<1>2. Window \in Nat /\ WeightOne \in Nat /\ InitialWeight \in Nat
  BY NetworkAssumption, Zenon
<1>3. QED
  BY <1>1, <1>2

LEMMA SynapsesAtFirst == NetInit => SynapseInv
<1> SUFFICES ASSUME NetInit PROVE SynapseInv
  OBVIOUS
<1> DEFINE n == Cardinality(Keys)
<1>1. n \in Nat
  BY NetworkAssumption, FS_CardinalityType
<1>2. PICK order \in [1..n -> Keys] :
        \E weight \in [DOMAIN order -> Weights \cup {InitialWeight}] :
          synapses = [i \in DOMAIN order |-> NewSynapse(order[i], Motor, weight[i])]
  BY DEF NetInit
<1>3. PICK weight \in [1..n -> Weights \cup {InitialWeight}] :
        synapses = [i \in 1..n |-> NewSynapse(order[i], Motor, weight[i])]
  BY <1>2
<1>4. \A i \in 1..n : NewSynapse(order[i], Motor, weight[i]) \in SynapseRecords
  BY NetNumbers DEF NewSynapse, SynapseRecords, NeuronNames
<1>5. synapses \in Seq(SynapseRecords) /\ Len(synapses) = n
      /\ \A i \in 1..n : synapses[i].window = 0
  <2> HIDE DEF n
  <2>1. \A i \in 1..n : NewSynapse(order[i], Motor, weight[i]).window = 0
    BY DEF NewSynapse
  <2>2. synapses \in [1..n -> SynapseRecords]
    BY <1>3, <1>4
  <2>3. synapses \in Seq(SynapseRecords) /\ Len(synapses) = n
    BY <1>1, <2>2
  <2>4. QED
    BY <1>3, <2>1, <2>3
<1>6. sinceFire \in [NeuronNames -> 1..Window + 1]
  BY NetNumbers DEF NetInit
<1>7. neurons \subseteq NeuronNames
  BY DEF NetInit, NeuronNames
<1>8. QED
  BY <1>5, <1>6, <1>7 DEF SynapseInv

\* The moving average moves towards the end it should, and no further.
LEMMA EvidenceMoves ==
    ASSUME NEW e \in 0..EvidenceOne
    PROVE  /\ UpdatedEvidence(e, TRUE) \in e..EvidenceOne
           /\ UpdatedEvidence(e, FALSE) \in 0..e
BY NetNumbers DEF UpdatedEvidence

\* The evidence pass over one synapse.
LEMMA SensedIsSound ==
    ASSUME NEW s \in SynapseRecords, NEW fired \in SUBSET NeuronNames,
           NEW since \in [NeuronNames -> 1..Window + 1],
           s.window # 0 => s.window = since[s.from]
    PROVE  LET t == Sensed(s, fired)
               later == IF s.from \in fired THEN 1 ELSE Smaller(since[s.from] + 1, Window + 1)
           IN /\ t \in SynapseRecords
              /\ t.from = s.from /\ t.to = s.to /\ t.weight = s.weight /\ t.gate = s.gate
              /\ t.window # 0 => t.window = later
              /\ t.evidence < s.evidence => since[s.from] > Window
              /\ t.evidence > s.evidence => since[s.from] <= Window /\ s.to \in fired
<1> DEFINE hit == s.to \in fired /\ s.window \in 1..Window
           miss == s.window > Window
           e == IF hit \/ miss THEN UpdatedEvidence(s.evidence, hit) ELSE s.evidence
           w == IF s.from \in fired THEN 1 ELSE IF hit \/ miss THEN 0 ELSE Aged(s.window, 1)
           t == Sensed(s, fired)
<1>1. /\ s.window \in 0..Window + 1 /\ s.evidence \in 0..EvidenceOne /\ s.from \in NeuronNames
      /\ since[s.from] \in 1..Window + 1
  BY DEF SynapseRecords
<1>2. t = [s EXCEPT !.evidence = e, !.window = w]
  BY DEF Sensed
<1>3. /\ e \in 0..EvidenceOne
      /\ e < s.evidence => ~hit /\ miss
      /\ e > s.evidence => hit
  <2>1. CASE hit
    <3>1. e = UpdatedEvidence(s.evidence, TRUE)
      BY <2>1
    <3>2. UpdatedEvidence(s.evidence, TRUE) \in s.evidence..EvidenceOne
      BY <1>1, EvidenceMoves
    <3>3. e \in 0..EvidenceOne /\ ~(e < s.evidence)
      <4> HIDE DEF e, hit, miss
      <4>1. e \in s.evidence..EvidenceOne
        BY <3>1, <3>2
      <4>2. QED
        BY <1>1, <4>1, NetNumbers
    <3>4. QED
      BY <2>1, <3>3, Zenon
  <2>2. CASE ~hit /\ miss
    <3>1. e = UpdatedEvidence(s.evidence, FALSE)
      BY <2>2
    <3>2. UpdatedEvidence(s.evidence, FALSE) \in 0..s.evidence
      BY <1>1, EvidenceMoves
    <3>3. e \in 0..EvidenceOne /\ ~(e > s.evidence)
      <4> HIDE DEF e, hit, miss
      <4>1. e \in 0..s.evidence
        BY <3>1, <3>2
      <4>2. QED
        BY <1>1, <4>1, NetNumbers
    <3>4. QED
      BY <2>2, <3>3, Zenon
  <2>3. CASE ~hit /\ ~miss
    <3>1. e = s.evidence
      BY <2>3
    <3> HIDE DEF hit, miss, e
    <3>2. QED
      BY <1>1, <3>1, NetNumbers
  <2>4. QED
    BY <2>1, <2>2, <2>3
<1>4. /\ w \in 0..Window + 1
      /\ w # 0 => w = IF s.from \in fired THEN 1 ELSE Smaller(since[s.from] + 1, Window + 1)
  BY <1>1, NetNumbers DEF Aged, Smaller
<1> HIDE DEF e, w, t
<1>5. /\ t \in SynapseRecords /\ t.evidence = e /\ t.window = w
      /\ t.from = s.from /\ t.to = s.to /\ t.weight = s.weight /\ t.gate = s.gate
  BY <1>2, <1>3, <1>4 DEF SynapseRecords
<1>6. t.evidence < s.evidence => since[s.from] > Window
  BY <1>1, <1>3, <1>5, NetNumbers
<1>7. t.evidence > s.evidence => since[s.from] <= Window /\ s.to \in fired
  BY <1>1, <1>3, <1>5, NetNumbers
<1>8. QED
  BY <1>4, <1>5, <1>6, <1>7 DEF t

\* A pass that moves the evidence moves it as one miss or one hit does.
LEMMA SensedMoves ==
    ASSUME NEW s \in SynapseRecords, NEW fired
    PROVE  LET t == Sensed(s, fired)
           IN /\ t.evidence < s.evidence => t.evidence = UpdatedEvidence(s.evidence, FALSE)
              /\ t.evidence > s.evidence => t.evidence = UpdatedEvidence(s.evidence, TRUE)
<1> DEFINE a == s.evidence
           b == Sensed(s, fired).evidence
           down == UpdatedEvidence(a, FALSE)
           up == UpdatedEvidence(a, TRUE)
<1>1. a \in 0..EvidenceOne
  BY DEF SynapseRecords
<1>2. b \in {a, down, up}
  BY DEF Sensed, SynapseRecords
<1>3. up \in a..EvidenceOne /\ down \in 0..a
  BY <1>1, EvidenceMoves
<1> HIDE DEF a, b, down, up
<1>4. (b < a => b = down) /\ (b > a => b = up)
  BY <1>1, <1>2, <1>3, NetNumbers
<1>5. QED
  BY <1>4 DEF a, b, down, up

LEMMA WeightsAreNumbers ==
    ASSUME NEW w \in Int, NEW pre, NEW post
    PROVE  StdpWeights(w, pre, post) \subseteq Int
BY NetNumbers DEF StdpWeights, Smaller, Larger

\* What a tick does to each synapse.
LEMMA TickSynapses ==
    ASSUME SynapseInv, Tick
    PROVE  /\ synapses' \in Seq(SynapseRecords) /\ Len(synapses') = Len(synapses)
           /\ \A i \in 1..Len(synapses) :
                LET old == synapses[i]
                    new == synapses'[i]
                    sensed == Sensed(old, FiringNow)
                IN /\ new.from = sensed.from /\ new.window = sensed.window
                   /\ new.evidence = sensed.evidence
                   /\ old.gate /\ ~new.gate => new.evidence < GateOff
                   /\ ~old.gate /\ new.gate => new.evidence > GateOn
<1> DEFINE fired == FiringNow
           now == LastRank(fireRank) + 1
           rank == [n \in NeuronNames |-> IF n \in fired THEN now ELSE fireRank[n]]
           n == Len(synapses)
<1>1. PICK learned \in [DOMAIN synapses ->
                          UNION {LearnedWeights(synapses[i], fired, rank) :
                                   i \in DOMAIN synapses}] :
        /\ \A i \in DOMAIN synapses : learned[i] \in LearnedWeights(synapses[i], fired, rank)
        /\ LET after == [i \in DOMAIN synapses |->
                           [Sensed(synapses[i], fired) EXCEPT !.weight = learned[i]]]
           IN synapses' = IF phase = 0 THEN EvaluatedGates(after) ELSE after
  BY DEF Tick
<1> DEFINE after == [i \in DOMAIN synapses |->
                       [Sensed(synapses[i], fired) EXCEPT !.weight = learned[i]]]
<1>2. n \in Nat /\ DOMAIN synapses = 1..n
  BY DEF SynapseInv
<1>3. fired \in SUBSET NeuronNames /\ sinceFire \in [NeuronNames -> 1..Window + 1]
  BY DEF FiringNow, SynapseInv
<1> HIDE DEF fired, rank
<1>4. ASSUME NEW i \in 1..n
      PROVE  /\ after[i] \in SynapseRecords
             /\ after[i].from = Sensed(synapses[i], fired).from
             /\ after[i].window = Sensed(synapses[i], fired).window
             /\ after[i].evidence = Sensed(synapses[i], fired).evidence
             /\ after[i].gate = synapses[i].gate
  <2>1. synapses[i] \in SynapseRecords
    BY DEF SynapseInv
  <2>2. /\ Sensed(synapses[i], fired) \in SynapseRecords
        /\ Sensed(synapses[i], fired).gate = synapses[i].gate
    BY <1>3, <2>1, SensedIsSound DEF SynapseInv
  <2>3. learned[i] \in LearnedWeights(synapses[i], fired, rank)
    BY <1>1, <1>2
  <2>4. learned[i] \in Int
    <3>1. synapses[i].weight \in Int
      BY <2>1 DEF SynapseRecords
    <3>2. QED
      BY <2>3, <3>1, WeightsAreNumbers DEF LearnedWeights
  <2>5. after[i] = [Sensed(synapses[i], fired) EXCEPT !.weight = learned[i]]
    BY <1>2
  <2> HIDE DEF after
  <2>6. QED
    BY <2>2, <2>4, <2>5 DEF SynapseRecords
<1>5. ASSUME NEW i \in 1..n
      PROVE  /\ synapses'[i] \in SynapseRecords
             /\ synapses'[i].from = after[i].from /\ synapses'[i].window = after[i].window
             /\ synapses'[i].evidence = after[i].evidence
             /\ synapses'[i].gate \in {after[i].gate, GateAfter(after[i])}
  <2>1. DOMAIN after = 1..n /\ after[i] \in SynapseRecords
    BY <1>2, <1>4
  <2> HIDE DEF after
  <2>2. EvaluatedGates(after)[i] = [after[i] EXCEPT !.gate = GateAfter(after[i])]
    BY <2>1 DEF EvaluatedGates
  <2>3. GateAfter(after[i]) \in BOOLEAN
    <3>1. CASE after[i].gate
      <4>1. (after[i].evidence >= GateOff) \in BOOLEAN
        BY SMT
      <4>2. GateAfter(after[i]) = (after[i].evidence >= GateOff)
        BY <3>1 DEF GateAfter
      <4>3. QED
        BY <4>1, <4>2
    <3>2. CASE ~after[i].gate
      <4>1. (after[i].evidence > GateOn) \in BOOLEAN
        BY SMT
      <4>2. GateAfter(after[i]) = (after[i].evidence > GateOn)
        BY <3>2 DEF GateAfter
      <4>3. QED
        BY <4>1, <4>2
    <3>3. QED
      BY <3>1, <3>2
  <2>4. synapses'[i] = after[i] \/ synapses'[i] = [after[i] EXCEPT !.gate = GateAfter(after[i])]
    BY <1>1, <2>2 DEF after
  <2>5. QED
    BY <2>1, <2>3, <2>4 DEF SynapseRecords
<1>6. synapses' \in [1..n -> SynapseRecords]
  <2>1. DOMAIN after = 1..n
    BY <1>2
  <2>2. synapses' = [i \in 1..n |-> synapses'[i]]
    <3> HIDE DEF after
    <3>1. EvaluatedGates(after) = [i \in 1..n |-> EvaluatedGates(after)[i]]
      BY <2>1 DEF EvaluatedGates
    <3>2. after = [i \in 1..n |-> after[i]]
      BY <1>2 DEF after
    <3>3. synapses' = EvaluatedGates(after) \/ synapses' = after
      BY <1>1 DEF after
    <3>4. QED
      BY <3>1, <3>2, <3>3
  <2> HIDE DEF after
  <2>3. QED
    BY <1>5, <2>2
<1>7. synapses' \in Seq(SynapseRecords) /\ Len(synapses') = n
  BY <1>2, <1>6
<1>8. ASSUME NEW i \in 1..n
      PROVE  /\ synapses[i].gate /\ ~synapses'[i].gate => synapses'[i].evidence < GateOff
             /\ ~synapses[i].gate /\ synapses'[i].gate => synapses'[i].evidence > GateOn
  <2> HIDE DEF after
  <2>1. /\ synapses'[i].gate \in {synapses[i].gate, GateAfter(after[i])}
        /\ synapses'[i].evidence = after[i].evidence /\ after[i].gate = synapses[i].gate
    BY <1>4, <1>5
  <2>2. after[i].evidence \in Int
    BY <1>4, NetNumbers DEF SynapseRecords
  <2>3. ASSUME synapses[i].gate, ~synapses'[i].gate PROVE synapses'[i].evidence < GateOff
    <3>1. ~GateAfter(after[i]) /\ after[i].gate
      BY <2>1, <2>3, Zenon
    <3>2. ~(after[i].evidence >= GateOff)
      BY <3>1 DEF GateAfter
    <3>3. QED
      BY <2>1, <2>2, <3>2, NetNumbers
  <2>4. ASSUME ~synapses[i].gate, synapses'[i].gate PROVE synapses'[i].evidence > GateOn
    BY <2>1, <2>4 DEF GateAfter
  <2>5. QED
    BY <2>3, <2>4
<1> HIDE DEF after, n
<1>9. QED
  BY <1>4, <1>5, <1>7, <1>8 DEF fired, n

LEMMA TickKeepsSynapses ==
    ASSUME SynapseInv, Tick
    PROVE  SynapseInv'
<1>1. sinceFire' = [n \in NeuronNames |->
                      IF n \in FiringNow THEN 1 ELSE Smaller(sinceFire[n] + 1, Window + 1)]
  BY DEF Tick
<1>2. sinceFire' \in [NeuronNames -> 1..Window + 1]
  <2>1. \A n \in NeuronNames : sinceFire[n] \in 1..Window + 1
    BY DEF SynapseInv
  <2>2. QED
    BY <1>1, <2>1, NetNumbers DEF Smaller
<1>3. ASSUME NEW i \in 1..Len(synapses), synapses'[i].window # 0
      PROVE  synapses'[i].window = sinceFire'[synapses'[i].from]
  <2>1. /\ synapses[i] \in SynapseRecords /\ synapses[i].from \in NeuronNames
        /\ sinceFire \in [NeuronNames -> 1..Window + 1] /\ FiringNow \in SUBSET NeuronNames
        /\ synapses[i].window # 0 => synapses[i].window = sinceFire[synapses[i].from]
    <3>1. i \in DOMAIN synapses /\ synapses[i] \in SynapseRecords /\ FiringNow \subseteq neurons
      BY DEF SynapseInv, FiringNow
    <3>2. synapses[i].from \in NeuronNames
      BY <3>1 DEF SynapseRecords
    <3>3. QED
      BY <3>1, <3>2 DEF SynapseInv
  <2>2. LET t == Sensed(synapses[i], FiringNow)
        IN /\ synapses'[i].from = t.from /\ synapses'[i].window = t.window
           /\ t.from = synapses[i].from
           /\ t.window # 0 => t.window = IF synapses[i].from \in FiringNow THEN 1
                                         ELSE Smaller(sinceFire[synapses[i].from] + 1, Window + 1)
    BY <2>1, TickSynapses, SensedIsSound
  <2>3. QED
    BY <1>1, <1>3, <2>1, <2>2
<1>4. neurons' \subseteq NeuronNames
  BY DEF Tick, SynapseInv
<1>5. QED
  BY <1>2, <1>3, <1>4, TickSynapses DEF SynapseInv

LEMMA AddSynapseKeepsSynapses ==
    ASSUME SynapseInv, NEW from \in NeuronNames, NEW to \in NeuronNames, NEW w \in Weights,
           AddSynapse(from, to, w)
    PROVE  /\ SynapseInv' /\ Len(synapses') = Len(synapses) + 1
           /\ \A i \in 1..Len(synapses) : synapses'[i] = synapses[i]
           /\ synapses'[Len(synapses) + 1].gate
           /\ synapses'[Len(synapses) + 1].evidence = EvidenceOne
<1> DEFINE s == NewSynapse(from, to, w)
           n == Len(synapses)
<1>1. s \in SynapseRecords /\ s.window = 0 /\ s.gate /\ s.evidence = EvidenceOne
  BY NetNumbers DEF NewSynapse, SynapseRecords
<1>2. synapses' = Append(synapses, s) /\ neurons' = neurons /\ sinceFire' = sinceFire
  BY DEF AddSynapse, neuronVars
<1> HIDE DEF s
<1>3. synapses \in Seq(SynapseRecords) /\ n \in Nat
  BY DEF SynapseInv
<1>4. /\ synapses' \in Seq(SynapseRecords) /\ Len(synapses') = n + 1
      /\ \A i \in 1..n : synapses'[i] = synapses[i]
      /\ synapses'[n + 1] = s
  BY <1>1, <1>2, <1>3
<1>5. ASSUME NEW i \in 1..n + 1, synapses'[i].window # 0
      PROVE  synapses'[i].window = sinceFire'[synapses'[i].from]
  <2>1. i # n + 1
    BY <1>1, <1>4, <1>5
  <2>2. i \in 1..n
    BY <1>3, <2>1
  <2>3. QED
    BY <1>2, <1>4, <1>5, <2>2 DEF SynapseInv
<1> HIDE DEF n
<1>6. QED
  BY <1>1, <1>2, <1>4, <1>5 DEF SynapseInv, n

LEMMA TrainKeepsSynapses ==
    ASSUME SynapseInv, NEW from \in NeuronNames, NEW to \in NeuronNames, NEW gap \in Gaps,
           NEW pre \in BOOLEAN, TrainSynapse(from, to, gap, pre)
    PROVE  /\ SynapseInv' /\ Len(synapses') = Len(synapses)
           /\ \A i \in 1..Len(synapses) :
                synapses'[i].evidence = synapses[i].evidence /\ synapses'[i].gate = synapses[i].gate
<1> DEFINE n == Len(synapses)
<1>1. n \in Nat /\ DOMAIN synapses = 1..n /\ gap \in Nat
  BY NetNumbers DEF SynapseInv
<1>2. /\ sinceFire' = [m \in NeuronNames |-> Smaller(sinceFire[m] + gap + 1, Window + 1)]
      /\ neurons' = neurons
  BY DEF TrainSynapse
<1> DEFINE early == LastRank(fireRank) + 1
           first == IF pre THEN from ELSE to
           second == IF pre THEN to ELSE from
           late == IF gap = 0 THEN early ELSE early + 1
           rank == [[fireRank EXCEPT ![first] = early] EXCEPT ![second] = late]
<1>3. \E i \in DOMAIN synapses : \E w \in StdpWeights(synapses[i].weight, rank[from], rank[to]) :
        synapses' = [j \in DOMAIN synapses |->
                       [synapses[j] EXCEPT !.weight = IF j = i THEN w ELSE @,
                                           !.window = Aged(@, gap + 1)]]
  BY DEF TrainSynapse
<1> HIDE DEF rank
<1>4. PICK i \in DOMAIN synapses : \E w \in StdpWeights(synapses[i].weight, rank[from], rank[to]) :
        synapses' = [j \in DOMAIN synapses |->
                       [synapses[j] EXCEPT !.weight = IF j = i THEN w ELSE @,
                                           !.window = Aged(@, gap + 1)]]
  BY <1>3
<1>5. PICK w \in StdpWeights(synapses[i].weight, rank[from], rank[to]) :
        synapses' = [j \in DOMAIN synapses |->
                       [synapses[j] EXCEPT !.weight = IF j = i THEN w ELSE @,
                                           !.window = Aged(@, gap + 1)]]
  BY <1>4
<1>6. w \in Int
  <2>1. synapses[i].weight \in Int
    <3>1. synapses[i] \in SynapseRecords
      BY <1>1 DEF SynapseInv
    <3>2. QED
      BY <3>1 DEF SynapseRecords
  <2>2. QED
    BY <1>5, <2>1, WeightsAreNumbers
<1>7. ASSUME NEW j \in 1..n
      PROVE  /\ synapses'[j] \in SynapseRecords
             /\ synapses'[j].from = synapses[j].from
             /\ synapses'[j].evidence = synapses[j].evidence
             /\ synapses'[j].gate = synapses[j].gate
             /\ synapses'[j].window = Aged(synapses[j].window, gap + 1)
             /\ synapses[j].from \in NeuronNames
  <2> DEFINE v == IF j = i THEN w ELSE synapses[j].weight
             a == Aged(synapses[j].window, gap + 1)
  <2>1. synapses[j] \in SynapseRecords
    BY DEF SynapseInv
  <2>2. synapses'[j] = [synapses[j] EXCEPT !.weight = v, !.window = a]
    BY <1>1, <1>5
  <2>3. v \in Int
    BY <1>6, <2>1 DEF SynapseRecords
  <2>4. a \in 0..Window + 1
    BY <1>1, <2>1, NetNumbers DEF SynapseRecords, Aged, Smaller
  <2> HIDE DEF v, a
  <2>5. QED
    BY <2>1, <2>2, <2>3, <2>4 DEF SynapseRecords, a
<1>8. synapses' \in Seq(SynapseRecords) /\ Len(synapses') = n
  <2>1. synapses' = [j \in 1..n |-> synapses'[j]]
    BY <1>1, <1>5
  <2>2. synapses' \in [1..n -> SynapseRecords]
    BY <1>7, <2>1
  <2>3. QED
    BY <1>1, <2>2
<1>9. sinceFire' \in [NeuronNames -> 1..Window + 1]
  <2>1. \A m \in NeuronNames : sinceFire[m] \in 1..Window + 1
    BY DEF SynapseInv
  <2>2. QED
    BY <1>1, <1>2, <2>1, NetNumbers DEF Smaller
<1>10. ASSUME NEW j \in 1..n, synapses'[j].window # 0
       PROVE  synapses'[j].window = sinceFire'[synapses'[j].from]
  <2>1. synapses[j].window # 0
    BY <1>7, <1>10 DEF Aged
  <2>2. synapses[j].window = sinceFire[synapses[j].from]
    BY <2>1 DEF SynapseInv
  <2>3. synapses'[j].window = Smaller(synapses[j].window + (gap + 1), Window + 1)
    BY <1>7, <2>1 DEF Aged
  <2>4. sinceFire[synapses[j].from] \in Int
    BY <1>7 DEF SynapseInv
  <2>5. sinceFire'[synapses'[j].from] = Smaller(sinceFire[synapses[j].from] + gap + 1, Window + 1)
    BY <1>2, <1>7
  <2>6. sinceFire[synapses[j].from] + (gap + 1) = sinceFire[synapses[j].from] + gap + 1
    BY <1>1, <2>4
  <2>7. QED
    BY <2>2, <2>3, <2>5, <2>6
<1> HIDE DEF n
<1>11. QED
  BY <1>2, <1>7, <1>8, <1>9, <1>10 DEF SynapseInv, n

\* The variables the synapse invariant reads.
synapseVars == <<neurons, synapses, sinceFire>>

LEMMA SynapsesKept ==
    ASSUME SynapseInv, [NetNext]_netVars
    PROVE  /\ SynapseInv'
           /\ ~Tick => \A i \in DOMAIN synapses : synapses'[i].evidence = synapses[i].evidence
<1>0. DOMAIN synapses = 1..Len(synapses)
  BY DEF SynapseInv
<1>1. CASE Tick
  BY <1>1, TickKeepsSynapses
<1>2. ASSUME NEW n \in NeuronNames, AddNeuron(n)
      PROVE  SynapseInv' /\ synapses' = synapses
  BY <1>2 DEF AddNeuron, SynapseInv
<1>3. CASE UNCHANGED synapseVars
  BY <1>3 DEF synapseVars, SynapseInv
<1>4. ASSUME NEW n, NEW a, Stimulate(n, a) PROVE UNCHANGED synapseVars
  BY <1>4 DEF Stimulate, synapseVars
<1>5. ASSUME NEW from \in NeuronNames, NEW to \in NeuronNames, NEW w \in Weights,
             AddSynapse(from, to, w)
      PROVE  SynapseInv' /\ \A i \in DOMAIN synapses : synapses'[i].evidence = synapses[i].evidence
  BY <1>5, <1>0, AddSynapseKeepsSynapses
<1>6. ASSUME NEW from \in NeuronNames, NEW to \in NeuronNames, NEW gap \in Gaps,
             NEW pre \in BOOLEAN, TrainSynapse(from, to, gap, pre)
      PROVE  SynapseInv' /\ \A i \in DOMAIN synapses : synapses'[i].evidence = synapses[i].evidence
  BY <1>6, <1>0, TrainKeepsSynapses
<1>7. ASSUME ShellBeep \/ ShellSilence PROVE UNCHANGED synapseVars
  BY <1>7 DEF ShellBeep, ShellSilence, neuronVars, synapseVars
<1>8. ASSUME UNCHANGED netVars PROVE UNCHANGED synapseVars
  BY <1>8 DEF netVars, neuronVars, synapseVars
<1>9. QED
  <2>1. CASE UNCHANGED synapseVars
    BY <1>3, <2>1 DEF synapseVars
  <2>2. QED
    BY <1>1, <1>2, <1>4, <1>5, <1>6, <1>7, <1>8, <2>1 DEF NetNext

\* The step form of EvidenceMatchesFirings.
LEMMA EvidenceStep ==
    ASSUME SynapseInv, [NetNext]_netVars, NEW i \in DOMAIN synapses
    PROVE  /\ synapses'[i].evidence < synapses[i].evidence => sinceFire[synapses[i].from] > Window
           /\ synapses'[i].evidence > synapses[i].evidence =>
                sinceFire[synapses[i].from] <= Window /\ synapses[i].to \in FiringNow
<1>1. /\ i \in 1..Len(synapses) /\ synapses[i] \in SynapseRecords
      /\ sinceFire \in [NeuronNames -> 1..Window + 1] /\ FiringNow \in SUBSET NeuronNames
      /\ synapses[i].window # 0 => synapses[i].window = sinceFire[synapses[i].from]
  BY DEF SynapseInv, FiringNow
<1>2. synapses[i].evidence \in Int
  BY <1>1, NetNumbers DEF SynapseRecords
<1>3. CASE Tick
  <2> DEFINE t == Sensed(synapses[i], FiringNow)
  <2>1. synapses'[i].evidence = t.evidence
    BY <1>1, <1>3, TickSynapses
  <2>2. /\ t.evidence < synapses[i].evidence => sinceFire[synapses[i].from] > Window
        /\ t.evidence > synapses[i].evidence =>
             sinceFire[synapses[i].from] <= Window /\ synapses[i].to \in FiringNow
    BY <1>1, SensedIsSound
  <2> HIDE DEF t
  <2>3. QED
    BY <2>1, <2>2
<1>4. CASE ~Tick
  <2>1. synapses'[i].evidence = synapses[i].evidence
    BY <1>4, SynapsesKept
  <2>2. QED
    BY <1>2, <2>1
<1>5. QED
  BY <1>3, <1>4

\* The evidence of a synapse is about firing times alone, dormant or live: it falls only if its
\* first neuron has been silent for more than the window, and rises only if the second one fires
\* within the window of the first, whatever train, addsynapse and ticks come in between.
THEOREM EvidenceIsEarned == NetSpec => EvidenceMatchesFirings
<1>1. SynapseInv /\ [NetNext]_netVars => SynapseInv'
  BY SynapsesKept
<1>2. SynapseInv /\ [NetNext]_netVars =>
        [\A i \in DOMAIN synapses :
           LET old == synapses[i]
               new == synapses'[i]
           IN /\ new.evidence < old.evidence => sinceFire[old.from] > Window
              /\ new.evidence > old.evidence =>
                   sinceFire[old.from] <= Window /\ old.to \in FiringNow]_netVars
  BY EvidenceStep
<1>3. QED
  BY <1>1, <1>2, SynapsesAtFirst, PTL DEF NetSpec, EvidenceMatchesFirings

\* What the doubts of a synapse say of its evidence: none, and it is on the gate's side of the
\* band; one, and it is not beyond the band on the other.
GateDoubts(s, d) ==
    /\ d = 0 => BackedUp(s)
    /\ d = 1 => IF s.gate THEN s.evidence >= GateOff ELSE s.evidence <= GateOn

GateInv ==
    /\ doubts \in Seq(0..2) /\ Len(doubts) = Len(synapses)
    /\ \A i \in 1..Len(synapses) : GateDoubts(synapses[i], doubts[i])

\* The doubts d of synapse s when its next state t is counted.
DoubtsOf(s, t, d) ==
    d + (IF (s.gate /\ t.evidence < s.evidence) \/ (~s.gate /\ t.evidence > s.evidence) THEN 1 ELSE 0)

\* One tick of one synapse.
LEMMA OneVerdict ==
    ASSUME NEW s \in SynapseRecords, NEW t \in SynapseRecords, NEW d \in 0..2, GateDoubts(s, d),
           t.evidence < s.evidence => t.evidence = UpdatedEvidence(s.evidence, FALSE),
           t.evidence > s.evidence => t.evidence = UpdatedEvidence(s.evidence, TRUE),
           s.gate /\ ~t.gate => t.evidence < GateOff,
           ~s.gate /\ t.gate => t.evidence > GateOn
    PROVE  LET later == IF BackedUp(t) THEN 0 ELSE Smaller(DoubtsOf(s, t, d), 2)
           IN /\ t.gate # s.gate => DoubtsOf(s, t, d) >= 2
              /\ later \in 0..2 /\ GateDoubts(t, later)
<1> DEFINE a == s.evidence
           b == t.evidence
           down == UpdatedEvidence(a, FALSE)
           up == UpdatedEvidence(a, TRUE)
<1>1. /\ a \in 0..EvidenceOne /\ b \in 0..EvidenceOne /\ s.gate \in BOOLEAN /\ t.gate \in BOOLEAN
      /\ EvidenceOne \in Nat /\ GateOn \in 0..EvidenceOne /\ GateOff \in 0..GateOn
  BY NetNumbers DEF SynapseRecords
<1>2. (a < GateOff => up <= GateOn) /\ (a > GateOn => down >= GateOff)
  BY <1>1, BandAssumption
<1>3. (b < a => b = down) /\ (b > a => b = up)
  OBVIOUS
<1> HIDE DEF a, b, down, up
<1>4. CASE s.gate
  <2>1. /\ d = 0 => a > GateOn
        /\ d = 1 => a >= GateOff
        /\ DoubtsOf(s, t, d) = IF b < a THEN d + 1 ELSE d
    BY <1>4 DEF GateDoubts, BackedUp, DoubtsOf, a, b
  <2>2. CASE t.gate
    <3>1. BackedUp(t) <=> b > GateOn
      BY <2>2 DEF BackedUp, b
    <3>2. ASSUME NEW e \in 0..2, e = 0 => b > GateOn, e = 1 => b >= GateOff PROVE GateDoubts(t, e)
      BY <2>2, <3>1, <3>2 DEF GateDoubts, b
    <3> DEFINE x == DoubtsOf(s, t, d)
               later == IF BackedUp(t) THEN 0 ELSE Smaller(x, 2)
    <3>3. x \in 0..3 /\ (x = 0 => b > GateOn) /\ (x = 1 => b >= GateOff)
      BY <1>1, <1>2, <1>3, <2>1
    <3> HIDE DEF x
    <3>4. later \in 0..2 /\ (later = 0 => b > GateOn) /\ (later = 1 => b >= GateOff)
      <4>1. CASE BackedUp(t)
        BY <3>1, <4>1
      <4>2. CASE ~BackedUp(t)
        <5>1. later = IF x < 2 THEN x ELSE 2
          BY <4>2 DEF Smaller
        <5>2. x # 0
          BY <3>1, <3>3, <4>2
        <5> HIDE DEF later
        <5>3. QED
          BY <3>3, <5>1, <5>2
      <4>3. QED
        BY <4>1, <4>2
    <3> HIDE DEF later
    <3>5. GateDoubts(t, later) /\ t.gate = s.gate
      BY <1>4, <1>1, <2>2, <3>2, <3>4
    <3>6. QED
      BY <3>4, <3>5 DEF later, x
  <2>3. CASE ~t.gate
    <3>1. b < GateOff /\ BackedUp(t)
      BY <1>4, <2>3 DEF BackedUp, b
    <3>2. DoubtsOf(s, t, d) >= 2
      BY <1>1, <1>2, <1>3, <2>1, <3>1
    <3>3. QED
      BY <3>1, <3>2 DEF GateDoubts
  <2>4. QED
    BY <2>2, <2>3
<1>5. CASE ~s.gate
  <2>1. /\ d = 0 => a < GateOff
        /\ d = 1 => a <= GateOn
        /\ DoubtsOf(s, t, d) = IF b > a THEN d + 1 ELSE d
    BY <1>5 DEF GateDoubts, BackedUp, DoubtsOf, a, b
  <2>2. CASE ~t.gate
    <3>1. BackedUp(t) <=> b < GateOff
      BY <2>2 DEF BackedUp, b
    <3>2. ASSUME NEW e \in 0..2, e = 0 => b < GateOff, e = 1 => b <= GateOn PROVE GateDoubts(t, e)
      BY <2>2, <3>1, <3>2 DEF GateDoubts, b
    <3> DEFINE x == DoubtsOf(s, t, d)
               later == IF BackedUp(t) THEN 0 ELSE Smaller(x, 2)
    <3>3. x \in 0..3 /\ (x = 0 => b < GateOff) /\ (x = 1 => b <= GateOn)
      BY <1>1, <1>2, <1>3, <2>1
    <3> HIDE DEF x
    <3>4. later \in 0..2 /\ (later = 0 => b < GateOff) /\ (later = 1 => b <= GateOn)
      <4>1. CASE BackedUp(t)
        BY <3>1, <4>1
      <4>2. CASE ~BackedUp(t)
        <5>1. later = IF x < 2 THEN x ELSE 2
          BY <4>2 DEF Smaller
        <5>2. x # 0
          BY <3>1, <3>3, <4>2
        <5> HIDE DEF later
        <5>3. QED
          BY <3>3, <5>1, <5>2
      <4>3. QED
        BY <4>1, <4>2
    <3> HIDE DEF later
    <3>5. GateDoubts(t, later) /\ t.gate = s.gate
      BY <1>5, <1>1, <2>2, <3>2, <3>4
    <3>6. QED
      BY <3>4, <3>5 DEF later, x
  <2>3. CASE t.gate
    <3>1. b > GateOn /\ BackedUp(t)
      BY <1>5, <2>3 DEF BackedUp, b
    <3>2. DoubtsOf(s, t, d) >= 2
      BY <1>1, <1>2, <1>3, <2>1, <3>1
    <3>3. QED
      BY <3>1, <3>2 DEF GateDoubts
  <2>4. QED
    BY <2>2, <2>3
<1>6. QED
  BY <1>1, <1>4, <1>5

\* A synapse that has just been made has no doubts.
LEMMA NewIsBackedUp ==
    ASSUME NEW s, s.gate, s.evidence = EvidenceOne
    PROVE  BackedUp(s) /\ GateDoubts(s, 0)
BY BandAssumption DEF BackedUp, GateDoubts

LEMMA GatesAtFirst == NetInit => GateInv
<1> SUFFICES ASSUME NetInit PROVE GateInv
  OBVIOUS
<1> DEFINE n == Cardinality(Keys)
<1>1. n \in Nat
  BY NetworkAssumption, FS_CardinalityType
<1>2. PICK order \in [1..n -> Keys] :
        \E weight \in [DOMAIN order -> Weights \cup {InitialWeight}] :
          synapses = [i \in DOMAIN order |-> NewSynapse(order[i], Motor, weight[i])]
  BY DEF NetInit
<1>3. PICK weight \in [1..n -> Weights \cup {InitialWeight}] :
        synapses = [i \in 1..n |-> NewSynapse(order[i], Motor, weight[i])]
  BY <1>2
<1>4. doubts = [i \in 1..n |-> 0] /\ DOMAIN synapses = 1..n
  BY <1>3 DEF NetInit
<1> HIDE DEF n
<1>5. doubts \in Seq(0..2) /\ Len(doubts) = n
  BY <1>1, <1>4
<1>6. Len(synapses) = n
  <2>1. \A i \in 1..n : NewSynapse(order[i], Motor, weight[i]) \in SynapseRecords
    BY NetNumbers DEF NewSynapse, SynapseRecords, NeuronNames
  <2>2. synapses \in [1..n -> SynapseRecords]
    BY <1>3, <2>1
  <2>3. QED
    BY <1>1, <2>2
<1>7. \A i \in 1..n : GateDoubts(synapses[i], doubts[i])
  <2> TAKE i \in 1..n
  <2>1. synapses[i].gate /\ synapses[i].evidence = EvidenceOne
    BY <1>3 DEF NewSynapse
  <2>2. QED
    BY <1>4, <2>1, NewIsBackedUp
<1>8. QED
  BY <1>5, <1>6, <1>7 DEF GateInv

\* What a tick does to gates and doubts.
LEMMA TickKeepsGates ==
    ASSUME SynapseInv, GateInv, Tick
    PROVE  /\ GateInv'
           /\ \A i \in DOMAIN synapses : synapses'[i].gate # synapses[i].gate => DoubtsNow(i) >= 2
<1> DEFINE n == Len(synapses)
<1>1. n \in Nat /\ DOMAIN synapses = 1..n
  BY DEF SynapseInv
<1>2. synapses' \in Seq(SynapseRecords) /\ Len(synapses') = n
  BY TickSynapses
<1>3. ASSUME NEW i \in 1..n
      PROVE  DoubtsNow(i) = DoubtsOf(synapses[i], synapses'[i], doubts[i])
  BY DEF DoubtsNow, DoubtsOf
<1>4. doubts' = [i \in 1..n |->
                   IF BackedUp(synapses'[i]) THEN 0 ELSE Smaller(DoubtsNow(i), 2)]
  BY <1>1 DEF Tick
<1>5. ASSUME NEW i \in 1..n
      PROVE  LET s == synapses[i]
                 t == synapses'[i]
                 later == IF BackedUp(t) THEN 0 ELSE Smaller(DoubtsOf(s, t, doubts[i]), 2)
             IN /\ t.gate # s.gate => DoubtsOf(s, t, doubts[i]) >= 2
                /\ later \in 0..2 /\ GateDoubts(t, later)
  <2>1. /\ synapses[i] \in SynapseRecords /\ synapses'[i] \in SynapseRecords
        /\ doubts[i] \in 0..2 /\ GateDoubts(synapses[i], doubts[i])
    BY <1>1, <1>2 DEF SynapseInv, GateInv
  <2>2. /\ synapses'[i].evidence = Sensed(synapses[i], FiringNow).evidence
        /\ synapses[i].gate /\ ~synapses'[i].gate => synapses'[i].evidence < GateOff
        /\ ~synapses[i].gate /\ synapses'[i].gate => synapses'[i].evidence > GateOn
    BY TickSynapses
  <2>3. /\ synapses'[i].evidence < synapses[i].evidence =>
             synapses'[i].evidence = UpdatedEvidence(synapses[i].evidence, FALSE)
        /\ synapses'[i].evidence > synapses[i].evidence =>
             synapses'[i].evidence = UpdatedEvidence(synapses[i].evidence, TRUE)
    BY <2>1, <2>2, SensedMoves
  <2>4. QED
    BY <2>1, <2>2, <2>3, OneVerdict
<1>6. ASSUME NEW i \in 1..n PROVE doubts'[i] \in 0..2 /\ GateDoubts(synapses'[i], doubts'[i])
  BY <1>3, <1>4, <1>5
<1>7. doubts' \in Seq(0..2) /\ Len(doubts') = n
  <2>1. doubts' \in [1..n -> 0..2]
    <3>1. doubts' = [i \in 1..n |-> doubts'[i]]
      BY <1>4
    <3>2. QED
      BY <1>6, <3>1
  <2> HIDE DEF n
  <2>2. QED
    BY <1>1, <2>1
<1>8. GateInv'
  <2>1. \A i \in 1..n : GateDoubts(synapses'[i], doubts'[i])
    BY <1>6
  <2>2. (\A i \in 1..Len(synapses) : GateDoubts(synapses[i], doubts[i]))'
    BY <1>2, <2>1 DEF GateDoubts, BackedUp
  <2>3. QED
    BY <1>2, <1>7, <2>2 DEF GateInv
<1>9. QED
  BY <1>1, <1>3, <1>5, <1>8

LEMMA AddSynapseKeepsGates ==
    ASSUME SynapseInv, GateInv, NEW from \in NeuronNames, NEW to \in NeuronNames, NEW w \in Weights,
           AddSynapse(from, to, w)
    PROVE  GateInv'
<1> DEFINE n == Len(synapses)
<1>1. /\ n \in Nat /\ Len(synapses') = n + 1 /\ doubts' = Append(doubts, 0)
      /\ \A i \in 1..n : synapses'[i] = synapses[i]
      /\ synapses'[n + 1].gate /\ synapses'[n + 1].evidence = EvidenceOne
  BY AddSynapseKeepsSynapses DEF SynapseInv, AddSynapse
<1>2. doubts \in Seq(0..2) /\ Len(doubts) = n /\ \A i \in 1..n : GateDoubts(synapses[i], doubts[i])
  BY DEF GateInv
<1> HIDE DEF n
<1>3. /\ doubts' \in Seq(0..2) /\ Len(doubts') = n + 1 /\ doubts'[n + 1] = 0
      /\ \A i \in 1..n : doubts'[i] = doubts[i]
  BY <1>1, <1>2
<1>4. GateDoubts(synapses'[n + 1], doubts'[n + 1])
  BY <1>1, <1>3, NewIsBackedUp
<1>5. ASSUME NEW i \in 1..n + 1 PROVE GateDoubts(synapses'[i], doubts'[i])
  BY <1>1, <1>2, <1>3, <1>4
<1>6. (\A i \in 1..Len(synapses) : GateDoubts(synapses[i], doubts[i]))'
  BY <1>1, <1>5 DEF GateDoubts, BackedUp
<1>7. QED
  BY <1>1, <1>3, <1>6 DEF GateInv

\* Synapses whose evidence and gate stay.
LEMMA GatesStay ==
    ASSUME SynapseInv, GateInv, doubts' = doubts, Len(synapses') = Len(synapses),
           \A i \in 1..Len(synapses) :
             synapses'[i].evidence = synapses[i].evidence /\ synapses'[i].gate = synapses[i].gate
    PROVE  GateInv'
BY DEF SynapseInv, GateInv, GateDoubts, BackedUp

LEMMA GatesKept ==
    ASSUME SynapseInv, GateInv, [NetNext]_netVars
    PROVE  /\ GateInv'
           /\ \A i \in DOMAIN synapses : synapses'[i].gate # synapses[i].gate => DoubtsNow(i) >= 2
<1>0. DOMAIN synapses = 1..Len(synapses)
  BY DEF SynapseInv
<1>1. CASE Tick
  BY <1>1, TickKeepsGates
<1>2. CASE UNCHANGED <<synapses, doubts>>
  BY <1>2, GatesStay
<1>3. ASSUME NEW n, AddNeuron(n) PROVE UNCHANGED <<synapses, doubts>>
  BY <1>3 DEF AddNeuron
<1>4. ASSUME NEW n, NEW a, Stimulate(n, a) PROVE UNCHANGED <<synapses, doubts>>
  BY <1>4 DEF Stimulate
<1>5. ASSUME NEW from \in NeuronNames, NEW to \in NeuronNames, NEW w \in Weights,
             AddSynapse(from, to, w)
      PROVE  GateInv' /\ \A i \in DOMAIN synapses : synapses'[i].gate = synapses[i].gate
  BY <1>5, <1>0, AddSynapseKeepsSynapses, AddSynapseKeepsGates
<1>6. ASSUME NEW from \in NeuronNames, NEW to \in NeuronNames, NEW gap \in Gaps,
             NEW pre \in BOOLEAN, TrainSynapse(from, to, gap, pre)
      PROVE  GateInv' /\ \A i \in DOMAIN synapses : synapses'[i].gate = synapses[i].gate
  <2>1. doubts' = doubts
    BY <1>6 DEF TrainSynapse
  <2>2. QED
    BY <1>0, <1>6, <2>1, TrainKeepsSynapses, GatesStay
<1>7. ASSUME ShellBeep \/ ShellSilence PROVE UNCHANGED <<synapses, doubts>>
  BY <1>7 DEF ShellBeep, ShellSilence
<1>8. ASSUME UNCHANGED netVars PROVE UNCHANGED <<synapses, doubts>>
  BY <1>8 DEF netVars
<1>9. QED
  BY <1>1, <1>2, <1>3, <1>4, <1>5, <1>6, <1>7, <1>8 DEF NetNext

\* A gate never moves on the strength of one hit or miss: the evidence has turned against it at
\* least twice since it last was on the gate's own side of the hysteresis band, for every network,
\* window and period of the slow clock whose band no single verdict crosses.
THEOREM GatesAreSteady == NetSpec => GatesDoNotFlap
<1>1. SynapseInv /\ GateInv /\ [NetNext]_netVars => SynapseInv' /\ GateInv'
  BY SynapsesKept, GatesKept
<1>2. SynapseInv /\ GateInv /\ [NetNext]_netVars =>
        [\A i \in DOMAIN synapses :
           synapses'[i].gate # synapses[i].gate => DoubtsNow(i) >= 2]_netVars
  BY GatesKept
<1>3. QED
  BY <1>1, <1>2, SynapsesAtFirst, GatesAtFirst, PTL DEF NetSpec, GatesDoNotFlap


-----------------------------------------------------------------------------
(* The mouse.                                                              *)

MouseRecords == [x : Int, y : Int, left : BOOLEAN, right : BOOLEAN]

MouseTypes ==
    /\ sending \in Packets /\ sendPhase \in 0 .. 2
    /\ packet \in [0 .. 2 -> 0 .. 255] /\ packetIndex \in 0 .. 2
    /\ mouse \in MouseRecords /\ calm \in 0 .. 7

\* Out of step, the driver finds the packet boundary after four calm bytes at most: how many it has
\* seen bounds how far it is from it.
FindsTheBoundary ==
    /\ packetIndex = 1 /\ sendPhase = 2 => calm = 0
    /\ packetIndex = 1 /\ sendPhase = 0 => calm <= 1
    /\ packetIndex = 2 /\ sendPhase = 0 => calm <= 1
    /\ packetIndex = 2 /\ sendPhase = 1 => calm <= 2
    /\ packetIndex = 0 /\ sendPhase = 1 => calm <= 2
    /\ packetIndex = 0 /\ sendPhase = 2 => calm <= 3

\* In step, the bytes of this packet that came in are where they belong.
HasWhatWasSent ==
    packetIndex = sendPhase /\ calm >= sendPhase =>
      \A i \in 0 .. 2 : i < sendPhase => packet[i] = PacketByte(sending, i)

MouseInv == MouseTypes /\ FindsTheBoundary /\ HasWhatWasSent /\ PenFollowsMouse

\* What the driver finds in the bytes of a packet.
LEMMA BytesCarryThePacket ==
    ASSUME NEW p \in Packets
    PROVE  /\ \A i \in 0 .. 2 : PacketByte(p, i) \in 0 .. 255
           /\ Bit(PacketByte(p, 0), 8)
           /\ Bit(PacketByte(p, 0), 1) = p.left /\ Bit(PacketByte(p, 0), 2) = p.right
           /\ Bit(PacketByte(p, 0), 16) = (p.dx < 0) /\ Bit(PacketByte(p, 0), 32) = (p.dy < 0)
           /\ PacketByte(p, 1) = p.dx % 256 /\ PacketByte(p, 2) = p.dy % 256
<1> DEFINE l == IF p.left THEN 1 ELSE 0
           r == IF p.right THEN 2 ELSE 0
           x == IF p.dx < 0 THEN 16 ELSE 0
           y == IF p.dy < 0 THEN 32 ELSE 0
           b == l + r + 8 + x + y
<1>1. /\ p.left \in BOOLEAN /\ p.right \in BOOLEAN
      /\ p.dx \in -255 .. 255 /\ p.dy \in -255 .. 255
  BY MouseAssumption
<1>2. PacketByte(p, 0) = b /\ PacketByte(p, 1) = p.dx % 256 /\ PacketByte(p, 2) = p.dy % 256
  BY DEF PacketByte
<1>3. /\ l \in {0, 1} /\ (l = 1) = p.left
      /\ r \in {0, 2} /\ (r = 2) = p.right
      /\ x \in {0, 16} /\ (x = 16) = (p.dx < 0)
      /\ y \in {0, 32} /\ (y = 32) = (p.dy < 0)
  BY <1>1
<1> HIDE DEF l, r, x, y
<1>4. /\ b \in 0 .. 255 /\ Bit(b, 8) /\ Bit(b, 1) = (l = 1) /\ Bit(b, 2) = (r = 2)
      /\ Bit(b, 16) = (x = 16) /\ Bit(b, 32) = (y = 32)
  BY <1>3 DEF Bit
<1> HIDE DEF b
<1>5. \A i \in 0 .. 2 : PacketByte(p, i) \in 0 .. 255
  BY <1>1, <1>2, <1>4
<1>6. QED
  BY <1>2, <1>3, <1>4, <1>5

LEMMA PacketDecoded ==
    ASSUME MouseTypes, NEW p \in Packets, NEW bytes \in [0 .. 2 -> 0 .. 255],
           \A i \in 0 .. 2 : bytes[i] = PacketByte(p, i)
    PROVE  MouseAfter(bytes) = [x |-> mouse.x + p.dx, y |-> mouse.y - p.dy,
                                left |-> p.left, right |-> p.right]
<1>1. p.dx \in -255 .. 255 /\ p.dy \in -255 .. 255
  BY MouseAssumption
<1>2. /\ Bit(bytes[0], 16) = (p.dx < 0) /\ bytes[1] = p.dx % 256
      /\ Bit(bytes[0], 32) = (p.dy < 0) /\ bytes[2] = p.dy % 256
      /\ Bit(bytes[0], 1) = p.left /\ Bit(bytes[0], 2) = p.right
  BY BytesCarryThePacket
<1>3. /\ SignedMove(bytes, 1) = (IF Bit(bytes[0], 16) THEN bytes[1] - 256 ELSE bytes[1])
      /\ SignedMove(bytes, 2) = (IF Bit(bytes[0], 32) THEN bytes[2] - 256 ELSE bytes[2])
  <2>1. 16 * 1 = 16 /\ 16 * 2 = 32
    OBVIOUS
  <2>2. QED
    BY <2>1 DEF SignedMove
<1>4. SignedMove(bytes, 1) = p.dx /\ SignedMove(bytes, 2) = p.dy
  <2>1. \A d \in -255 .. 255 : (d < 0 => (d % 256) - 256 = d) /\ (~(d < 0) => d % 256 = d)
    OBVIOUS
  <2>2. SignedMove(bytes, 1) = p.dx
    <3>1. CASE p.dx < 0
      <4>1. SignedMove(bytes, 1) = bytes[1] - 256
        BY <1>2, <1>3, <3>1, Zenon
      <4>2. QED
        BY <1>1, <1>2, <2>1, <3>1, <4>1
    <3>2. CASE ~(p.dx < 0)
      <4>1. SignedMove(bytes, 1) = bytes[1]
        BY <1>2, <1>3, <3>2, Zenon
      <4>2. QED
        BY <1>1, <1>2, <2>1, <3>2, <4>1
    <3>3. QED
      BY <3>1, <3>2
  <2>3. SignedMove(bytes, 2) = p.dy
    <3>1. CASE p.dy < 0
      <4>1. SignedMove(bytes, 2) = bytes[2] - 256
        BY <1>2, <1>3, <3>1, Zenon
      <4>2. QED
        BY <1>1, <1>2, <2>1, <3>1, <4>1
    <3>2. CASE ~(p.dy < 0)
      <4>1. SignedMove(bytes, 2) = bytes[2]
        BY <1>2, <1>3, <3>2, Zenon
      <4>2. QED
        BY <1>1, <1>2, <2>1, <3>2, <4>1
    <3>3. QED
      BY <3>1, <3>2
  <2>4. QED
    BY <2>2, <2>3
<1>5. QED
  BY <1>2, <1>4 DEF MouseAfter

\* A step of the mouse: which byte it sends, and of which packet.
LEMMA SendsAByte ==
    ASSUME MouseTypes, Sends
    PROVE  /\ sending' \in Packets /\ sendPhase' \in 0 .. 2
           /\ sendPhase < 2 => sendPhase' = sendPhase + 1
           /\ sendPhase = 2 => sendPhase' = 0
           /\ sendPhase # 0 => sending' = sending
           /\ PacketByte(sending', sendPhase) \in 0 .. 255
           /\ sendPhase = 0 => Bit(PacketByte(sending', sendPhase), 8)
<1>1. /\ sending' \in Packets /\ (sendPhase # 0 => sending' = sending)
      /\ sendPhase' = (sendPhase + 1) % 3
  BY DEF Sends, MouseTypes
<1>2. /\ sendPhase' \in 0 .. 2 /\ (sendPhase < 2 => sendPhase' = sendPhase + 1)
      /\ sendPhase = 2 => sendPhase' = 0
  BY <1>1 DEF MouseTypes
<1>3. QED
  BY <1>1, <1>2, BytesCarryThePacket DEF MouseTypes

LEMMA LossKeeps ==
    ASSUME MouseInv, ByteLost
    PROVE  MouseInv'
<1>1. /\ calm' = 0 /\ UNCHANGED <<packet, packetIndex, mouse, drawing, drawLast>> /\ Sends
  BY DEF ByteLost
<1>2. MouseTypes'
  BY <1>1, SendsAByte DEF MouseInv, MouseTypes
<1>3. FindsTheBoundary'
  BY <1>1 DEF FindsTheBoundary
<1>4. HasWhatWasSent'
  BY <1>1, <1>2 DEF HasWhatWasSent, MouseTypes
<1>5. PenFollowsMouse'
  BY <1>1 DEF MouseInv, PenFollowsMouse, OnScreen, Clamped
<1>6. QED
  BY <1>2, <1>3, <1>4, <1>5 DEF MouseInv

\* The pen, where a packet has just moved the mouse.
LEMMA PenAfterAPacket ==
    ASSUME PenFollowsMouse, HandleDrawMode(mouse')
    PROVE  PenFollowsMouse'
<1>1. CASE ~drawing
  BY <1>1 DEF HandleDrawMode, PenFollowsMouse
<1>2. CASE drawing /\ drawLast' = <<>>
  BY <1>2 DEF PenFollowsMouse
<1>3. CASE drawing /\ drawing' = drawing /\ Pen(mouse')
  <2>1. CASE mouse'.left
    <3>1. drawLast' = OnScreen(mouse')
      BY <1>3, <2>1 DEF Pen
    <3>2. OnScreen(mouse') = OnScreen(mouse)'
      BY DEF OnScreen, Clamped
    <3>3. QED
      BY <1>3, <2>1, <3>1, <3>2 DEF PenFollowsMouse
  <2>2. CASE ~mouse'.left
    BY <1>3, <2>2 DEF Pen, PenFollowsMouse
  <2>3. QED
    BY <2>1, <2>2
<1>4. QED
  BY <1>1, <1>2, <1>3 DEF HandleDrawMode

LEMMA ByteKeeps ==
    ASSUME MouseInv, ByteRead
    PROVE  /\ MouseInv'
           /\ calm' = 7 /\ sendPhase = 2 =>
                /\ packetIndex' = 0
                /\ mouse' = [x |-> mouse.x + sending.dx, y |-> mouse.y - sending.dy,
                             left |-> sending.left, right |-> sending.right]
<1> DEFINE byte == PacketByte(sending', sendPhase)
           bytes == [packet EXCEPT ![packetIndex] = byte]
           misleads == sendPhase # 0 /\ Bit(byte, 8)
<1>1. /\ Sends
      /\ calm' = IF misleads THEN 0 ELSE IF calm = 7 THEN 7 ELSE calm + 1
      /\ \/ /\ ~InStep(byte) /\ UNCHANGED <<packet, packetIndex, mouse, drawing, drawLast>>
         \/ /\ InStep(byte) /\ packet' = bytes /\ packetIndex' = (packetIndex + 1) % 3
            /\ \/ packetIndex = 2 /\ mouse' = MouseAfter(bytes) /\ HandleDrawMode(mouse')
               \/ packetIndex # 2 /\ UNCHANGED <<mouse, drawing, drawLast>>
  BY DEF ByteRead
<1>2. /\ sending' \in Packets /\ sendPhase' \in 0 .. 2
      /\ sendPhase < 2 => sendPhase' = sendPhase + 1
      /\ sendPhase = 2 => sendPhase' = 0
      /\ sendPhase # 0 => sending' = sending
      /\ byte \in 0 .. 255 /\ (sendPhase = 0 => Bit(byte, 8))
  BY <1>1, SendsAByte DEF MouseInv
<1> HIDE DEF byte
<1>3. bytes \in [0 .. 2 -> 0 .. 255]
  BY <1>2 DEF MouseInv, MouseTypes
<1>4. /\ sendPhase \in 0 .. 2 /\ packetIndex \in 0 .. 2 /\ calm \in 0 .. 7
      /\ packet \in [0 .. 2 -> 0 .. 255] /\ mouse \in MouseRecords
  BY DEF MouseInv, MouseTypes
<1>5. /\ InStep(byte) =>
           /\ packet' = bytes /\ (packetIndex < 2 => packetIndex' = packetIndex + 1)
           /\ packetIndex = 2 => packetIndex' = 0
      /\ ~InStep(byte) => packet' = packet /\ packetIndex' = packetIndex
  BY <1>1, <1>4
<1>6. /\ InStep(byte) <=> packetIndex # 0 \/ Bit(byte, 8)
      /\ misleads => calm' = 0
      /\ ~misleads => calm' \in 0 .. 7 /\ calm' <= calm + 1 /\ (calm' = 7 => calm >= 6)
  BY <1>1, <1>4 DEF InStep
<1>7. MouseAfter(bytes) \in MouseRecords
  <2>1. /\ SignedMove(bytes, 1) \in Int /\ SignedMove(bytes, 2) \in Int
        /\ Bit(bytes[0], 1) \in BOOLEAN /\ Bit(bytes[0], 2) \in BOOLEAN
    BY <1>3 DEF SignedMove, Bit
  <2>2. QED
    BY <1>4, <2>1 DEF MouseAfter, MouseRecords
<1>8. MouseTypes'
  BY <1>1, <1>2, <1>3, <1>4, <1>5, <1>6, <1>7 DEF MouseTypes
<1>9. FindsTheBoundary'
  BY <1>2, <1>4, <1>5, <1>6 DEF MouseInv, FindsTheBoundary
<1>10. HasWhatWasSent'
  <2>1. SUFFICES ASSUME packetIndex' = sendPhase', calm' >= sendPhase',
                        NEW i \in 0 .. 2, i < sendPhase'
                 PROVE  packet'[i] = PacketByte(sending', i)
    BY DEF HasWhatWasSent
  <2>2. /\ sendPhase < 2 /\ sendPhase' = sendPhase + 1 /\ packetIndex' # 0
    BY <1>2, <1>4, <2>1
  <2>3. CASE InStep(byte)
    <3>1. packetIndex = sendPhase /\ packet' = bytes /\ calm >= sendPhase
      BY <1>4, <1>5, <1>6, <2>1, <2>2, <2>3
    <3>2. CASE i = sendPhase
      BY <1>4, <3>1, <3>2 DEF byte
    <3>3. CASE i < sendPhase
      <4>1. packet[i] = PacketByte(sending, i)
        BY <3>1, <3>3 DEF MouseInv, HasWhatWasSent
      <4>2. QED
        BY <1>2, <1>4, <3>1, <3>3, <4>1
    <3>4. QED
      BY <1>4, <2>1, <2>2, <3>2, <3>3
  <2>4. CASE ~InStep(byte)
    BY <1>5, <1>6, <2>2, <2>4
  <2>5. QED
    BY <2>3, <2>4
<1>11. PenFollowsMouse'
  <2>1. CASE UNCHANGED <<mouse, drawing, drawLast>>
    BY <2>1 DEF MouseInv, PenFollowsMouse, OnScreen, Clamped
  <2>2. QED
    BY <1>1, <2>1, PenAfterAPacket DEF MouseInv
<1>12. ASSUME calm' = 7, sendPhase = 2
       PROVE  /\ packetIndex' = 0
              /\ mouse' = [x |-> mouse.x + sending.dx, y |-> mouse.y - sending.dy,
                           left |-> sending.left, right |-> sending.right]
  <2>1. calm >= 6
    BY <1>6, <1>12
  <2>2. packetIndex = 2
    BY <1>4, <1>12, <2>1 DEF MouseInv, FindsTheBoundary
  <2>3. \A i \in 0 .. 2 : i < 2 => packet[i] = PacketByte(sending, i)
    <3>1. calm >= sendPhase /\ packetIndex = sendPhase
      BY <1>4, <1>12, <2>1, <2>2
    <3>2. QED
      BY <1>12, <3>1 DEF MouseInv, HasWhatWasSent
  <2>4. sending' = sending /\ byte = PacketByte(sending, 2)
    BY <1>2, <1>12 DEF byte
  <2>5. \A i \in 0 .. 2 : bytes[i] = PacketByte(sending, i)
    BY <1>4, <2>2, <2>3, <2>4
  <2>6. mouse' = MouseAfter(bytes) /\ packetIndex' = 0
    BY <1>1, <1>5, <1>6, <2>2
  <2> HIDE DEF bytes
  <2>7. QED
    BY <1>3, <2>5, <2>6, PacketDecoded DEF MouseInv, MouseTypes
<1>13. QED
  BY <1>8, <1>9, <1>10, <1>11, <1>12 DEF MouseInv

LEMMA MouseKept ==
    ASSUME MouseInv, [MouseNext]_mouseVars
    PROVE  MouseInv'
<1>1. ASSUME EnterDrawMode \/ ExitDrawMode PROVE MouseInv'
  <2>1. drawLast' = <<>> /\ UNCHANGED <<sending, sendPhase, packet, packetIndex, mouse, calm>>
    BY <1>1 DEF EnterDrawMode, ExitDrawMode
  <2>2. PenFollowsMouse'
    BY <2>1 DEF PenFollowsMouse
  <2>3. QED
    BY <2>1, <2>2 DEF MouseInv, MouseTypes, FindsTheBoundary, HasWhatWasSent
<1>2. CASE UNCHANGED mouseVars
  <2>1. OnScreen(mouse)' = OnScreen(mouse)
    BY <1>2 DEF mouseVars, OnScreen, Clamped
  <2>2. QED
    BY <1>2, <2>1 DEF mouseVars, MouseInv, MouseTypes, FindsTheBoundary, HasWhatWasSent,
           PenFollowsMouse
<1>3. QED
  BY <1>1, <1>2, ByteKeeps, LossKeeps DEF MouseNext

LEMMA MouseAtFirst == MouseInit => MouseInv
BY DEF MouseInit, MouseInv, MouseTypes, FindsTheBoundary, HasWhatWasSent, PenFollowsMouse,
       MouseRecords, Still

\* A drawn line starts only where the packet before left the pointer, with the left button held and
\* in the same drawing session.
THEOREM PenIsWithTheMouse == MouseSpec => []PenFollowsMouse
<1>1. MouseInv => PenFollowsMouse
  BY DEF MouseInv
<1>2. QED
  BY <1>1, MouseAtFirst, MouseKept, PTL DEF MouseSpec

\* Wherever bytes are lost, and however many: a packet that ends the seventh calm byte in a row is
\* read as it was sent.
THEOREM MouseResyncs == MouseSpec => DecodesWhatWasSent
<1>1. MouseInv =>
        ((ByteRead /\ calm' = 7 /\ sendPhase = 2) =>
           /\ packetIndex' = 0
           /\ mouse' = [x |-> mouse.x + sending.dx, y |-> mouse.y - sending.dy,
                        left |-> sending.left, right |-> sending.right])
  BY ByteKeeps
<1>2. QED
  BY <1>1, MouseAtFirst, MouseKept, PTL DEF MouseSpec, DecodesWhatWasSent


-----------------------------------------------------------------------------
(* The clock.  A pass of now() may read the seconds before an update and   *)
(* the hours after it.  Why two equal passes are never both torn: the      *)
(* times shown form an unbroken stretch that ends at the present one, so   *)
(* if an hour was seen and left again, all its later seconds were shown.   *)

Seconds == 0 .. SecondRadix - 1
Hours == 0 .. 23

ClockTypes ==
    /\ time \in Seconds \X Hours /\ shown \in SUBSET (Seconds \X Hours)
    /\ updating \in 0 .. 2
    /\ reader \in {"idle", "waiting", "reading", "done"}
    /\ readNow = <<>> \/ \E a \in Seconds : readNow = <<a>>
    /\ readLast = <<>> \/ \E a \in Seconds, h \in Hours : readLast = <<a, HourRegister(h)>>

\* The register below the hours is the clock's; that of the hours may be one hour late, until the
\* update is over and only where the other has just rolled over.
Registers ==
    /\ registers = <<registers[1], registers[2]>> /\ registers[1] = time[1]
    /\ \/ registers[2] = HourRegister(time[2])
       \/ /\ updating = 2 /\ time[1] = 0
          /\ \E h \in Hours : h # time[2] /\ registers[2] = HourRegister(h)

\* From a time shown to the end of its hour or to the present every second was shown.
Unbroken ==
    reader \in {"waiting", "reading"} =>
      /\ time \in shown
      /\ \A h \in Hours, x, y \in Seconds :
           <<x, h>> \in shown /\ x <= y =>
             <<y, h>> \in shown \/ (time[2] = h /\ time[1] < y)

\* Once both registers have been read, and until the same second is read again: the second was
\* shown in the hour read, or the hour had just ended and has not come again.
ReadOnce(a, h) ==
    \/ <<a, h>> \in shown \/ <<0, h>> \in shown
    \/ /\ a = 0 /\ time[2] # h
       /\ registers[2] # HourRegister(h) \/ (updating = 2 /\ reader = "waiting")

\* Once the second has been read again.
ReadAgain(a, h) ==
    <<a, h>> \in shown \/ (a = 0 /\ time[2] # h /\ registers[2] # HourRegister(h))

\* With a second read, what the register of the hours stands for.
ReadFirstOf(a) ==
    \A h \in Hours : registers[2] = HourRegister(h) =>
      \/ <<a, h>> \in shown \/ <<0, h>> \in shown
      \/ a = 0 /\ updating = 2 /\ time[1] = 0 /\ time[2] # h

PassesSoFar ==
    /\ readNow # <<>> => reader = "reading"
    /\ readLast # <<>> => reader \in {"waiting", "reading"}
    /\ \A a \in Seconds : readNow = <<a>> => ReadFirstOf(a)
    /\ \A a \in Seconds, h \in Hours : readLast = <<a, HourRegister(h)>> => ReadOnce(a, h)
    /\ \A a \in Seconds, h \in Hours :
         readLast = <<a, HourRegister(h)>> /\ readNow = <<a>> => ReadAgain(a, h)

ClockInv == ClockTypes /\ Registers /\ Unbroken /\ PassesSoFar /\ NowIsNeverTorn

LEMMA HoursDiffer ==
    ASSUME NEW h \in Hours, NEW k \in Hours, HourRegister(h) = HourRegister(k)
    PROVE  h = k
BY SMTT(60) DEF Hours, HourRegister, Hour12, Bcd

LEMMA HoursDecoded ==
    ASSUME NEW a \in Seconds, NEW h \in Hours
    PROVE  Decoded(<<a, HourRegister(h)>>) = <<a, ReportedHour(h)>>
<1>1. (IF isBcd THEN BinaryOf(a) ELSE a) = a
  BY ClockAssumption DEF Seconds, BinaryOf
<1>2. DecodedHour(HourRegister(h)) = ReportedHour(h)
  BY SMTT(60) DEF Hours, DecodedHour, HourRegister, Hour12, Bcd, BinaryOf, ReportedHour
<1>3. QED
  BY <1>1, <1>2 DEF Decoded

LEMMA ClockAtFirst == ClockInit => ClockInv
<1> SUFFICES ASSUME ClockInit PROVE ClockInv
  OBVIOUS
<1>1. PICK s \in Seconds, h \in StartHours : time = <<s, h>>
  BY DEF ClockInit, Seconds
<1>2. h \in Hours
  BY ClockAssumption DEF Hours
<1>3. registers = <<s, HourRegister(h)>>
  BY <1>1 DEF ClockInit, RegistersOf
<1>4. Registers
  BY <1>1, <1>3 DEF Registers
<1>5. ClockTypes /\ Unbroken /\ PassesSoFar /\ NowIsNeverTorn
  <2>1. /\ updating = 0 /\ reader = "idle" /\ readNow = <<>> /\ readLast = <<>> /\ shown = {}
    BY DEF ClockInit
  <2>2. ClockTypes
    BY <1>1, <1>2, <2>1 DEF ClockTypes
  <2>3. QED
    BY <2>1, <2>2 DEF Unbroken, PassesSoFar, NowIsNeverTorn
<1>6. QED
  BY <1>4, <1>5 DEF ClockInv

\* The mode does not change while now() runs.
LEMMA ModeStays ==
    ASSUME UNCHANGED <<isBcd, is12h>>
    PROVE  \A h : HourRegister(h)' = HourRegister(h) /\ ReportedHour(h)' = ReportedHour(h)
BY DEF HourRegister, Hour12, Bcd, ReportedHour

LEMMA ClockMoves ==
    ASSUME ClockInv, MoveFirst
    PROVE  ClockInv'
<1> DEFINE next == <<(time[1] + 1) % SecondRadix,
                     IF time[1] = SecondRadix - 1 THEN (time[2] + 1) % 24 ELSE time[2]>>
<1>1. /\ updating = 1 /\ updating' = 2 /\ time' = next
      /\ registers' = [registers EXCEPT ![1] = time'[1]]
      /\ shown' = IF reader \in {"waiting", "reading"} THEN shown \cup {time'} ELSE shown
      /\ UNCHANGED <<isBcd, is12h, reader, readNow, readLast, returned>>
  BY DEF MoveFirst, ClockUnread
<1>2. /\ time[1] \in Seconds /\ time[2] \in Hours /\ time = <<time[1], time[2]>>
      /\ 0 \in Seconds /\ SecondRadix \in 1 .. 9
  BY ClockAssumption DEF ClockInv, ClockTypes, Seconds
<1>3. /\ time'[1] \in Seconds /\ time'[2] \in Hours /\ time' = <<time'[1], time'[2]>>
      /\ \/ time'[1] = time[1] + 1 /\ time'[2] = time[2]
         \/ time[1] = SecondRadix - 1 /\ time'[1] = 0 /\ time'[2] # time[2]
  BY <1>1, <1>2 DEF Seconds, Hours
<1>4. \A h : HourRegister(h)' = HourRegister(h) /\ ReportedHour(h)' = ReportedHour(h)
  BY <1>1, ModeStays
<1>5. registers' = <<time'[1], registers[2]>> /\ registers[2] = HourRegister(time[2])
  BY <1>1 DEF ClockInv, Registers
<1> HIDE DEF next
<1>6. ClockTypes'
  <2>1. time' \in Seconds \X Hours /\ shown' \in SUBSET (Seconds \X Hours)
    BY <1>1, <1>3 DEF ClockInv, ClockTypes
  <2>2. QED
    BY <1>1, <1>4, <2>1 DEF ClockInv, ClockTypes
<1>7. Registers'
  BY <1>1, <1>2, <1>3, <1>4, <1>5 DEF Registers
<1>8. Unbroken'
  <2>1. SUFFICES ASSUME reader \in {"waiting", "reading"}
                 PROVE  /\ time' \in shown'
                        /\ \A h \in Hours, x, y \in Seconds :
                             <<x, h>> \in shown' /\ x <= y =>
                               <<y, h>> \in shown' \/ (time'[2] = h /\ time'[1] < y)
    BY <1>1 DEF Unbroken
  <2>2. shown' = shown \cup {time'}
    BY <1>1, <2>1
  <2>3. ASSUME NEW h \in Hours, NEW x \in Seconds, NEW y \in Seconds,
               <<x, h>> \in shown', x <= y
        PROVE  <<y, h>> \in shown' \/ (time'[2] = h /\ time'[1] < y)
    <3>1. CASE <<x, h>> = time'
      BY <1>3, <2>2, <2>3, <3>1 DEF Seconds
    <3>2. CASE <<x, h>> \in shown
      <4>1. <<y, h>> \in shown \/ (time[2] = h /\ time[1] < y)
        BY <2>1, <2>3, <3>2 DEF ClockInv, Unbroken
      <4>2. QED
        BY <1>2, <1>3, <2>2, <4>1 DEF Seconds
    <3>3. QED
      BY <2>2, <2>3, <3>1, <3>2
  <2>4. QED
    BY <2>2, <2>3
<1>9. PassesSoFar'
  <2>1. shown \subseteq shown'
    BY <1>1
  <2>2. ASSUME readNow # <<>> \/ readLast # <<>>
        PROVE  reader \in {"waiting", "reading"} /\ shown' = shown \cup {time'}
    BY <1>1, <2>2 DEF ClockInv, PassesSoFar
  <2>3. ASSUME NEW a \in Seconds, readNow = <<a>> PROVE ReadFirstOf(a)'
    BY <1>1, <1>4, <1>5, <2>1, <2>3 DEF ClockInv, PassesSoFar, ReadFirstOf
  <2>4. ASSUME NEW a \in Seconds, NEW h \in Hours, readLast = <<a, HourRegister(h)>>
        PROVE  ReadOnce(a, h)'
    <3>1. ReadOnce(a, h)
      BY <2>4 DEF ClockInv, PassesSoFar
    <3>2. shown' = shown \cup {time'}
      BY <2>2, <2>4
    <3>3. CASE <<a, h>> \in shown \/ <<0, h>> \in shown
      BY <2>1, <3>3 DEF ReadOnce
    <3>4. CASE a = 0 /\ time[2] # h /\ registers[2] # HourRegister(h)
      <4>1. CASE time'[2] = h
        BY <1>3, <3>2, <3>4, <4>1 DEF ReadOnce
      <4>2. CASE time'[2] # h
        BY <1>4, <1>5, <3>4, <4>2 DEF ReadOnce
      <4>3. QED
        BY <4>1, <4>2
    <3>5. QED
      BY <1>1, <3>1, <3>3, <3>4 DEF ReadOnce
  <2>5. ASSUME NEW a \in Seconds, NEW h \in Hours, readLast = <<a, HourRegister(h)>>,
               readNow = <<a>>
        PROVE  ReadAgain(a, h)'
    <3>1. ReadAgain(a, h)
      BY <2>5 DEF ClockInv, PassesSoFar
    <3>2. shown' = shown \cup {time'}
      BY <2>2, <2>5
    <3>3. CASE <<a, h>> \in shown
      BY <2>1, <3>3 DEF ReadAgain
    <3>4. CASE a = 0 /\ time[2] # h /\ registers[2] # HourRegister(h)
      <4>1. CASE time'[2] = h
        BY <1>3, <3>2, <3>4, <4>1 DEF ReadAgain
      <4>2. CASE time'[2] # h
        BY <1>4, <1>5, <3>4, <4>2 DEF ReadAgain
      <4>3. QED
        BY <4>1, <4>2
    <3>5. QED
      BY <3>1, <3>3, <3>4 DEF ReadAgain
  <2>6. /\ readNow # <<>> => reader = "reading"
        /\ readLast # <<>> => reader \in {"waiting", "reading"}
    BY DEF ClockInv, PassesSoFar
  <2>7. QED
    BY <1>1, <1>4, <2>3, <2>4, <2>5, <2>6 DEF PassesSoFar
<1>10. NowIsNeverTorn'
  BY <1>1, <1>4 DEF ClockInv, NowIsNeverTorn
<1>11. QED
  BY <1>6, <1>7, <1>8, <1>9, <1>10 DEF ClockInv

\* What the other steps of the clock leave as it is.
LEMMA ClockSettles ==
    ASSUME ClockInv, RaiseFlag \/ MoveRest
    PROVE  ClockInv'
<1>1. /\ UNCHANGED <<time, shown, isBcd, is12h, reader, readNow, readLast, returned>>
      /\ \/ updating = 0 /\ updating' = 1 /\ registers' = registers
         \/ updating = 2 /\ updating' = 0 /\ registers' = RegistersOf(time)
  BY DEF RaiseFlag, MoveRest, ClockUnread
<1>2. \A h : HourRegister(h)' = HourRegister(h) /\ ReportedHour(h)' = ReportedHour(h)
  BY <1>1, ModeStays
<1>3. /\ time[1] \in Seconds /\ time[2] \in Hours /\ time = <<time[1], time[2]>>
      /\ time' = time
  BY <1>1 DEF ClockInv, ClockTypes
<1>4. registers' = <<time[1], HourRegister(time[2])>> /\ updating' \in {0, 1}
  BY <1>1 DEF ClockInv, Registers, RegistersOf
<1>5. ClockTypes'
  BY <1>1, <1>2 DEF ClockInv, ClockTypes
<1>6. Registers'
  BY <1>2, <1>3, <1>4 DEF Registers
<1>7. Unbroken' /\ NowIsNeverTorn'
  BY <1>1, <1>2 DEF ClockInv, Unbroken, NowIsNeverTorn
<1>8. ASSUME NEW h \in Hours, registers'[2] = HourRegister(h)
      PROVE  h = time[2]
  BY <1>3, <1>4, <1>8, HoursDiffer
<1>9. PassesSoFar'
  <2>1. ASSUME NEW a \in Seconds, readNow = <<a>> PROVE ReadFirstOf(a)'
    <3>1. ASSUME NEW h \in Hours, registers'[2] = HourRegister(h)
          PROVE  <<a, h>> \in shown \/ <<0, h>> \in shown
      <4>1. h = time[2]
        BY <1>8, <3>1
      <4>2. time \in shown
        BY <2>1 DEF ClockInv, PassesSoFar, Unbroken
      <4>3. CASE registers[2] = HourRegister(h)
        BY <2>1, <4>1, <4>3 DEF ClockInv, PassesSoFar, ReadFirstOf
      <4>4. CASE registers[2] # HourRegister(h)
        BY <1>3, <4>1, <4>2, <4>4 DEF ClockInv, Registers
      <4>5. QED
        BY <4>3, <4>4
    <3>2. QED
      BY <1>1, <1>2, <3>1 DEF ReadFirstOf
  <2>2. ASSUME NEW a \in Seconds, NEW h \in Hours, readLast = <<a, HourRegister(h)>>
        PROVE  ReadOnce(a, h)'
    <3>1. ReadOnce(a, h)
      BY <2>2 DEF ClockInv, PassesSoFar
    <3>2. QED
      BY <1>1, <1>2, <1>8, <3>1 DEF ReadOnce
  <2>3. ASSUME NEW a \in Seconds, NEW h \in Hours, readLast = <<a, HourRegister(h)>>,
               readNow = <<a>>
        PROVE  ReadAgain(a, h)'
    <3>1. ReadAgain(a, h)
      BY <2>3 DEF ClockInv, PassesSoFar
    <3>2. QED
      BY <1>1, <1>2, <1>8, <3>1 DEF ReadAgain
  <2>4. QED
    BY <1>1, <1>2, <2>1, <2>2, <2>3 DEF ClockInv, PassesSoFar
<1>10. QED
  BY <1>5, <1>6, <1>7, <1>9 DEF ClockInv

\* A step of now() other than the last of a pass.
LEMMA ReaderMoves ==
    ASSUME ClockInv, CallNow \/ SeeFlagDown \/ ReadFirst
    PROVE  ClockInv'
<1>1. /\ UNCHANGED <<time, registers, updating, isBcd, is12h, returned, readLast>>
      /\ \/ /\ reader = "idle" /\ reader' = "waiting" /\ shown' = {time} /\ readNow' = readNow
         \/ /\ reader = "waiting" /\ reader' = "reading" /\ shown' = shown /\ readNow' = readNow
            /\ updating = 0
         \/ /\ reader = "reading" /\ reader' = "reading" /\ shown' = shown
            /\ readNow' = <<registers[1]>>
  BY DEF CallNow, SeeFlagDown, ReadFirst, ReaderStep, ClearToRead
<1>2. \A h : HourRegister(h)' = HourRegister(h) /\ ReportedHour(h)' = ReportedHour(h)
  BY <1>1, ModeStays
<1>3. /\ time[1] \in Seconds /\ time[2] \in Hours /\ time = <<time[1], time[2]>>
      /\ registers[1] = time[1]
  BY DEF ClockInv, ClockTypes, Registers
<1>4. ClockTypes'
  BY <1>1, <1>2, <1>3 DEF ClockInv, ClockTypes
<1>5. Registers'
  BY <1>1, <1>2 DEF ClockInv, Registers
<1>6. Unbroken'
  <2>1. CASE shown' = shown /\ reader \in {"waiting", "reading"}
    BY <1>1, <2>1 DEF ClockInv, Unbroken
  <2>2. CASE shown' = {time}
    <3>1. ASSUME NEW h \in Hours, NEW x \in Seconds, NEW y \in Seconds, <<x, h>> = time, x <= y
          PROVE  <<y, h>> = time \/ (time[2] = h /\ time[1] < y)
      BY <1>3, <3>1 DEF Seconds
    <3>2. QED
      BY <1>1, <2>2, <3>1 DEF Unbroken
  <2>3. QED
    BY <1>1, <2>1, <2>2
<1>7. NowIsNeverTorn'
  BY <1>1 DEF NowIsNeverTorn
<1>8. PassesSoFar'
  <2>1. CASE reader = "idle"
    BY <1>1, <2>1 DEF ClockInv, PassesSoFar
  <2>2. CASE reader = "waiting" /\ updating = 0 /\ readNow' = readNow /\ shown' = shown
    BY <1>1, <1>2, <2>2 DEF ClockInv, PassesSoFar, ReadOnce
  <2>3. CASE /\ reader = "reading" /\ reader' = "reading" /\ shown' = shown
             /\ readNow' = <<registers[1]>>
    <3>1. time \in shown
      BY <2>3 DEF ClockInv, Unbroken
    <3>2. ASSUME NEW a \in Seconds, readNow' = <<a>> PROVE a = time[1] /\ ReadFirstOf(a)'
      <4>1. a = time[1]
        BY <1>3, <2>3, <3>2
      <4>2. ASSUME NEW h \in Hours, registers[2] = HourRegister(h)
            PROVE  <<a, h>> \in shown \/ (a = 0 /\ updating = 2 /\ time[1] = 0 /\ time[2] # h)
        <5>1. CASE time[2] = h
          BY <1>3, <3>1, <4>1, <5>1
        <5>2. CASE time[2] # h
          BY <1>3, <4>1, <4>2, <5>2, HoursDiffer DEF ClockInv, Registers
        <5>3. QED
          BY <5>1, <5>2
      <4>3. QED
        BY <1>1, <1>2, <2>3, <4>1, <4>2 DEF ReadFirstOf
    <3>3. ASSUME NEW a \in Seconds, NEW h \in Hours, readLast = <<a, HourRegister(h)>>
          PROVE  ReadOnce(a, h) /\ ReadOnce(a, h)'
      BY <1>1, <1>2, <2>3, <3>3 DEF ClockInv, PassesSoFar, ReadOnce
    <3>4. ASSUME NEW a \in Seconds, NEW h \in Hours, readLast = <<a, HourRegister(h)>>,
                 readNow' = <<a>>
          PROVE  ReadAgain(a, h)'
      <4>1. a = time[1]
        BY <3>2, <3>4
      <4>2. ReadOnce(a, h)
        BY <3>3, <3>4
      <4>3. CASE <<0, h>> \in shown
        <5>1. <<a, h>> \in shown \/ (time[2] = h /\ time[1] < a)
          BY <2>3, <4>3, ClockAssumption DEF ClockInv, Unbroken, Seconds
        <5>2. <<a, h>> \in shown
          BY <1>3, <4>1, <5>1 DEF Seconds
        <5>3. QED
          BY <1>1, <2>3, <5>2 DEF ReadAgain
      <4>4. QED
        BY <1>1, <1>2, <2>3, <4>2, <4>3 DEF ReadOnce, ReadAgain
    <3>5. QED
      BY <1>1, <1>2, <2>3, <3>2, <3>3, <3>4 DEF PassesSoFar
  <2>4. QED
    BY <1>1, <2>1, <2>2, <2>3
<1>9. QED
  BY <1>4, <1>5, <1>6, <1>7, <1>8 DEF ClockInv

LEMMA PassEnds ==
    ASSUME ClockInv, ReadRest
    PROVE  ClockInv'
<1> DEFINE pass == <<readNow[1], registers[2]>>
<1>1. /\ UNCHANGED <<time, registers, updating, isBcd, is12h, shown>>
      /\ reader = "reading" /\ readNow' = <<>> /\ readNow # <<>>
  BY DEF ReadRest, ReaderStep
<1>2. PICK a \in Seconds : readNow = <<a>>
  BY <1>1 DEF ClockInv, ClockTypes
<1>3. PICK h \in Hours : registers[2] = HourRegister(h)
  BY DEF ClockInv, Registers, ClockTypes
<1>4. pass = <<a, HourRegister(h)>>
  BY <1>2, <1>3
<1>5. \/ reader' = "done" /\ returned' = Decoded(pass) /\ readLast' = <<>> /\ readLast = pass
      \/ reader' = "waiting" /\ readLast' = pass /\ UNCHANGED returned
  BY DEF ReadRest, PassesAgree
<1> HIDE DEF pass
<1>6. \A k : HourRegister(k)' = HourRegister(k) /\ ReportedHour(k)' = ReportedHour(k)
  BY <1>1, ModeStays
<1>7. ClockTypes'
  BY <1>1, <1>2, <1>3, <1>4, <1>5, <1>6 DEF ClockInv, ClockTypes
<1>8. Registers'
  BY <1>1, <1>6 DEF ClockInv, Registers
<1>9. Unbroken'
  BY <1>1, <1>5 DEF ClockInv, Unbroken
<1>10. PassesSoFar'
  <2>1. ASSUME NEW b \in Seconds, NEW k \in Hours, reader' = "waiting",
               readLast' = <<b, HourRegister(k)>>, readLast' = pass
        PROVE  ReadOnce(b, k)'
    <3>1. b = a /\ HourRegister(k) = HourRegister(h)
      BY <1>4, <2>1
    <3>2. k = h
      BY <3>1, HoursDiffer
    <3>3. ReadFirstOf(a)
      BY <1>2 DEF ClockInv, PassesSoFar
    <3>4. QED
      BY <1>1, <1>3, <1>6, <2>1, <3>1, <3>2, <3>3 DEF ReadFirstOf, ReadOnce
  <2>2. readNow' = <<>> /\ (readLast' # <<>> => reader' = "waiting" /\ readLast' = pass)
    BY <1>1, <1>5
  <2>3. ASSUME NEW b \in Seconds PROVE readNow' # <<b>>
    BY <2>2
  <2>4. ASSUME NEW b \in Seconds, NEW k \in Hours, readLast' = <<b, HourRegister(k)'>>
        PROVE  ReadOnce(b, k)'
    <3>1. HourRegister(k)' = HourRegister(k)
      BY <1>6
    <3>2. readLast' # <<>>
      BY <2>4
    <3>3. QED
      BY <2>1, <2>2, <2>4, <3>1, <3>2
  <2>5. QED
    BY <2>2, <2>3, <2>4 DEF PassesSoFar
<1>11. NowIsNeverTorn'
  <2>1. SUFFICES ASSUME reader' = "done"
                 PROVE  \E t \in shown : returned' = <<t[1], ReportedHour(t[2])>>
    BY <1>1, <1>6 DEF NowIsNeverTorn
  <2>2. returned' = <<a, ReportedHour(h)>> /\ readLast = <<a, HourRegister(h)>>
    BY <1>4, <1>5, <2>1, HoursDecoded
  <2>3. <<a, h>> \in shown
    BY <1>2, <1>3, <2>2 DEF ClockInv, PassesSoFar, ReadAgain
  <2>4. QED
    BY <2>2, <2>3
<1>12. QED
  BY <1>7, <1>8, <1>9, <1>10, <1>11 DEF ClockInv

\* now() never returns a time that is half of one update and half of another, however long it is
\* kept between two port accesses and however many updates fall there: its two equal passes read
\* one time the clock showed during the call, and now() returns it with the hour as ReportedHour
\* has it.  In 24-hour modes that is the time shown itself; in 12-hour modes the hour may be one
\* the clock did not show (midnight comes as 12, and in BCD the afternoon as the morning).
THEOREM ClockIsNeverTorn ==
    ClockSpec => [](NowIsNeverTorn /\ (reader = "done" /\ ~is12h => returned \in shown))
<1>1. ClockInv /\ [ClockNext]_clockVars => ClockInv'
  <2>1. SUFFICES ASSUME ClockInv, [ClockNext]_clockVars PROVE ClockInv'
    OBVIOUS
  <2>2. CASE UNCHANGED clockVars
    <3>1. UNCHANGED <<isBcd, is12h>>
      BY <2>2 DEF clockVars
    <3>2. \A h : HourRegister(h)' = HourRegister(h) /\ ReportedHour(h)' = ReportedHour(h)
      BY <3>1, ModeStays
    <3>3. QED
      BY <2>1, <2>2, <3>2 DEF clockVars, ClockInv, ClockTypes, Registers, Unbroken, PassesSoFar,
             ReadOnce, ReadAgain, ReadFirstOf, NowIsNeverTorn
  <2>3. QED
    BY <2>1, <2>2, ClockMoves, ClockSettles, ReaderMoves, PassEnds DEF ClockNext, ClockDone
<1>2. ClockInv => NowIsNeverTorn /\ (reader = "done" /\ ~is12h => returned \in shown)
  <2>1. SUFFICES ASSUME ClockInv, reader = "done", ~is12h PROVE returned \in shown
    BY DEF ClockInv
  <2>2. PICK t \in shown : returned = <<t[1], ReportedHour(t[2])>>
    BY <2>1 DEF ClockInv, NowIsNeverTorn
  <2>3. t \in Seconds \X Hours
    BY <2>1 DEF ClockInv, ClockTypes
  <2>4. ReportedHour(t[2]) = t[2]
    BY <2>1 DEF ReportedHour
  <2>5. returned = t
    BY <2>2, <2>3, <2>4
  <2>6. QED
    BY <2>5
<1>3. QED
  BY <1>1, <1>2, ClockAtFirst, PTL DEF ClockSpec


-----------------------------------------------------------------------------
(* The working directory.                                                  *)

TypedNames == Spellings \cup {""}
DiskNames == {Stored(n) : n \in TypedNames}

WdInv ==
    /\ tree \subseteq Seq(DiskNames) \ {<<>>}
    /\ \A dir \in tree : Len(dir) > 1 => Front(dir) \in tree
    /\ cwd \in Seq(Spellings)

LEMMA OneLess ==
    ASSUME NEW n \in Nat, n # 0
    PROVE  /\ n = 1 \/ 1 <= n - 1
           /\ n > 1 => n - 1 # 0
           /\ \A m \in Nat : n <= m => n - 1 <= m
OBVIOUS

LEMMA FrontIs ==
    ASSUME NEW S, NEW s \in Seq(S), s # <<>>
    PROVE  /\ Front(s) \in Seq(S) /\ Len(Front(s)) = Len(s) - 1 /\ Len(s) \in Nat \ {0}
           /\ \A i \in 1 .. Len(s) - 1 : Front(s)[i] = s[i]
<1>1. Len(s) \in Nat /\ Len(s) # 0
  BY EmptySeq
<1>2. \A i \in 1 .. Len(s) - 1 : s[i] \in S
  BY <1>1
<1>3. /\ Front(s) \in Seq(S) /\ Len(Front(s)) = (IF 1 <= Len(s) - 1 THEN Len(s) - 1 - 1 + 1 ELSE 0)
      /\ \A i \in 1 .. Len(s) - 1 - 1 + 1 : Front(s)[i] = s[1 + i - 1]
  BY <1>1, <1>2, SubSeqProperties DEF Front
<1>4. \A i \in 1 .. Len(s) - 1 : Front(s)[i] = s[i]
  BY <1>1, <1>3
<1>5. Len(Front(s)) = Len(s) - 1
  <2>1. Len(s) = 1 \/ 1 <= Len(s) - 1
    BY <1>1, OneLess
  <2>2. CASE Len(s) = 1
    BY <1>3, <2>2
  <2>3. CASE 1 <= Len(s) - 1
    BY <1>1, <1>3, <2>3
  <2>4. QED
    BY <2>1, <2>2, <2>3
<1>6. QED
  BY <1>1, <1>3, <1>4, <1>5

LEMMA StoredIs ==
    ASSUME NEW s \in Seq(TypedNames)
    PROVE  /\ StoredPath(s) \in Seq(DiskNames) /\ Len(StoredPath(s)) = Len(s)
           /\ \A i \in 1 .. Len(s) : StoredPath(s)[i] = Stored(s[i])
BY DEF StoredPath, DiskNames

LEMMA FrontStored ==
    ASSUME NEW s \in Seq(TypedNames), s # <<>>
    PROVE  StoredPath(Front(s)) = Front(StoredPath(s)) /\ Front(s) \in Seq(TypedNames)
<1> DEFINE n == Len(s)
           a == StoredPath(Front(s))
           b == Front(StoredPath(s))
<1>1. /\ n \in Nat \ {0} /\ Front(s) \in Seq(TypedNames) /\ Len(Front(s)) = n - 1
      /\ \A i \in 1 .. n - 1 : Front(s)[i] = s[i]
  BY FrontIs
<1>2. a \in Seq(DiskNames) /\ Len(a) = n - 1 /\ \A i \in 1 .. n - 1 : a[i] = Stored(s[i])
  BY <1>1, StoredIs
<1>3. /\ StoredPath(s) \in Seq(DiskNames) /\ Len(StoredPath(s)) = n
      /\ \A i \in 1 .. n : StoredPath(s)[i] = Stored(s[i])
  BY StoredIs
<1>4. b \in Seq(DiskNames) /\ Len(b) = n - 1 /\ \A i \in 1 .. n - 1 : b[i] = Stored(s[i])
  <2>1. StoredPath(s) # <<>>
    BY <1>1, <1>3
  <2>2. QED
    BY <1>1, <1>3, <2>1, FrontIs
<1> HIDE DEF a, b, n
<1>5. a = b
  BY <1>1, <1>2, <1>4
<1>6. QED
  BY <1>1, <1>5 DEF a, b

LEMMA SpelledIsTyped ==
    ASSUME NEW s \in Seq(Spellings)
    PROVE  s \in Seq(TypedNames)
<1>1. Len(s) \in Nat /\ s \in [1 .. Len(s) -> Spellings]
  OBVIOUS
<1>2. s \in [1 .. Len(s) -> TypedNames]
  BY <1>1 DEF TypedNames
<1>3. QED
  BY <1>1, <1>2

LEMMA ResolvedIs ==
    ASSUME WdInv, NEW arg \in Arguments
    PROVE  Resolved(arg) \in Seq(TypedNames) \ {<<>>}
<1>1. arg \in Seq(TypedNames) /\ arg # <<>> /\ cwd \in Seq(TypedNames)
  <2>1. arg \in Seq(TypedNames) /\ arg # <<>>
    BY WorkingDirAssumption DEF TypedNames
  <2>2. QED
    BY <2>1, SpelledIsTyped DEF WdInv
<1>2. CASE Len(arg) > 1 /\ Head(arg) = ""
  <2>1. Tail(arg) \in Seq(TypedNames) /\ Len(Tail(arg)) = Len(arg) - 1
    BY <1>1
  <2>2. Len(arg) \in Nat /\ Len(arg) # 0
    BY <1>1, EmptySeq
  <2>3. Len(Tail(arg)) # 0
    BY <1>2, <2>1, <2>2, OneLess
  <2>4. Tail(arg) # <<>>
    BY <2>3, EmptySeq
  <2>5. QED
    BY <1>2, <2>1, <2>4 DEF Resolved
<1>3. CASE ~(Len(arg) > 1 /\ Head(arg) = "")
  <2>1. cwd \o arg \in Seq(TypedNames) /\ Len(cwd \o arg) = Len(cwd) + Len(arg)
    BY <1>1
  <2>2. Len(arg) # 0 /\ Len(arg) \in Nat /\ Len(cwd) \in Nat
    BY <1>1, EmptySeq
  <2>3. cwd \o arg # <<>>
    BY <2>1, <2>2, EmptySeq
  <2>4. QED
    BY <1>3, <2>1, <2>3 DEF Resolved
<1>4. QED
  BY <1>2, <1>3

\* The working directory is the root or a directory of the tree.
CwdIsThere == cwd = <<>> \/ (Len(cwd) <= MaxDepth /\ StoredPath(cwd) \in tree)

\* What IsDir means of the working directory's path.
LEMMA CwdIsDir ==
    WdInv => (IsDir(CwdPath) <=> CwdIsThere)
<1> SUFFICES ASSUME WdInv
             PROVE  IsDir(CwdPath) <=> CwdIsThere
  OBVIOUS
<1>1. CASE cwd = <<>>
  BY <1>1 DEF CwdPath, IsDir, CwdIsThere
<1>2. CASE cwd # <<>>
  <2>1. \A i \in DOMAIN cwd : cwd[i] \in Spellings
    BY DEF WdInv
  <2>2. \A i \in DOMAIN cwd : cwd[i] # ""
    BY <2>1, WorkingDirAssumption
  <2>3. cwd # NoName
    <3>1. 1 \in DOMAIN NoName /\ NoName[1] = ""
      BY DEF NoName
    <3>2. QED
      BY <2>2, <3>1
  <2>4. QED
    BY <1>2, <2>2, <2>3 DEF CwdPath, IsDir, CwdIsThere
<1>3. QED
  BY <1>1, <1>2

LEMMA CwdIsDirNext ==
    (WdInv => (IsDir(CwdPath) <=> CwdIsThere))'
BY CwdIsDir, PTL

\* The entry of a name that has a table: in the root, or in a directory that is there.
LEMMA EntryIs ==
    ASSUME WdInv, NEW path \in Seq(TypedNames) \ {<<>>}, HasTable(path)
    PROVE  /\ EntryPath(path) \in Seq(DiskNames) \ {<<>>}
           /\ Len(EntryPath(path)) > 1 => Front(EntryPath(path)) \in tree
<1>1. /\ Len(path) \in Nat \ {0} /\ Front(path) \in Seq(TypedNames)
      /\ Len(Front(path)) = Len(path) - 1
  BY FrontIs
<1>2. CASE Len(path) = 1 \/ Front(path) = NoName
  <2>1. path[Len(path)] \in TypedNames
    BY <1>1
  <2>2. Stored(path[Len(path)]) \in DiskNames
    BY <2>1 DEF DiskNames
  <2>3. EntryPath(path) = <<Stored(path[Len(path)])>>
    BY <1>2 DEF EntryPath, Last
  <2> HIDE DEF DiskNames
  <2>4. QED
    BY <2>2, <2>3
<1>3. CASE Len(path) # 1 /\ Front(path) # NoName
  <2>1. EntryPath(path) = StoredPath(path)
    BY <1>3 DEF EntryPath
  <2>2. StoredPath(Front(path)) \in tree
    BY <1>3 DEF HasTable, IsDir
  <2>3. QED
    BY <1>1, <2>1, <2>2, FrontStored, StoredIs
<1>4. QED
  BY <1>2, <1>3

LEMMA CdUpStays ==
    ASSUME WdInv, CdUp
    PROVE  WdInv' /\ (IsDir(CwdPath) => IsDir(CwdPath)')
<1>1. /\ cwd # <<>> /\ cwd' = Front(cwd) /\ tree' = tree /\ cwd \in Seq(Spellings)
      /\ Len(cwd) \in Nat \ {0} /\ Front(cwd) \in Seq(Spellings) /\ Len(Front(cwd)) = Len(cwd) - 1
  BY FrontIs DEF CdUp, WdInv
<1>2. WdInv'
  BY <1>1 DEF WdInv
<1>3. ASSUME IsDir(CwdPath), Front(cwd) # <<>>
      PROVE  Len(Front(cwd)) <= MaxDepth /\ StoredPath(Front(cwd)) \in tree
  <2>1. Len(cwd) <= MaxDepth /\ StoredPath(cwd) \in tree
    BY <1>1, <1>3, CwdIsDir DEF CwdIsThere
  <2>2. cwd \in Seq(TypedNames)
    BY <1>1, SpelledIsTyped
  <2>3. StoredPath(Front(cwd)) = Front(StoredPath(cwd)) /\ Len(StoredPath(cwd)) = Len(cwd)
    BY <1>1, <2>2, FrontStored, StoredIs
  <2>4. Len(cwd) > 1
    BY <1>1, <1>3, EmptySeq
  <2>5. StoredPath(Front(cwd)) \in tree
    BY <2>1, <2>3, <2>4 DEF WdInv
  <2>6. Len(cwd) - 1 <= MaxDepth
    BY <1>1, <2>1, OneLess, WorkingDirAssumption
  <2>7. QED
    BY <1>1, <2>5, <2>6
<1>4. IsDir(CwdPath)' <=> cwd' = <<>> \/ (Len(cwd') <= MaxDepth /\ StoredPath(cwd') \in tree')
  BY <1>2, CwdIsDirNext DEF CwdIsThere
<1>5. QED
  BY <1>1, <1>2, <1>3, <1>4

LEMMA CdStays ==
    ASSUME WdInv, NEW arg \in Arguments, Cd(arg)
    PROVE  WdInv' /\ IsDir(CwdPath)'
<1> DEFINE path == Resolved(arg)
<1>1. /\ IsDir(path) /\ tree' = tree /\ path \in Seq(TypedNames) \ {<<>>}
      /\ cwd' = IF path = NoName THEN <<>> ELSE path
  BY ResolvedIs DEF Cd
<1> HIDE DEF path
<1>2. CASE path = NoName
  <2>1. cwd' = <<>> /\ WdInv'
    BY <1>1, <1>2, EmptySeq DEF WdInv
  <2>2. QED
    BY <2>1, CwdIsDirNext DEF CwdIsThere
<1>3. CASE path # NoName
  <2>1. /\ cwd' = path /\ Len(path) <= MaxDepth /\ StoredPath(path) \in tree
        /\ \A i \in DOMAIN path : path[i] # ""
    BY <1>1, <1>3 DEF IsDir
  <2>2. path \in Seq(Spellings)
    <3>1. Len(path) \in Nat /\ path \in [1 .. Len(path) -> TypedNames]
      BY <1>1
    <3>2. path \in [1 .. Len(path) -> Spellings]
      BY <2>1, <3>1 DEF TypedNames
    <3>3. QED
      BY <3>1, <3>2
  <2>3. WdInv'
    BY <1>1, <2>1, <2>2 DEF WdInv
  <2>4. QED
    BY <1>1, <2>1, <2>3, CwdIsDirNext DEF CwdIsThere
<1>4. QED
  BY <1>2, <1>3

LEMMA MkdirStays ==
    ASSUME WdInv, NEW arg \in Arguments, Mkdir(arg)
    PROVE  WdInv' /\ (IsDir(CwdPath) => IsDir(CwdPath)')
<1> DEFINE path == Resolved(arg)
           e == EntryPath(path)
<1>1. HasTable(path) /\ tree' = tree \cup {e} /\ cwd' = cwd /\ path \in Seq(TypedNames) \ {<<>>}
  BY ResolvedIs DEF Mkdir
<1>2. e \in Seq(DiskNames) \ {<<>>} /\ (Len(e) > 1 => Front(e) \in tree)
  BY <1>1, EntryIs
<1> HIDE DEF e, path
<1>3. WdInv'
  BY <1>1, <1>2 DEF WdInv
<1>4. QED
  BY <1>1, <1>3, CwdIsDir, CwdIsDirNext DEF CwdIsThere

\* A directory is an extension of the one it is in.
LEMMA FrontIsPrefix ==
    ASSUME NEW S, NEW s \in Seq(S), s # <<>>
    PROVE  IsStrictPrefix(Front(s), s)
<1>1. /\ Len(Front(s)) = Len(s) - 1 /\ Len(s) \in Nat \ {0} /\ Front(s) \in Seq(S)
  BY FrontIs
<1>2. SubSeq(Front(s), 1, Len(Front(s))) = Front(s)
  BY <1>1, SubSeqFull
<1>3. SubSeq(s, 1, Len(Front(s))) = Front(s)
  BY <1>1 DEF Front
<1>4. QED
  BY <1>1, <1>2, <1>3 DEF IsStrictPrefix, IsPrefix

LEMMA RmdirStays ==
    ASSUME WdInv, NEW arg \in Arguments, Rmdir(arg)
    PROVE  WdInv' /\ (IsDir(CwdPath) => IsDir(CwdPath)' \/ IsOtherSpelling(Resolved(arg)))
<1> DEFINE path == Resolved(arg)
           e == EntryPath(path)
<1>1. HasTable(path) /\ tree' = tree \ {e} /\ cwd' = cwd /\ path # CwdPath /\ IsEmptyDir(e)
  BY DEF Rmdir
<1>2. ASSUME NEW dir \in tree, Len(dir) > 1 PROVE Front(dir) # e
  <2>1. IsStrictPrefix(Front(dir), dir)
    BY FrontIsPrefix DEF WdInv
  <2>2. QED
    BY <1>1, <2>1 DEF IsEmptyDir
<1> HIDE DEF e
<1>3. WdInv'
  BY <1>1, <1>2 DEF WdInv
<1>4. CASE e = StoredPath(cwd)
  BY <1>1, <1>3, <1>4 DEF IsOtherSpelling, e
<1>5. CASE e # StoredPath(cwd)
  BY <1>1, <1>3, <1>5, CwdIsDir, CwdIsDirNext DEF CwdIsThere
<1>6. QED
  BY <1>3, <1>4, <1>5

LEMMA WorkingDirSteps ==
    ASSUME WdInv, [WdNext]_wdVars
    PROVE  /\ WdInv'
           /\ IsDir(CwdPath) =>
                \/ IsDir(CwdPath)'
                \/ \E arg \in Arguments : Rmdir(arg) /\ IsOtherSpelling(Resolved(arg))
<1>1. CASE CdRoot
  <2>1. cwd' = <<>> /\ WdInv'
    BY <1>1, EmptySeq DEF CdRoot, WdInv
  <2>2. QED
    BY <2>1, CwdIsDirNext DEF CwdIsThere
<1>2. CASE UNCHANGED wdVars
  <2>1. WdInv' /\ cwd' = cwd /\ tree' = tree
    BY <1>2 DEF wdVars, WdInv
  <2>2. QED
    BY <2>1, CwdIsDir, CwdIsDirNext DEF CwdIsThere
<1>3. ASSUME NEW arg \in Arguments, Cd(arg) \/ Mkdir(arg)
      PROVE  WdInv' /\ (IsDir(CwdPath) => IsDir(CwdPath)')
  BY <1>3, CdStays, MkdirStays
<1>4. QED
  BY <1>1, <1>2, <1>3, CdUpStays, RmdirStays DEF WdNext

\* The working directory names a directory that is there, whatever is made, removed and changed to,
\* until it is removed under another spelling of its path: there is no other way to lose it.
THEOREM WorkingDirIsThere == WdSpec => WorkingDirStays
<1>1. WdInit => WdInv
  BY EmptySeq DEF WdInit, WdInv
<1>2. WdInv /\ [WdNext]_wdVars => WdInv'
  BY WorkingDirSteps
<1>3. WdInv /\ [WdNext]_wdVars =>
        [IsDir(CwdPath) =>
           \/ IsDir(CwdPath)'
           \/ \E arg \in Arguments : Rmdir(arg) /\ IsOtherSpelling(Resolved(arg))]_wdVars
  BY WorkingDirSteps
<1>4. QED
  BY <1>1, <1>2, <1>3, PTL DEF WdSpec, WorkingDirStays

-----------------------------------------------------------------------------
(* The console and the line.                                               *)

Glyphs == Symbols \cup {"newline"}

Index(c) == c.row * Cols + c.col

LEMMA ConsoleNumbers ==
    Rows \in Nat /\ Rows > 0 /\ Cols \in Nat /\ Cols > 0
BY ConsoleAssumption

\* A cell and its place in reading order determine each other.
LEMMA ReadingOrder ==
    ASSUME NEW r \in Nat, NEW x \in 0..Cols - 1
    PROVE  /\ r * Cols + x \in Nat
           /\ (r * Cols + x) \div Cols = r
           /\ (r * Cols + x) % Cols = x
<1> USE ConsoleNumbers
<1> DEFINE i == r * Cols + x
           q == i \div Cols
<1>1. r * Cols \in Nat
  OBVIOUS
<1>2. i \in Nat
  BY <1>1
<1> HIDE DEF i
<1>3. q \in Nat /\ i % Cols \in 0..Cols - 1 /\ i = Cols * q + (i % Cols)
  BY <1>2
<1> HIDE DEF q
<1>4. ~(q < r)
  <2>1. SUFFICES ASSUME q + 1 <= r PROVE FALSE
    BY <1>3
  <2>2. (q + 1) * Cols <= r * Cols /\ (q + 1) * Cols = Cols * q + Cols
    BY <1>3, <2>1
  <2>3. QED
    BY <1>1, <1>3, <2>2 DEF i
<1>5. ~(r < q)
  <2>1. SUFFICES ASSUME r + 1 <= q PROVE FALSE
    BY <1>3
  <2>2. (r + 1) * Cols <= Cols * q /\ (r + 1) * Cols = r * Cols + Cols
    BY <1>3, <2>1
  <2>3. QED
    BY <1>1, <1>3, <2>2 DEF i
<1>6. q = r
  BY <1>3, <1>4, <1>5
<1>7. i % Cols = x
  BY <1>1, <1>3, <1>6 DEF i
<1>8. QED
  BY <1>2, <1>6, <1>7 DEF i, q

\* The cell with a given number is on the screen, and no other number has it.
LEMMA NumberedCells ==
    ASSUME NEW i \in 0..Rows * Cols - 1
    PROVE  /\ <<i \div Cols, i % Cols>> \in Cells
           /\ i = (i \div Cols) * Cols + (i % Cols)
<1> USE ConsoleNumbers
<1>1. Rows * Cols \in Nat
  OBVIOUS
<1>2. i \in Nat /\ i < Rows * Cols
  BY <1>1
<1>3. i \div Cols \in Nat /\ i % Cols \in 0..Cols - 1 /\ i = Cols * (i \div Cols) + (i % Cols)
  BY <1>2
<1> DEFINE q == i \div Cols
<1> HIDE DEF q
<1>4. q < Rows
  <2>1. SUFFICES ASSUME Rows <= q PROVE FALSE
    BY <1>3 DEF q
  <2>2. Cols * Rows <= Cols * q /\ Cols * Rows = Rows * Cols
    BY <1>3, <2>1 DEF q
  <2>3. QED
    BY <1>1, <1>2, <1>3, <2>2 DEF q
<1>5. Cols * q = q * Cols
  BY <1>3 DEF q
<1>6. QED
  BY <1>3, <1>4, <1>5 DEF q, Cells

LEMMA ConsoleFields ==
    ASSUME NEW c \in Consoles
    PROVE  /\ c.row \in Nat /\ c.col \in 0..Cols /\ c.cells \in [Cells -> Symbols]
           /\ c.wiped \in BOOLEAN
           /\ c = [row |-> c.row, col |-> c.col, cells |-> c.cells, wiped |-> c.wiped]
BY DEF Consoles

LEMMA FreshConsoles ==
    /\ BlankScreen \in Consoles
    /\ \A c \in Consoles : Cleared(c) \in Consoles /\ Newline(c) \in Consoles
    /\ \A c \in Consoles : [c EXCEPT !.wiped = FALSE] \in Consoles
    /\ \A c \in Consoles : ConsoleBackspace(c) \in Consoles
    /\ \A c \in Consoles, cell \in Cells : [c EXCEPT !.cells[cell] = "ink"] \in Consoles
<1> USE ConsoleNumbers
<1>1. BlankScreen \in Consoles
  BY DEF BlankScreen, Consoles, Symbols
<1>2. ASSUME NEW c \in Consoles PROVE Cleared(c) \in Consoles
  BY <1>1 DEF Cleared, Consoles
<1>3. ASSUME NEW c \in Consoles PROVE Newline(c) \in Consoles
  <2>1. Newline(c) = [row |-> c.row + 1, col |-> 0, cells |-> c.cells, wiped |-> c.wiped]
    <3>1. [c EXCEPT !.row = @ + 1]
            = [row |-> c.row + 1, col |-> c.col, cells |-> c.cells, wiped |-> c.wiped]
      BY DEF Consoles
    <3>2. Newline(c) = [[c EXCEPT !.row = @ + 1] EXCEPT !.col = 0]
      BY DEF Newline
    <3>3. QED
      BY <3>1, <3>2
  <2>2. QED
    BY <2>1, ConsoleFields DEF Consoles
<1>4. \A c \in Consoles : [c EXCEPT !.wiped = FALSE] \in Consoles
  BY DEF Consoles
<1>5. ASSUME NEW c \in Consoles PROVE ConsoleBackspace(c) \in Consoles
  <2>1. CASE c.col = 0
    BY <2>1 DEF ConsoleBackspace
  <2>2. CASE c.col # 0
    <3>1. [c.cells EXCEPT ![<<c.row, c.col - 1>>] = "blank"] \in [Cells -> Symbols]
      BY ConsoleFields DEF Symbols
    <3>2. ConsoleBackspace(c) =
            [row |-> c.row, col |-> c.col - 1, wiped |-> c.wiped,
             cells |-> [c.cells EXCEPT ![<<c.row, c.col - 1>>] = "blank"]]
      BY <2>2 DEF ConsoleBackspace, Consoles
    <3>3. QED
      BY <2>2, <3>1, <3>2, ConsoleFields DEF Consoles
  <2>3. QED
    BY <2>1, <2>2
<1>6. \A c \in Consoles, cell \in Cells : [c EXCEPT !.cells[cell] = "ink"] \in Consoles
  BY DEF Consoles, Symbols
<1>7. QED
  BY <1>1, <1>2, <1>3, <1>4, <1>5, <1>6

\* A glyph is written right before the cursor it leaves behind, and unless the screen is cleared
\* for it, all that was before it stays where it was.
LEMMA GlyphWritten ==
    ASSUME NEW c \in Consoles, NEW s \in Symbols
    PROVE  LET d == WriteChar(c, s)
           IN /\ d \in Consoles
              /\ CellBefore(d, 1) = s
              /\ ~d.wiped => /\ ~c.wiped
                             /\ \A k \in Nat \ {0} : CellBefore(d, k + 1) = CellBefore(c, k)
<1> USE ConsoleNumbers
<1> DEFINE d == WriteChar(c, s)
           wrapped == IF c.col = Cols THEN Newline(c) ELSE c
           fits == IF wrapped.row >= Rows THEN Cleared(wrapped) ELSE wrapped
<1>1. d = [fits EXCEPT !.cells[<<fits.row, fits.col>>] = s, !.col = @ + 1]
  <2>1. s # "newline"
    BY DEF Symbols
  <2>2. QED
    BY <2>1 DEF WriteChar
<1>2. /\ wrapped \in Consoles /\ wrapped.col \in 0..Cols - 1
      /\ wrapped.wiped = c.wiped /\ wrapped.cells = c.cells /\ Index(wrapped) = Index(c)
  <2>1. CASE c.col = Cols
    <3>1. wrapped = Newline(c) /\ wrapped \in Consoles
      BY <2>1, FreshConsoles
    <3>2. /\ wrapped.row = c.row + 1 /\ wrapped.col = 0
          /\ wrapped.wiped = c.wiped /\ wrapped.cells = c.cells
      BY <2>1 DEF Newline, Consoles
    <3>3. (c.row + 1) * Cols + 0 = c.row * Cols + Cols
      BY ConsoleFields
    <3>4. QED
      BY <2>1, <3>1, <3>2, <3>3 DEF Index
  <2>2. CASE c.col # Cols
    BY <2>2, ConsoleFields
  <2>3. QED
    BY <2>1, <2>2
<1> HIDE DEF wrapped
<1>3. /\ fits \in Consoles /\ fits.col \in 0..Cols - 1 /\ fits.row \in 0..Rows - 1
      /\ ~fits.wiped => fits = wrapped
  <2>1. CASE wrapped.row >= Rows
    <3>1. fits = Cleared(wrapped) /\ fits \in Consoles
      BY <1>2, <2>1, FreshConsoles
    <3>2. fits.row = 0 /\ fits.col = 0 /\ fits.wiped = TRUE
      BY <3>1 DEF Cleared, BlankScreen
    <3>3. QED
      BY <3>1, <3>2
  <2>2. CASE ~(wrapped.row >= Rows)
    BY <1>2, <2>2, ConsoleFields
  <2>3. QED
    BY <2>1, <2>2
<1> HIDE DEF fits
<1> DEFINE place == <<fits.row, fits.col>>
<1>4. place \in Cells
  BY <1>3 DEF Cells
<1>5. /\ d \in Consoles /\ d.row = fits.row /\ d.col = fits.col + 1 /\ d.wiped = fits.wiped
      /\ d.cells = [fits.cells EXCEPT ![place] = s]
  <2>1. d = [row |-> fits.row, col |-> fits.col + 1, wiped |-> fits.wiped,
             cells |-> [fits.cells EXCEPT ![place] = s]]
    BY <1>1, <1>3, ConsoleFields
  <2>2. [fits.cells EXCEPT ![place] = s] \in [Cells -> Symbols]
    BY <1>3, ConsoleFields
  <2>3. fits.col + 1 \in 0..Cols /\ fits.row \in Nat /\ fits.wiped \in BOOLEAN
    BY <1>3, ConsoleFields
  <2> HIDE DEF d, place
  <2>4. QED
    BY <2>1, <2>2, <2>3 DEF Consoles
<1>6. fits.cells \in [Cells -> Symbols]
  BY <1>3, ConsoleFields
<1> HIDE DEF d, place
<1> DEFINE i == fits.row * Cols + fits.col
<1>7. /\ i \in Nat /\ i \div Cols = fits.row /\ i % Cols = fits.col
      /\ fits.row * Cols \in Nat /\ Rows * Cols \in Nat /\ fits.row \in Nat
  <2>1. fits.row \in Nat
    BY <1>3
  <2>2. i \in Nat /\ i \div Cols = fits.row /\ i % Cols = fits.col
    BY <1>3, <2>1, ReadingOrder
  <2>3. fits.row * Cols \in Nat /\ Rows * Cols \in Nat
    BY <2>1
  <2>4. QED
    BY <2>1, <2>2, <2>3
<1>8. i \in 0..Rows * Cols - 1
  <2>1. (fits.row + 1) * Cols <= Rows * Cols /\ (fits.row + 1) * Cols = fits.row * Cols + Cols
    BY <1>3
  <2>2. QED
    BY <1>3, <1>7, <2>1
<1> DEFINE base == fits.row * Cols
<1>9. d.row * Cols = base /\ base \in Nat /\ d.col \in Nat /\ base + d.col = i + 1
  <2>1. d.row * Cols = base
    BY <1>5
  <2>2. base \in Nat
    BY <1>7
  <2> HIDE DEF base
  <2>3. base + fits.col = i
    BY DEF base
  <2>4. QED
    BY <1>3, <1>5, <2>1, <2>2, <2>3
<1> HIDE DEF i, base
<1>10. CellBefore(d, 1) = s
  <2>1. d.row * Cols + d.col - 1 = i
    <3>1. base + d.col - 1 = i
      BY <1>7, <1>9
    <3>2. QED
      BY <1>9, <3>1
  <2>2. CellBefore(d, 1) = d.cells[<<i \div Cols, i % Cols>>]
    BY <1>8, <2>1 DEF CellBefore
  <2>3. QED
    BY <1>4, <1>5, <1>6, <1>7, <2>2 DEF place
<1>11. ASSUME ~d.wiped, NEW k \in Nat \ {0} PROVE CellBefore(d, k + 1) = CellBefore(c, k)
  <2>1. fits = wrapped /\ ~fits.wiped
    BY <1>3, <1>5, <1>11
  <2>2. /\ c.row * Cols + c.col = i /\ c.cells = fits.cells
        /\ c.row * Cols \in Nat /\ c.col \in Nat
    <3>1. c.row * Cols + c.col = i /\ c.cells = fits.cells
      BY <1>2, <2>1 DEF Index, i
    <3>2. QED
      BY <3>1, ConsoleFields
  <2> DEFINE j == i - k
  <2>3. d.row * Cols + d.col - (k + 1) = j /\ c.row * Cols + c.col - k = j
    <3>0. i \in Nat /\ k \in Nat
      BY <1>7
    <3>1. base + d.col - (k + 1) = j
      BY <1>9, <3>0
    <3> DEFINE there == c.row * Cols
    <3>2. there + c.col = i /\ there \in Nat /\ c.col \in Nat
      BY <2>2
    <3> HIDE DEF there
    <3>3. there + c.col - k = j
      BY <3>0, <3>2
    <3>4. QED
      BY <1>9, <3>1, <3>3 DEF there
  <2>4. CASE j \in 0..Rows * Cols - 1
    <3>1. <<j \div Cols, j % Cols>> \in Cells /\ j = (j \div Cols) * Cols + (j % Cols)
      BY <2>4, NumberedCells
    <3>2. j # i
      BY <1>7
    <3>3. <<j \div Cols, j % Cols>> # place
      BY <3>1, <3>2 DEF place, i
    <3>4. d.cells[<<j \div Cols, j % Cols>>] = c.cells[<<j \div Cols, j % Cols>>]
      BY <1>5, <1>6, <2>2, <3>1, <3>3
    <3>5. QED
      BY <2>3, <2>4, <3>4 DEF CellBefore
  <2>5. CASE j \notin 0..Rows * Cols - 1
    BY <2>3, <2>5 DEF CellBefore
  <2>6. QED
    BY <2>4, <2>5
<1>12. ~d.wiped => ~c.wiped
  BY <1>2, <1>3, <1>5
<1>13. QED
  BY <1>5, <1>10, <1>11, <1>12 DEF d

LEMMA CharWritten ==
    ASSUME NEW c \in Consoles, NEW s \in Glyphs
    PROVE  WriteChar(c, s) \in Consoles
<1>1. CASE s = "newline"
  BY <1>1, FreshConsoles DEF WriteChar
<1>2. CASE s \in Symbols
  BY <1>2, GlyphWritten
<1>3. QED
  BY <1>1, <1>2 DEF Glyphs

\* What write_str does, character by character.
LEMMA StringWritten ==
    ASSUME NEW c \in Consoles, NEW symbols \in Seq(Glyphs)
    PROVE  \E f \in [0..Len(symbols) -> Consoles] :
             /\ f[0] = c /\ f[Len(symbols)] = WriteStr(c, symbols)
             /\ \A i \in 1..Len(symbols) : f[i] = WriteChar(f[i - 1], symbols[i])
<1> DEFINE n == Len(symbols)
           G == [x \in Nat \X Consoles |->
                   IF x[1] \in 1..n THEN WriteChar(x[2], symbols[x[1]]) ELSE x[2]]
           written[i \in 0..Len(symbols)] ==
             IF i = 0 THEN c ELSE WriteChar(written[i - 1], symbols[i])
<1>1. WriteStr(c, symbols) = written[n]
  BY DEF WriteStr
<1>2. n \in Nat
  OBVIOUS
<1>3. G \in [Nat \X Consoles -> Consoles]
  <2>1. ASSUME NEW x \in Nat \X Consoles
        PROVE  (IF x[1] \in 1..n THEN WriteChar(x[2], symbols[x[1]]) ELSE x[2]) \in Consoles
    <3>1. x[2] \in Consoles
      OBVIOUS
    <3>2. x[1] \in 1..n => symbols[x[1]] \in Glyphs
      BY <1>2, ElementOfSeq
    <3>3. QED
      BY <3>1, <3>2, CharWritten
  <2>2. QED
    BY <2>1
<1>4. PICK f : Follows(f, c, G, n, Consoles)
  <2> HIDE DEF G, n
  <2>1. QED
    BY <1>2, <1>3, StepwiseFunction
<1> DEFINE step(i) == WriteChar(f[i - 1], symbols[i])
<1>5. ASSUME NEW i \in 1..n PROVE f[i] = step(i)
  <2>1. i \in Nat /\ i - 1 \in 0..n
    BY <1>2
  <2>2. f[i] = G[<<i, f[i - 1]>>] /\ f[i - 1] \in Consoles
    BY <1>4, <2>1 DEF Follows
  <2>3. QED
    BY <2>1, <2>2
<1>6. f \in [0..n -> Consoles] /\ f[0] = c
  BY <1>4 DEF Follows
<1>7. f = [i \in 0..Len(symbols) |-> IF i = 0 THEN c ELSE WriteChar(f[i - 1], symbols[i])]
  <2>1. f = [i \in 0..n |-> IF i = 0 THEN c ELSE step(i)]
    <3> HIDE DEF G, n, step
    <3>1. QED
      BY <1>2, <1>5, <1>6
  <2>2. QED
    BY <2>1
<1>8. written = [i \in 0..Len(symbols) |->
                   IF i = 0 THEN c ELSE WriteChar(written[i - 1], symbols[i])]
  BY <1>7
<1> HIDE DEF written, G
<1> DEFINE S == {i \in Nat : i <= n => written[i] \in Consoles}
<1>9. 0 \in S
  BY <1>2, <1>8
<1>10. ASSUME NEW i \in Nat, i \in S PROVE i + 1 \in S
  <2>1. SUFFICES ASSUME i + 1 <= n PROVE written[i + 1] \in Consoles
    BY <1>10
  <2>2. i + 1 \in 0..Len(symbols) /\ i + 1 # 0 /\ (i + 1) - 1 = i /\ i + 1 \in 1..n
    BY <1>2, <2>1
  <2>3. written[i] \in Consoles /\ symbols[i + 1] \in Glyphs
    BY <1>2, <1>10, <2>1, <2>2, ElementOfSeq
  <2>4. written[i + 1] = WriteChar(written[i], symbols[i + 1])
    BY <1>8, <2>2
  <2>5. QED
    BY <2>3, <2>4, CharWritten
<1>11. Nat \subseteq S
  <2> HIDE DEF S
  <2>1. QED
    BY <1>9, <1>10, SetInduction
<1>12. written \in [0..n -> Consoles] /\ written[0] = c
  <2>1. \A i \in 0..n : written[i] \in Consoles
    BY <1>11
  <2>2. written[0] = c
    BY <1>2, <1>8
  <2>3. QED
    BY <1>8, <2>1, <2>2
<1>13. \A i \in 1..n : written[i] = WriteChar(written[i - 1], symbols[i])
  BY <1>2, <1>8
<1>14. QED
  BY <1>1, <1>12, <1>13

LEMMA RepeatedIs ==
    ASSUME NEW s \in Symbols, NEW n \in Nat
    PROVE  /\ Repeated(s, n) \in Seq(Glyphs) /\ Len(Repeated(s, n)) = n
           /\ \A i \in 1..n : Repeated(s, n)[i] = s
BY DEF Repeated, Glyphs

LEMMA StringTyped ==
    ASSUME NEW c \in Consoles, NEW symbols \in Seq(Glyphs)
    PROVE  WriteStr(c, symbols) \in Consoles
<1>1. PICK f \in [0..Len(symbols) -> Consoles] : f[Len(symbols)] = WriteStr(c, symbols)
  BY StringWritten
<1>2. Len(symbols) \in 0..Len(symbols)
  OBVIOUS
<1>3. QED
  BY <1>1, <1>2

\* n times the same glyph: unless the screen is cleared on the way, they are the last n before the
\* cursor, and before them is what was there.
LEMMA RunOfGlyphs ==
    ASSUME NEW c \in Consoles, NEW s \in Symbols, NEW n \in Nat
    PROVE  LET d == WriteStr(c, Repeated(s, n))
           IN /\ d \in Consoles
              /\ ~d.wiped => /\ \A k \in 1..n : CellBefore(d, k) = s
                             /\ \A k \in Nat \ {0} : CellBefore(d, k + n) = CellBefore(c, k)
<1>1. PICK f \in [0..n -> Consoles] :
             /\ f[0] = c /\ f[n] = WriteStr(c, Repeated(s, n))
             /\ \A i \in 1..n : f[i] = WriteChar(f[i - 1], s)
  <2> DEFINE symbols == Repeated(s, n)
  <2>1. symbols \in Seq(Glyphs) /\ Len(symbols) = n /\ \A i \in 1..n : symbols[i] = s
    BY RepeatedIs
  <2> HIDE DEF symbols
  <2>2. PICK f \in [0..Len(symbols) -> Consoles] :
               /\ f[0] = c /\ f[Len(symbols)] = WriteStr(c, symbols)
               /\ \A i \in 1..Len(symbols) : f[i] = WriteChar(f[i - 1], symbols[i])
    BY <2>1, StringWritten
  <2>3. QED
    BY <2>1, <2>2 DEF symbols
<1> DEFINE Holds(i) == ~f[i].wiped =>
                         /\ \A k \in 1..i : CellBefore(f[i], k) = s
                         /\ \A k \in Nat \ {0} : CellBefore(f[i], k + i) = CellBefore(c, k)
           S == {i \in Nat : i <= n => Holds(i)}
<1>2. 0 \in S
  BY <1>1
<1>3. ASSUME NEW i \in Nat, i \in S PROVE i + 1 \in S
  <2>1. SUFFICES ASSUME i + 1 <= n, ~f[i + 1].wiped
                 PROVE  /\ \A k \in 1..i + 1 : CellBefore(f[i + 1], k) = s
                        /\ \A k \in Nat \ {0} : CellBefore(f[i + 1], k + (i + 1)) = CellBefore(c, k)
    BY <1>3
  <2>2. i \in 0..n /\ i + 1 \in 1..n /\ (i + 1) - 1 = i
    BY <2>1
  <2>3. f[i] \in Consoles /\ f[i + 1] = WriteChar(f[i], s)
    BY <1>1, <2>2
  <2>4. /\ ~f[i].wiped /\ CellBefore(f[i + 1], 1) = s
        /\ \A k \in Nat \ {0} : CellBefore(f[i + 1], k + 1) = CellBefore(f[i], k)
    <3> DEFINE e == f[i]
    <3>1. e \in Consoles /\ f[i + 1] = WriteChar(e, s)
      BY <2>3
    <3> HIDE DEF e
    <3>2. /\ CellBefore(f[i + 1], 1) = s
          /\ ~f[i + 1].wiped =>
               /\ ~e.wiped
               /\ \A k \in Nat \ {0} : CellBefore(f[i + 1], k + 1) = CellBefore(e, k)
      BY <3>1, GlyphWritten
    <3>3. QED
      BY <2>1, <3>2 DEF e
  <2>5. /\ \A k \in 1..i : CellBefore(f[i], k) = s
        /\ \A k \in Nat \ {0} : CellBefore(f[i], k + i) = CellBefore(c, k)
    BY <1>3, <2>2, <2>4
  <2>6. ASSUME NEW k \in 1..i + 1 PROVE CellBefore(f[i + 1], k) = s
    <3>1. CASE k = 1
      BY <2>4, <3>1
    <3>2. CASE k # 1
      <4>1. k - 1 \in 1..i /\ k - 1 \in Nat \ {0} /\ (k - 1) + 1 = k
        BY <3>2
      <4>2. QED
        BY <2>4, <2>5, <4>1
    <3>3. QED
      BY <3>1, <3>2
  <2>7. ASSUME NEW k \in Nat \ {0} PROVE CellBefore(f[i + 1], k + (i + 1)) = CellBefore(c, k)
    <3>1. k + i \in Nat \ {0} /\ (k + i) + 1 = k + (i + 1)
      OBVIOUS
    <3>2. QED
      BY <2>4, <2>5, <3>1
  <2>8. QED
    BY <2>6, <2>7
<1>4. Nat \subseteq S
  <2> HIDE DEF S
  <2>1. QED
    BY <1>2, <1>3, SetInduction
<1>5. Holds(n) /\ f[n] \in Consoles
  BY <1>4
<1>6. QED
  BY <1>1, <1>5

\* Lines of text leave a console.
LEMMA LinesPrinted ==
    ASSUME NEW c \in Consoles, NEW lengths \in Seq(Nat)
    PROVE  TextLines(c, lengths) \in Consoles
<1> DEFINE n == Len(lengths)
           Line(d, i) == Newline(WriteStr(d, Repeated("text", lengths[i])))
           G == [x \in Nat \X Consoles |-> IF x[1] \in 1..n THEN Line(x[2], x[1]) ELSE x[2]]
           printed[i \in 0..Len(lengths)] ==
             IF i = 0 THEN c
             ELSE Newline(WriteStr(printed[i - 1], Repeated("text", lengths[i])))
<1>1. TextLines(c, lengths) = printed[n]
  BY DEF TextLines
<1>2. n \in Nat /\ \A i \in 1..n : lengths[i] \in Nat
  BY ElementOfSeq
<1>3. ASSUME NEW d \in Consoles, NEW i \in 1..n PROVE Line(d, i) \in Consoles
  <2>1. Repeated("text", lengths[i]) \in Seq(Glyphs)
    BY <1>2, RepeatedIs DEF Symbols
  <2>2. QED
    BY <2>1, StringTyped, FreshConsoles
<1>4. G \in [Nat \X Consoles -> Consoles]
  <2> HIDE DEF n, Line
  <2>1. QED
    BY <1>3
<1>5. PICK f : Follows(f, c, G, n, Consoles)
  <2> HIDE DEF G, n
  <2>1. QED
    BY <1>2, <1>4, StepwiseFunction
<1>6. ASSUME NEW i \in 1..n PROVE f[i] = Line(f[i - 1], i)
  <2>1. i \in Nat /\ i - 1 \in 0..n
    BY <1>2
  <2>2. f[i] = G[<<i, f[i - 1]>>] /\ f[i - 1] \in Consoles
    BY <1>5, <2>1 DEF Follows
  <2> HIDE DEF Line
  <2>3. QED
    BY <2>1, <2>2
<1>7. f \in [0..n -> Consoles] /\ f[0] = c
  BY <1>5 DEF Follows
<1>8. f = [i \in 0..Len(lengths) |->
             IF i = 0 THEN c ELSE Newline(WriteStr(f[i - 1], Repeated("text", lengths[i])))]
  <2>1. f = [i \in 0..n |-> IF i = 0 THEN c ELSE Line(f[i - 1], i)]
    <3> HIDE DEF G, n, Line
    <3>1. QED
      BY <1>2, <1>6, <1>7
  <2>2. QED
    BY <2>1
<1>9. printed = [i \in 0..Len(lengths) |->
                   IF i = 0 THEN c
                   ELSE Newline(WriteStr(printed[i - 1], Repeated("text", lengths[i])))]
  BY <1>8
<1> HIDE DEF printed, G
<1> DEFINE S == {i \in Nat : i <= n => printed[i] \in Consoles}
<1>10. 0 \in S
  BY <1>2, <1>9
<1>11. ASSUME NEW i \in Nat, i \in S PROVE i + 1 \in S
  <2>1. SUFFICES ASSUME i + 1 <= n PROVE printed[i + 1] \in Consoles
    BY <1>11
  <2>2. i + 1 \in 0..Len(lengths) /\ i + 1 # 0 /\ (i + 1) - 1 = i /\ i + 1 \in 1..n
    BY <1>2, <2>1
  <2>3. printed[i] \in Consoles
    BY <1>2, <1>11, <2>1
  <2>4. printed[i + 1] = Line(printed[i], i + 1)
    BY <1>9, <2>2
  <2>5. QED
    BY <1>3, <2>2, <2>3, <2>4
<1>12. Nat \subseteq S
  <2> HIDE DEF S
  <2>1. QED
    BY <1>10, <1>11, SetInduction
<1>13. QED
  BY <1>1, <1>2, <1>12

\* A prompt stands right before the cursor, whatever was on the console, unless the screen is
\* cleared in the middle of it.
LEMMA PromptShown ==
    ASSUME NEW c \in Consoles, NEW n \in PromptLengths, NEW left, NEW other,
           Prompted(c, n, left, other)
    PROVE  /\ con' \in Consoles /\ line' = left /\ promptLen' = n
           /\ other \subseteq excuse' /\ excuse' \subseteq other \cup {"cleared"}
           /\ excuse' = {} => \A k \in 1..n : CellBefore(con', k) = "prompt"
<1> DEFINE begun == WriteChar(c, "prompt")
           first == [begun EXCEPT !.wiped = FALSE]
           done == WriteStr(first, Repeated("prompt", n - 1))
<1>1. /\ con' = done /\ line' = left /\ promptLen' = n
      /\ excuse' = other \cup (IF done.wiped THEN {"cleared"} ELSE {})
  BY DEF Prompted
<1>2. n \in Nat /\ n - 1 \in Nat /\ 1 + (n - 1) = n /\ "prompt" \in Symbols
  BY ConsoleAssumption DEF Symbols
<1>3. begun \in Consoles /\ CellBefore(begun, 1) = "prompt"
  BY <1>2, GlyphWritten
<1> HIDE DEF begun
<1>4. first \in Consoles /\ CellBefore(first, 1) = "prompt"
  <2>1. first \in Consoles
    BY <1>3, FreshConsoles
  <2>2. first.row = begun.row /\ first.col = begun.col /\ first.cells = begun.cells
    BY <1>3 DEF Consoles
  <2>3. QED
    BY <1>3, <2>1, <2>2 DEF CellBefore
<1> HIDE DEF first
<1>5. /\ done \in Consoles
      /\ ~done.wiped =>
           /\ \A k \in 1..n - 1 : CellBefore(done, k) = "prompt"
           /\ \A k \in Nat \ {0} : CellBefore(done, k + (n - 1)) = CellBefore(first, k)
  BY <1>2, <1>4, RunOfGlyphs
<1> HIDE DEF done
<1>6. ASSUME excuse' = {}, NEW k \in 1..n PROVE CellBefore(con', k) = "prompt"
  <2>1. ~done.wiped
    BY <1>1, <1>6
  <2>2. CASE k = n
    BY <1>1, <1>2, <1>4, <1>5, <2>1, <2>2
  <2>3. CASE k # n
    <3>1. k \in 1..n - 1
      BY <1>2, <2>3
    <3>2. QED
      BY <1>1, <1>5, <2>1, <3>1
  <2>4. QED
    BY <2>2, <2>3
<1>7. QED
  BY <1>1, <1>5, <1>6

\* The inductive invariant: nothing needs to be added to the two.
ShellInv == ShellTypeOK /\ EchoIsTheLine

LEMMA PromptKeepsShell ==
    ASSUME NEW c \in Consoles, NEW n \in PromptLengths, NEW left, NEW other
    PROVE  /\ Prompted(c, n, left, other) /\ penOn' \in BOOLEAN
           /\ other \subseteq {"wrapped", "cleared", "reprinted", "drawn over"}
           /\ left \in 0..MaxLine /\ (other = {} => left = 0)
           => ShellInv'
<1>0. SUFFICES ASSUME Prompted(c, n, left, other), penOn' \in BOOLEAN,
                      other \subseteq {"wrapped", "cleared", "reprinted", "drawn over"},
                      left \in 0..MaxLine, other = {} => left = 0
               PROVE  ShellInv'
  OBVIOUS
<1>1. /\ con' \in Consoles /\ line' = left /\ promptLen' = n
      /\ other \subseteq excuse' /\ excuse' \subseteq other \cup {"cleared"}
      /\ excuse' = {} => \A k \in 1..n : CellBefore(con', k) = "prompt"
  BY <1>0, PromptShown
<1>2. ShellTypeOK'
  <2>1. con' \in Consoles /\ line' \in 0..MaxLine /\ promptLen' \in PromptLengths
    BY <1>0, <1>1
  <2>2. excuse' \subseteq {"wrapped", "cleared", "reprinted", "drawn over"}
    BY <1>0, <1>1
  <2>3. QED
    BY <1>0, <2>1, <2>2 DEF ShellTypeOK
<1>3. ASSUME excuse' = {}
      PROVE  /\ \A k \in 1..line' : CellBefore(con', k) = "key"
             /\ \A k \in line' + 1..line' + promptLen' : CellBefore(con', k) = "prompt"
  <2>1. line' = 0
    BY <1>0, <1>1, <1>3
  <2>2. n \in Nat
    BY ConsoleAssumption
  <2> DEFINE l == line'
             m == promptLen'
  <2>3. l \in Nat /\ m \in Nat /\ l = 0 /\ m = n
    BY <1>1, <2>1, <2>2
  <2> HIDE DEF l, m
  <2>4. \A k \in 1..l : CellBefore(con', k) = "key"
    BY <2>3
  <2>5. \A k \in l + 1..l + m : k \in 1..n
    BY <2>3
  <2>6. \A k \in l + 1..l + m : CellBefore(con', k) = "prompt"
    BY <1>1, <1>3, <2>5
  <2>7. QED
    BY <2>4, <2>6 DEF l, m
<1>4. EchoIsTheLine'
  BY <1>3 DEF EchoIsTheLine
<1>5. QED
  BY <1>2, <1>4 DEF ShellInv

LEMMA ShellAtFirst == ShellInit => ShellInv
<1> SUFFICES ASSUME ShellInit PROVE ShellInv
  OBVIOUS
<1>1. PICK n \in PromptLengths :
         LET done == WriteStr(BlankScreen, Repeated("prompt", n))
         IN /\ con = done /\ line = 0 /\ penOn = FALSE /\ promptLen = n
            /\ excuse = IF done.wiped THEN {"cleared"} ELSE {}
  BY DEF ShellInit
<1>2. n \in Nat /\ "prompt" \in Symbols /\ MaxLine \in Nat
  BY ConsoleAssumption DEF Symbols
<1>3. /\ con \in Consoles
      /\ ~con.wiped => \A k \in 1..n : CellBefore(con, k) = "prompt"
  BY <1>1, <1>2, FreshConsoles, RunOfGlyphs
<1>4. ShellTypeOK
  <2>1. excuse \subseteq {"wrapped", "cleared", "reprinted", "drawn over"}
    BY <1>1
  <2>2. line \in 0..MaxLine /\ promptLen \in PromptLengths
    BY <1>1, <1>2
  <2>3. penOn \in BOOLEAN
    BY DEF ShellInit
  <2>4. QED
    BY <1>3, <2>1, <2>2, <2>3 DEF ShellTypeOK
<1>5. EchoIsTheLine
  BY <1>1, <1>2, <1>3 DEF EchoIsTheLine
<1>6. QED
  BY <1>4, <1>5 DEF ShellInv

LEMMA TypingKeepsShell == ShellInv /\ TypeChar => ShellInv'
<1> SUFFICES ASSUME ShellInv, TypeChar PROVE ShellInv'
  OBVIOUS
<1> DEFINE c == [con EXCEPT !.wiped = FALSE]
           d == WriteChar(c, "key")
<1>1. /\ con \in Consoles /\ line \in 0..MaxLine /\ promptLen \in PromptLengths
      /\ promptLen \in Nat /\ MaxLine \in Nat /\ "key" \in Symbols
  BY ConsoleAssumption DEF ShellInv, ShellTypeOK, Symbols
<1>2. /\ line < MaxLine /\ line' = line + 1 /\ con' = d
      /\ excuse' = excuse \cup (IF d.wiped THEN {"cleared"} ELSE {})
      /\ promptLen' = promptLen /\ penOn' = penOn
  BY DEF TypeChar
<1>3. c \in Consoles /\ \A k \in Nat : CellBefore(c, k) = CellBefore(con, k)
  <2>1. c \in Consoles
    BY <1>1, FreshConsoles
  <2>2. c.row = con.row /\ c.col = con.col /\ c.cells = con.cells
    BY <1>1 DEF Consoles
  <2> HIDE DEF c
  <2>3. QED
    BY <2>1, <2>2 DEF CellBefore
<1> HIDE DEF c
<1>4. /\ d \in Consoles /\ CellBefore(d, 1) = "key"
      /\ ~d.wiped => \A k \in Nat \ {0} : CellBefore(d, k + 1) = CellBefore(c, k)
  BY <1>1, <1>3, GlyphWritten
<1> HIDE DEF d
<1>5. ShellTypeOK'
  <2>1. excuse' \subseteq {"wrapped", "cleared", "reprinted", "drawn over"}
    BY <1>2 DEF ShellInv, ShellTypeOK
  <2>2. line' \in 0..MaxLine
    BY <1>1, <1>2
  <2>3. penOn' \in BOOLEAN /\ promptLen' \in PromptLengths
    BY <1>2 DEF ShellInv, ShellTypeOK
  <2>4. QED
    BY <1>2, <1>4, <2>1, <2>2, <2>3 DEF ShellTypeOK
<1>6. ASSUME excuse' = {}
      PROVE  /\ \A k \in 1..line + 1 : CellBefore(d, k) = "key"
             /\ \A k \in line + 1 + 1..line + 1 + promptLen : CellBefore(d, k) = "prompt"
  <2>1. ~d.wiped /\ excuse = {}
    BY <1>2, <1>6
  <2>2. /\ \A k \in 1..line : CellBefore(con, k) = "key"
        /\ \A k \in line + 1..line + promptLen : CellBefore(con, k) = "prompt"
    BY <2>1 DEF ShellInv, EchoIsTheLine
  <2>3. ASSUME NEW k \in Nat \ {0, 1} PROVE CellBefore(d, k) = CellBefore(con, k - 1)
    <3>1. k - 1 \in Nat \ {0} /\ (k - 1) + 1 = k
      OBVIOUS
    <3>2. QED
      BY <1>3, <1>4, <2>1, <3>1
  <2>4. ASSUME NEW k \in 1..line + 1 PROVE CellBefore(d, k) = "key"
    <3>1. k # 1 => k \in Nat \ {0, 1} /\ k - 1 \in 1..line
      BY <1>1
    <3>2. QED
      BY <1>4, <2>2, <2>3, <3>1
  <2>5. ASSUME NEW k \in line + 1 + 1..line + 1 + promptLen PROVE CellBefore(d, k) = "prompt"
    <3>1. k \in Nat \ {0, 1} /\ k - 1 \in line + 1..line + promptLen
      BY <1>1
    <3>2. QED
      BY <2>2, <2>3, <3>1
  <2>6. QED
    BY <2>4, <2>5
<1>7. EchoIsTheLine'
  BY <1>2, <1>6 DEF EchoIsTheLine
<1>8. QED
  BY <1>5, <1>7 DEF ShellInv

LEMMA BackspaceKeepsShell == ShellInv /\ Backspace => ShellInv'
<1> SUFFICES ASSUME ShellInv, Backspace PROVE ShellInv'
  OBVIOUS
<1> DEFINE d == ConsoleBackspace(con)
<1>1. /\ con \in Consoles /\ line \in 0..MaxLine /\ promptLen \in Nat /\ MaxLine \in Nat
  BY ConsoleAssumption DEF ShellInv, ShellTypeOK
<1>2. /\ line > 0 /\ line' = line - 1 /\ con' = d
      /\ excuse' = excuse \cup (IF con.col = 0 THEN {"wrapped"} ELSE {})
      /\ promptLen' = promptLen /\ penOn' = penOn
  BY DEF Backspace
<1>3. d \in Consoles
  BY <1>1, FreshConsoles
<1>4. ShellTypeOK'
  <2>1. excuse' \subseteq {"wrapped", "cleared", "reprinted", "drawn over"}
    BY <1>2 DEF ShellInv, ShellTypeOK
  <2>2. line' \in 0..MaxLine
    BY <1>1, <1>2
  <2>3. penOn' \in BOOLEAN /\ promptLen' \in PromptLengths
    BY <1>2 DEF ShellInv, ShellTypeOK
  <2>4. QED
    BY <1>2, <1>3, <2>1, <2>2, <2>3 DEF ShellTypeOK
<1>5. ASSUME con.col # 0, NEW k \in Nat \ {0} PROVE CellBefore(d, k) = CellBefore(con, k + 1)
  <2> DEFINE place == <<con.row, con.col - 1>>
             base == con.row * Cols
             j == base + con.col - 1 - k
  <2>1. con.row \in Nat /\ con.col \in 0..Cols /\ con.cells \in [Cells -> Symbols]
    BY <1>1, ConsoleFields
  <2>2. d = [con EXCEPT !.cells[place] = "blank", !.col = @ - 1]
    BY <1>5 DEF ConsoleBackspace
  <2>3. d.row = con.row /\ d.col = con.col - 1 /\ d.cells = [con.cells EXCEPT ![place] = "blank"]
    BY <1>1, <2>2 DEF Consoles
  <2>4. base \in Nat /\ base + (con.col - 1) \in Nat /\ con.col - 1 \in 0..Cols - 1
    <3>1. base \in Nat
      BY <2>1, ConsoleNumbers
    <3> HIDE DEF base
    <3>2. con.col - 1 \in 0..Cols - 1
      BY <1>5, <2>1, ConsoleNumbers
    <3>3. QED
      BY <3>1, <3>2, ConsoleNumbers
  <2> HIDE DEF d
  <2>5. d.row * Cols + d.col - k = j /\ con.row * Cols + con.col - (k + 1) = j
    <3>1. d.row * Cols = base /\ con.row * Cols = base
      BY <2>3
    <3> HIDE DEF base
    <3>2. QED
      BY <2>1, <2>3, <2>4, <3>1
  <2>6. CASE j \in 0..Rows * Cols - 1
    <3>1. <<j \div Cols, j % Cols>> \in Cells /\ j = (j \div Cols) * Cols + (j % Cols)
      BY <2>6, NumberedCells
    <3>2. <<j \div Cols, j % Cols>> # place
      <4>1. SUFFICES ASSUME <<j \div Cols, j % Cols>> = place PROVE FALSE
        OBVIOUS
      <4>2. j = base + (con.col - 1)
        BY <3>1, <4>1
      <4> HIDE DEF base
      <4>3. QED
        BY <2>1, <2>4, <4>2
    <3>3. d.cells[<<j \div Cols, j % Cols>>] = con.cells[<<j \div Cols, j % Cols>>]
      BY <2>1, <2>3, <3>1, <3>2
    <3> HIDE DEF j
    <3>4. QED
      BY <2>5, <2>6, <3>3 DEF CellBefore
  <2>7. CASE j \notin 0..Rows * Cols - 1
    <3> HIDE DEF j
    <3>1. QED
      BY <2>5, <2>7 DEF CellBefore
  <2>8. QED
    BY <2>6, <2>7
<1> HIDE DEF d
<1>6. ASSUME excuse' = {}
      PROVE  /\ \A k \in 1..line - 1 : CellBefore(d, k) = "key"
             /\ \A k \in line - 1 + 1..line - 1 + promptLen : CellBefore(d, k) = "prompt"
  <2>1. con.col # 0 /\ excuse = {}
    BY <1>2, <1>6
  <2>2. /\ \A k \in 1..line : CellBefore(con, k) = "key"
        /\ \A k \in line + 1..line + promptLen : CellBefore(con, k) = "prompt"
    BY <2>1 DEF ShellInv, EchoIsTheLine
  <2>3. ASSUME NEW k \in 1..line - 1 PROVE CellBefore(d, k) = "key"
    <3>1. k \in Nat \ {0} /\ k + 1 \in 1..line
      BY <1>1
    <3>2. QED
      BY <1>5, <2>1, <2>2, <3>1
  <2>4. ASSUME NEW k \in line - 1 + 1..line - 1 + promptLen PROVE CellBefore(d, k) = "prompt"
    <3>1. k \in Nat \ {0} /\ k + 1 \in line + 1..line + promptLen
      BY <1>1, <1>2
    <3>2. QED
      BY <1>5, <2>1, <2>2, <3>1
  <2>5. QED
    BY <2>3, <2>4
<1>7. EchoIsTheLine'
  BY <1>2, <1>6 DEF EchoIsTheLine
<1>8. QED
  BY <1>4, <1>7 DEF ShellInv

LEMMA EnterKeepsShell == ShellInv /\ Enter => ShellInv'
<1> SUFFICES ASSUME ShellInv, Enter PROVE ShellInv'
  OBVIOUS
<1>1. /\ con \in Consoles /\ 0 \in 0..MaxLine
      /\ Outputs \subseteq Seq(Nat) /\ DrawnCells \subseteq Cells
  <2>1. con \in Consoles
    BY DEF ShellInv, ShellTypeOK
  <2>2. 0 \in 0..MaxLine
    BY ConsoleAssumption
  <2>3. Outputs \subseteq Seq(Nat) /\ DrawnCells \subseteq Cells
    BY ConsoleAssumption DEF Cells
  <2>4. QED
    BY <2>1, <2>2, <2>3
<1> DEFINE c == Newline(con)
<1>2. c \in Consoles
  BY <1>1, FreshConsoles
<1> HIDE DEF c
<1>3. PICK n \in PromptLengths : RunCommand(c, n)
  BY DEF Enter, c
<1>4. penOn' \in BOOLEAN
  BY DEF Enter
<1>5. ASSUME NEW out \in Outputs, Prompted(TextLines(c, out), n, 0, {}) PROVE ShellInv'
  <2>1. TextLines(c, out) \in Consoles
    BY <1>1, <1>2, LinesPrinted
  <2>2. QED
    BY <1>1, <1>4, <1>5, <2>1, PromptKeepsShell
<1>6. ASSUME Prompted(Cleared(c), n, 0, {}) PROVE ShellInv'
  <2>1. Cleared(c) \in Consoles
    BY <1>2, FreshConsoles
  <2>2. QED
    BY <1>1, <1>4, <1>6, <2>1, PromptKeepsShell
<1>7. ASSUME NEW cell \in DrawnCells, Prompted([c EXCEPT !.cells[cell] = "ink"], n, 0, {})
      PROVE  ShellInv'
  <2>1. [c EXCEPT !.cells[cell] = "ink"] \in Consoles
    BY <1>1, <1>2, FreshConsoles
  <2>2. QED
    BY <1>1, <1>4, <1>7, <2>1, PromptKeepsShell
<1>8. QED
  BY <1>3, <1>5, <1>6, <1>7 DEF RunCommand

LEMMA RightClickKeepsShell == ShellInv /\ RightClick => ShellInv'
<1> SUFFICES ASSUME ShellInv, RightClick PROVE ShellInv'
  OBVIOUS
<1>1. con \in Consoles /\ line \in 0..MaxLine /\ MaxLine \in Nat
  BY ConsoleAssumption DEF ShellInv, ShellTypeOK
<1> DEFINE note == <<"newline", "text", "newline">>
           c == WriteStr(con, note)
           other == IF line > 0 THEN {"reprinted"} ELSE {}
<1>2. c \in Consoles
  <2>1. note \in Seq(Glyphs)
    BY DEF Glyphs, Symbols
  <2>2. QED
    BY <1>1, <2>1, StringTyped
<1>3. PICK n \in PromptLengths : Prompted(c, n, line, other)
  BY DEF RightClick
<1>4. penOn' \in BOOLEAN
  BY DEF RightClick
<1>5. /\ other \subseteq {"wrapped", "cleared", "reprinted", "drawn over"}
      /\ other = {} => line = 0
  <2>1. CASE line > 0
    BY <2>1
  <2>2. CASE ~(line > 0)
    BY <1>1, <2>2
  <2>3. QED
    BY <2>1, <2>2
<1> HIDE DEF c, other
<1>6. QED
  BY <1>1, <1>2, <1>3, <1>4, <1>5, PromptKeepsShell

LEMMA ShellKept == ShellInv /\ [ShellNext]_shellVars => ShellInv'
<1> SUFFICES ASSUME ShellInv, [ShellNext]_shellVars PROVE ShellInv'
  OBVIOUS
<1>1. CASE TypeChar
  BY <1>1, TypingKeepsShell
<1>2. CASE Backspace
  BY <1>2, BackspaceKeepsShell
<1>3. CASE Enter
  BY <1>3, EnterKeepsShell
<1>4. CASE RightClick
  BY <1>4, RightClickKeepsShell
<1>5. CASE PenStroke
  <2>1. PICK cell \in DrawnCells : con' = [con EXCEPT !.cells[cell] = "ink"]
    BY <1>5 DEF PenStroke
  <2>2. con' \in Consoles
    <3>1. cell \in Cells /\ con \in Consoles
      BY ConsoleAssumption DEF Cells, ShellInv, ShellTypeOK
    <3>2. QED
      BY <2>1, <3>1, FreshConsoles
  <2>3. /\ excuse' = excuse \cup {"drawn over"}
        /\ line' = line /\ penOn' = penOn /\ promptLen' = promptLen
    BY <1>5 DEF PenStroke
  <2>4. ShellTypeOK'
    BY <2>2, <2>3 DEF ShellInv, ShellTypeOK
  <2>5. EchoIsTheLine'
    BY <2>3 DEF EchoIsTheLine
  <2>6. QED
    BY <2>4, <2>5 DEF ShellInv
<1>6. CASE UNCHANGED shellVars
  BY <1>6 DEF ShellInv, ShellTypeOK, EchoIsTheLine, shellVars, CellBefore
<1>7. QED
  BY <1>1, <1>2, <1>3, <1>4, <1>5, <1>6 DEF ShellNext

\* shell.rs and console.rs: what stands before the cursor is the prompt and then exactly what Enter
\* will run, for every size of the screen, every prompt, and every output of commands.
THEOREM TheEchoIsTrue == ShellSpec => []EchoIsTheLine
<1>1. ShellInit => ShellInv
  BY ShellAtFirst
<1>2. ShellInv /\ [ShellNext]_shellVars => ShellInv'
  BY ShellKept
<1>3. ShellInv => EchoIsTheLine
  BY DEF ShellInv
<1>4. QED
  BY <1>1, <1>2, <1>3, PTL DEF ShellSpec

-----------------------------------------------------------------------------
(* The code of a weight.                                                   *)

Width3 == Trits + TritsPerByte

LEMMA CodeNumbers ==
    /\ Trits \in Nat /\ Trits > 0 /\ TritsPerByte \in Nat /\ TritsPerByte > 0
    /\ UnitsPerStep \in Nat /\ UnitsPerStep > 0 /\ FileEntries \in Nat /\ FileEntries > 0
    /\ Width3 \in Nat
BY WeightsAssumption DEF Width3

LEMMA PowersOf3 ==
    /\ PowerOf3[0] = 1
    /\ \A i \in 1..Width3 : PowerOf3[i] = 3 * PowerOf3[i - 1]
    /\ \A i \in 0..Width3 : PowerOf3[i] \in Nat \ {0}
<1> DEFINE n == Width3
           R == Nat \ {0}
           G == [x \in Nat \X R |-> 3 * x[2]]
<1>1. n \in Nat /\ 1 \in R
  BY CodeNumbers
<1>2. G \in [Nat \X R -> R]
  OBVIOUS
<1>3. PICK f : Follows(f, 1, G, n, R)
  <2> HIDE DEF G, n, R
  <2>1. QED
    BY <1>1, <1>2, StepwiseFunction
<1>4. f \in [0..n -> R] /\ f[0] = 1
  BY <1>3 DEF Follows
<1>5. ASSUME NEW i \in 1..n PROVE f[i] = 3 * f[i - 1]
  <2>1. i \in Nat /\ i - 1 \in 0..n
    BY <1>1
  <2>2. f[i] = G[<<i, f[i - 1]>>] /\ f[i - 1] \in R
    BY <1>3, <2>1 DEF Follows
  <2>3. QED
    BY <2>1, <2>2
<1>6. f = [i \in 0..Trits + TritsPerByte |-> IF i = 0 THEN 1 ELSE 3 * f[i - 1]]
  <2>1. f = [i \in 0..n |-> IF i = 0 THEN 1 ELSE 3 * f[i - 1]]
    <3> HIDE DEF n, R, G
    <3>1. QED
      BY <1>1, <1>4, <1>5
  <2>2. QED
    BY <2>1 DEF Width3
<1>7. PowerOf3 = [i \in 0..Trits + TritsPerByte |-> IF i = 0 THEN 1 ELSE 3 * PowerOf3[i - 1]]
  BY <1>6 DEF PowerOf3
<1> HIDE DEF R, G
<1>8. PowerOf3[0] = 1 /\ \A i \in 1..n : PowerOf3[i] = 3 * PowerOf3[i - 1]
  BY <1>1, <1>7 DEF Width3
<1> DEFINE S == {i \in Nat : i <= n => PowerOf3[i] \in Nat \ {0}}
<1>9. 0 \in S
  BY <1>8
<1>10. ASSUME NEW i \in Nat, i \in S PROVE i + 1 \in S
  <2>1. SUFFICES ASSUME i + 1 <= n PROVE PowerOf3[i + 1] \in Nat \ {0}
    BY <1>10
  <2>2. i + 1 \in 1..n /\ (i + 1) - 1 = i /\ PowerOf3[i] \in Nat \ {0}
    BY <1>1, <1>10, <2>1
  <2>3. PowerOf3[i + 1] = 3 * PowerOf3[i]
    BY <1>8, <2>2
  <2>4. QED
    BY <2>2, <2>3
<1>11. Nat \subseteq S
  <2> HIDE DEF S
  <2>1. QED
    BY <1>9, <1>10, SetInduction
<1>12. QED
  BY <1>1, <1>8, <1>11

\* Dividing: what a quotient and a remainder below the divisor are, is decided by them.
LEMMA QuotientIs ==
    ASSUME NEW b \in Nat \ {0}, NEW q \in Nat, NEW r \in 0..b - 1
    PROVE  (b * q + r) \div b = q /\ b * q + r \in Nat
<1> DEFINE a == b * q + r
           d == a \div b
<1>1. b * q \in Nat /\ a \in Nat
  OBVIOUS
<1> HIDE DEF a
<1>2. d \in Nat /\ a % b \in 0..b - 1 /\ a = b * d + (a % b)
  BY <1>1
<1> HIDE DEF d
<1>3. ~(d < q)
  <2>1. SUFFICES ASSUME d + 1 <= q PROVE FALSE
    BY <1>2
  <2>2. b * (d + 1) <= b * q /\ b * (d + 1) = b * d + b
    BY <1>2, <2>1
  <2>3. QED
    BY <1>1, <1>2, <2>2 DEF a
<1>4. ~(q < d)
  <2>1. SUFFICES ASSUME q + 1 <= d PROVE FALSE
    BY <1>2
  <2>2. b * (q + 1) <= b * d /\ b * (q + 1) = b * q + b
    BY <1>2, <2>1
  <2>3. QED
    BY <1>1, <1>2, <2>2 DEF a
<1>5. QED
  BY <1>1, <1>2, <1>3, <1>4 DEF a, d

LEMMA DivisionIs ==
    ASSUME NEW a \in Nat, NEW b \in Nat \ {0}
    PROVE  /\ a \div b \in Nat /\ a % b \in 0..b - 1
           /\ a = b * (a \div b) + (a % b)
OBVIOUS

\* Dividing by b and then by 3 is dividing by 3 * b.
LEMMA DivideTwice ==
    ASSUME NEW a \in Nat, NEW b \in Nat \ {0}
    PROVE  /\ a \div (3 * b) \in Nat
           /\ a \div b = 3 * (a \div (3 * b)) + ((a \div b) % 3)
           /\ (a \div b) % 3 \in 0..2
<1> DEFINE q == a \div b
           p == q \div 3
           c == q % 3
           r == a % b
<1>1. q \in Nat /\ r \in 0..b - 1 /\ a = b * q + r
  BY DivisionIs
<1> HIDE DEF q, r
<1>2. p \in Nat /\ c \in 0..2 /\ q = 3 * p + c
  BY <1>1
<1> HIDE DEF p, c
<1>3. a = (3 * b) * p + (b * c + r)
  <2>1. b * (3 * p + c) = b * (3 * p) + b * c /\ b * (3 * p) = (3 * b) * p
    BY <1>2
  <2>2. QED
    BY <1>1, <1>2, <2>1
<1>4. b * c + r \in 0..3 * b - 1
  <2>1. b * c \in Nat /\ b * c <= 2 * b
    <3>1. c = 0 \/ c = 1 \/ c = 2
      BY <1>2
    <3>2. QED
      BY <3>1
  <2>2. QED
    BY <1>1, <2>1
<1>5. a \div (3 * b) = p
  <2> DEFINE s == b * c + r
             m == 3 * b
  <2>1. m \in Nat \ {0} /\ s \in 0..m - 1 /\ a = m * p + s
    BY <1>3, <1>4
  <2> HIDE DEF s, m
  <2>2. a \div m = p
    BY <1>2, <2>1, QuotientIs
  <2>3. QED
    BY <2>2 DEF m
<1>6. QED
  BY <1>2, <1>5 DEF q, c

LEMMA DigitIsSmall ==
    ASSUME NEW a \in Nat, NEW k \in 0..Width3
    PROVE  DigitOf(a, k) \in 0..2
<1>1. PowerOf3[k] \in Nat \ {0}
  BY PowersOf3
<1>2. QED
  BY <1>1, DivideTwice DEF DigitOf

-----------------------------------------------------------------------------

LEMMA ValueIs ==
    ASSUME NEW n \in 0..Width3, NEW digits, \A i \in 1..n : digits[i] \in 0..2
    PROVE  \E f \in [0..n -> Nat] :
             /\ f[0] = 0 /\ f[n] = Value(digits, n)
             /\ \A i \in 1..n : f[i] = f[i - 1] + digits[i] * PowerOf3[i - 1]
<1> DEFINE G == [x \in Nat \X Nat |->
                   IF x[1] \in 1..n THEN x[2] + digits[x[1]] * PowerOf3[x[1] - 1] ELSE x[2]]
           upTo[i \in 0..n] == IF i = 0 THEN 0 ELSE upTo[i - 1] + digits[i] * PowerOf3[i - 1]
           step(x, i) == x + digits[i] * PowerOf3[i - 1]
<1>1. Value(digits, n) = upTo[n]
  BY DEF Value
<1>2. n \in Nat /\ n <= Width3 /\ Width3 \in Nat
  BY CodeNumbers
<1>3. ASSUME NEW x \in Nat, NEW i \in 1..n PROVE step(x, i) \in Nat
  <2>1. i - 1 \in 0..Width3 /\ digits[i] \in Nat
    BY <1>2
  <2>2. PowerOf3[i - 1] \in Nat
    BY <2>1, PowersOf3
  <2> DEFINE p == PowerOf3[i - 1]
             d == digits[i]
  <2>3. p \in Nat /\ d \in Nat
    BY <2>1, <2>2
  <2> HIDE DEF p, d
  <2>4. x + d * p \in Nat
    BY <2>3
  <2>5. QED
    BY <2>4 DEF p, d
<1>4. G \in [Nat \X Nat -> Nat]
  <2>1. ASSUME NEW x \in Nat \X Nat
        PROVE  (IF x[1] \in 1..n THEN step(x[2], x[1]) ELSE x[2]) \in Nat
    <3> HIDE DEF step
    <3>1. QED
      BY <1>3
  <2> HIDE DEF step
  <2>2. [x \in Nat \X Nat |-> IF x[1] \in 1..n THEN step(x[2], x[1]) ELSE x[2]]
          \in [Nat \X Nat -> Nat]
    BY <2>1
  <2>3. QED
    BY <2>2 DEF step
<1>5. PICK f : Follows(f, 0, G, n, Nat)
  <2> HIDE DEF G
  <2>1. QED
    BY <1>2, <1>4, StepwiseFunction
<1>6. f \in [0..n -> Nat] /\ f[0] = 0
  BY <1>5 DEF Follows
<1>7. ASSUME NEW i \in 1..n PROVE f[i] = step(f[i - 1], i)
  <2>1. i \in Nat /\ i - 1 \in 0..n
    BY <1>2
  <2> DEFINE y == f[i - 1]
  <2> HIDE DEF G
  <2>2. f[i] = G[<<i, y>>] /\ y \in Nat
    BY <1>5, <2>1 DEF Follows
  <2> HIDE DEF y
  <2>3. G[<<i, y>>] = step(y, i)
    BY <2>1, <2>2 DEF G
  <2>4. QED
    BY <2>2, <2>3 DEF y
<1>8. f = [i \in 0..n |-> IF i = 0 THEN 0 ELSE f[i - 1] + digits[i] * PowerOf3[i - 1]]
  <2>1. f = [i \in 0..n |-> IF i = 0 THEN 0 ELSE step(f[i - 1], i)]
    <3> HIDE DEF G, step
    <3>1. QED
      BY <1>2, <1>6, <1>7
  <2>2. QED
    BY <2>1
<1>9. upTo = [i \in 0..n |->
                IF i = 0 THEN 0 ELSE upTo[i - 1] + digits[i] * PowerOf3[i - 1]]
  BY <1>8
<1> HIDE DEF upTo, G
<1>10. upTo[0] = 0 /\ \A i \in 1..n : upTo[i] = step(upTo[i - 1], i)
  <2> DEFINE h == [i \in 0..n |-> IF i = 0 THEN 0 ELSE step(upTo[i - 1], i)]
  <2>1. upTo = h
    BY <1>9
  <2> HIDE DEF step
  <2>2. h[0] = 0 /\ \A i \in 1..n : h[i] = step(upTo[i - 1], i)
    BY <1>2
  <2>3. QED
    BY <2>1, <2>2
<1> DEFINE S == {i \in Nat : i <= n => upTo[i] \in Nat}
<1>11. 0 \in S
  BY <1>10
<1>12. ASSUME NEW i \in Nat, i \in S PROVE i + 1 \in S
  <2>1. SUFFICES ASSUME i + 1 <= n PROVE upTo[i + 1] \in Nat
    BY <1>12
  <2>2. i + 1 \in 1..n /\ (i + 1) - 1 = i /\ upTo[i] \in Nat
    BY <1>2, <1>12, <2>1
  <2> HIDE DEF step
  <2>3. QED
    BY <1>3, <1>10, <2>2
<1>13. Nat \subseteq S
  <2> HIDE DEF S
  <2>1. QED
    BY <1>11, <1>12, SetInduction
<1>14. upTo \in [0..n -> Nat]
  <2>1. \A i \in 0..n : upTo[i] \in Nat
    BY <1>2, <1>13
  <2>2. QED
    BY <1>9, <2>1
<1>15. QED
  BY <1>1, <1>10, <1>14

\* The digits of a number are the ones it was made of.
LEMMA DigitsReadBack ==
    ASSUME NEW n \in 0..Width3, NEW digits, \A i \in 1..n : digits[i] \in 0..2
    PROVE  /\ Value(digits, n) \in Nat
           /\ \A k \in 1..n : DigitOf(Value(digits, n), k - 1) = digits[k]
<1>1. PICK f \in [0..n -> Nat] :
             /\ f[0] = 0 /\ f[n] = Value(digits, n)
             /\ \A i \in 1..n : f[i] = f[i - 1] + digits[i] * PowerOf3[i - 1]
  BY ValueIs
<1>2. n \in Nat /\ n <= Width3 /\ Width3 \in Nat
  BY CodeNumbers
<1>3. ASSUME NEW i \in 0..n PROVE PowerOf3[i] \in Nat \ {0} /\ f[i] \in Nat
  BY <1>1, <1>2, PowersOf3
<1>4. ASSUME NEW i \in Nat, i + 1 <= n
      PROVE  /\ i \in 0..n /\ i + 1 \in 1..n /\ digits[i + 1] \in 0..2
             /\ f[i + 1] = f[i] + digits[i + 1] * PowerOf3[i]
             /\ PowerOf3[i + 1] = 3 * PowerOf3[i]
  <2>1. i \in 0..n /\ i + 1 \in 1..n /\ i + 1 \in 1..Width3 /\ (i + 1) - 1 = i
    BY <1>2, <1>4
  <2>2. digits[i + 1] \in 0..2
    BY <2>1
  <2>3. QED
    BY <1>1, <2>1, <2>2, PowersOf3
<1> DEFINE Low == {i \in Nat : i <= n => f[i] < PowerOf3[i]}
<1>5. 0 \in Low
  BY <1>1, PowersOf3
<1>6. ASSUME NEW i \in Nat, i \in Low PROVE i + 1 \in Low
  <2>1. SUFFICES ASSUME i + 1 <= n PROVE f[i + 1] < PowerOf3[i + 1]
    BY <1>6
  <2> DEFINE p == PowerOf3[i]
             d == digits[i + 1]
  <2>2. f[i] < p /\ f[i] \in Nat /\ p \in Nat /\ d \in 0..2
    BY <1>2, <1>3, <1>4, <1>6, <2>1
  <2>3. f[i + 1] = f[i] + d * p /\ PowerOf3[i + 1] = 3 * p
    BY <1>4, <2>1
  <2> HIDE DEF p, d
  <2>4. d * p <= 2 * p /\ d * p \in Nat
    <3>1. d = 0 \/ d = 1 \/ d = 2
      BY <2>2
    <3>2. QED
      BY <2>2, <3>1
  <2>5. QED
    BY <2>2, <2>3, <2>4
<1>7. Nat \subseteq Low
  <2> HIDE DEF Low
  <2>1. QED
    BY <1>5, <1>6, SetInduction
<1>8. ASSUME NEW k \in 1..n PROVE DigitOf(f[n], k - 1) = digits[k]
  <2> DEFINE p == PowerOf3[k]
             Above == {e \in Nat : k + e <= n =>
                         /\ \E q \in Nat : f[k + e] = f[k] + p * q
                         /\ \E r \in Nat : PowerOf3[k + e] = p * r}
  <2>1. k \in Nat /\ k \in 0..n /\ p \in Nat /\ f[k] \in Nat
    BY <1>2, <1>3
  <2>2. 0 \in Above
    <3>1. f[k + 0] = f[k] + p * 0 /\ PowerOf3[k + 0] = p * 1
      BY <2>1
    <3>2. QED
      BY <3>1
  <2>3. ASSUME NEW e \in Nat, e \in Above PROVE e + 1 \in Above
    <3>1. SUFFICES ASSUME k + (e + 1) <= n
                   PROVE  /\ \E q \in Nat : f[k + (e + 1)] = f[k] + p * q
                          /\ \E r \in Nat : PowerOf3[k + (e + 1)] = p * r
      BY <2>3
    <3>2. k + e \in Nat /\ k + (e + 1) = (k + e) + 1 /\ k + e <= n
      BY <1>2, <2>1, <3>1
    <3>3. PICK q \in Nat, r \in Nat : f[k + e] = f[k] + p * q /\ PowerOf3[k + e] = p * r
      BY <2>3, <3>2
    <3> DEFINE d == digits[(k + e) + 1]
    <3>4. /\ d \in 0..2 /\ f[(k + e) + 1] = f[k + e] + d * PowerOf3[k + e]
          /\ PowerOf3[(k + e) + 1] = 3 * PowerOf3[k + e]
      BY <1>4, <3>1, <3>2
    <3> HIDE DEF d, p
    <3>5. d * (p * r) = p * (d * r) /\ 3 * (p * r) = p * (3 * r)
          /\ p * q + p * (d * r) = p * (q + d * r)
      <4>1. d \in Nat /\ d * r \in Nat
        BY <3>4
      <4>2. d * (p * r) = p * (d * r) /\ 3 * (p * r) = p * (3 * r)
        BY <2>1, <4>1
      <4> DEFINE s == d * r
      <4>3. s \in Nat
        BY <4>1
      <4> HIDE DEF s
      <4>4. p * q + p * s = p * (q + s)
        BY <2>1, <4>3
      <4>5. QED
        BY <4>2, <4>4 DEF s
    <3>6. q + d * r \in Nat /\ 3 * r \in Nat /\ p * q \in Nat /\ p * (d * r) \in Nat
      <4>1. d \in Nat /\ d * r \in Nat
        BY <3>4
      <4>2. QED
        BY <2>1, <4>1
    <3>7. f[(k + e) + 1] = f[k] + p * (q + d * r) /\ PowerOf3[(k + e) + 1] = p * (3 * r)
      <4>1. f[(k + e) + 1] = (f[k] + p * q) + p * (d * r)
        BY <3>3, <3>4, <3>5
      <4>2. QED
        BY <2>1, <3>3, <3>4, <3>5, <3>6, <4>1
    <3>8. QED
      BY <3>2, <3>6, <3>7 DEF p
  <2>4. Nat \subseteq Above
    <3> HIDE DEF Above
    <3>1. QED
      BY <2>2, <2>3, SetInduction
  <2>5. PICK q \in Nat : f[n] = f[k] + p * q
    <3>1. n - k \in Nat /\ k + (n - k) = n /\ n <= n
      BY <1>2, <2>1
    <3>2. n - k \in Above
      <4> HIDE DEF Above
      <4>1. QED
        BY <2>4, <3>1
    <3>3. QED
      BY <3>1, <3>2
  <2> DEFINE b == PowerOf3[k - 1]
             d == digits[k]
             r == f[k - 1]
  <2>6. k - 1 \in Nat /\ (k - 1) + 1 = k /\ k <= n /\ k - 1 <= n /\ k - 1 \in 0..n
    BY <1>2
  <2>7. d \in 0..2 /\ f[k] = r + d * b /\ p = 3 * b
    BY <1>4, <2>6
  <2>8. r < b /\ r \in Nat /\ b \in Nat \ {0}
    BY <1>3, <1>7, <2>6
  <2> HIDE DEF b, d, r, p
  <2>9. f[n] = b * (d + 3 * q) + r
    <3>1. f[n] = (r + d * b) + (3 * b) * q
      BY <2>5, <2>7
    <3>2. b * (d + 3 * q) = d * b + (3 * b) * q /\ d * b \in Nat /\ (3 * b) * q \in Nat
      BY <2>7, <2>8
    <3>3. QED
      BY <2>8, <3>1, <3>2
  <2>10. f[n] \div b = d + 3 * q
    <3> DEFINE m == d + 3 * q
    <3>1. m \in Nat /\ r \in 0..b - 1 /\ f[n] = b * m + r
      BY <2>7, <2>8, <2>9
    <3> HIDE DEF m
    <3>2. f[n] \div b = m
      BY <2>8, <3>1, QuotientIs
    <3>3. QED
      BY <3>2 DEF m
  <2>11. (d + 3 * q) % 3 = d
    BY <2>7
  <2>12. QED
    BY <2>10, <2>11 DEF DigitOf, b, d
<1>9. QED
  BY <1>1, <1>3, <1>8

\* A number below the power of 3 is made of its digits.
LEMMA StepComesBack ==
    ASSUME NEW step \in 0..StepsMax
    PROVE  Value(Digits(step), Trits) = step
<1>1. Trits \in 0..Width3 /\ Trits \in Nat /\ Width3 \in Nat
  BY CodeNumbers DEF Width3
<1>2. PowerOf3[Trits] \in Nat \ {0} /\ step \in Nat /\ step < PowerOf3[Trits]
  <2>1. PowerOf3[Trits] \in Nat \ {0}
    BY <1>1, PowersOf3
  <2>2. QED
    BY <2>1 DEF StepsMax
<1> DEFINE digits == Digits(step)
<1>3. ASSUME NEW i \in 1..Trits PROVE digits[i] = DigitOf(step, i - 1) /\ digits[i] \in 0..2
  <2>1. i - 1 \in 0..Width3
    BY <1>1
  <2>2. digits[i] = DigitOf(step, i - 1)
    BY DEF Digits
  <2>3. QED
    BY <1>2, <2>1, <2>2, DigitIsSmall
<1> HIDE DEF digits
<1>4. PICK f \in [0..Trits -> Nat] :
             /\ f[0] = 0 /\ f[Trits] = Value(digits, Trits)
             /\ \A i \in 1..Trits : f[i] = f[i - 1] + digits[i] * PowerOf3[i - 1]
  BY <1>1, <1>3, ValueIs
<1> DEFINE S == {i \in Nat : i <= Trits => step = f[i] + PowerOf3[i] * (step \div PowerOf3[i])}
<1>5. 0 \in S
  <2>1. step \div 1 = step /\ 0 + 1 * step = step
    BY <1>2
  <2>2. QED
    BY <1>4, <2>1, PowersOf3
<1>6. ASSUME NEW i \in Nat, i \in S PROVE i + 1 \in S
  <2>1. SUFFICES ASSUME i + 1 <= Trits
                 PROVE  step = f[i + 1] + PowerOf3[i + 1] * (step \div PowerOf3[i + 1])
    BY <1>6
  <2> DEFINE b == PowerOf3[i]
             q == step \div (3 * b)
             d == (step \div b) % 3
  <2>2. /\ i \in 0..Trits /\ i + 1 \in 1..Trits /\ (i + 1) - 1 = i /\ i \in 0..Width3
        /\ i + 1 \in 1..Width3 /\ i <= Trits
    BY <1>1, <2>1
  <2>3. b \in Nat \ {0} /\ PowerOf3[i + 1] = 3 * b
    BY <2>2, PowersOf3
  <2>4. step = f[i] + b * (step \div b) /\ f[i] \in Nat
    BY <1>4, <1>6, <2>2
  <2>5. f[i + 1] = f[i] + d * b
    BY <1>3, <1>4, <2>2 DEF DigitOf
  <2>6. q \in Nat /\ d \in 0..2 /\ step \div b = 3 * q + d
    BY <1>2, <2>3, DivideTwice
  <2> HIDE DEF b, q, d
  <2>7. b * (3 * q + d) = d * b + (3 * b) * q /\ d * b \in Nat /\ (3 * b) * q \in Nat
    BY <2>3, <2>6
  <2>8. step = (f[i] + d * b) + (3 * b) * q
    BY <2>4, <2>6, <2>7
  <2>9. QED
    BY <2>3, <2>5, <2>8 DEF q
<1>7. Nat \subseteq S
  <2> HIDE DEF S
  <2>1. QED
    BY <1>5, <1>6, SetInduction
<1>8. step = f[Trits] + PowerOf3[Trits] * (step \div PowerOf3[Trits])
  BY <1>1, <1>7
<1>9. step \div PowerOf3[Trits] = 0
  <2> DEFINE b == PowerOf3[Trits]
  <2>1. b \in Nat \ {0} /\ step \in 0..b - 1 /\ b * 0 + step = step
    BY <1>2
  <2> HIDE DEF b
  <2>2. step \div b = 0
    BY <2>1, QuotientIs
  <2>3. QED
    BY <2>2 DEF b
<1>10. f[Trits] \in Nat /\ PowerOf3[Trits] * 0 = 0
  BY <1>1, <1>2, <1>4
<1>11. QED
  BY <1>4, <1>8, <1>9, <1>10 DEF digits

\* What is packed into bytes is unpacked again, the digits that fill up the last byte left out.
LEMMA UnpackedIsPacked ==
    ASSUME NEW digits \in [1..Trits -> 0..2]
    PROVE  UnpackedDigits(PackedBytes(digits)) = digits
<1> DEFINE T == TritsPerByte
           B == (Trits + TritsPerByte - 1) \div TritsPerByte
           Part(b) == [j \in 1..T |-> IF (b - 1) * T + j <= Trits
                                     THEN digits[(b - 1) * T + j] ELSE 1]
<1>1. T \in Nat \ {0} /\ Trits \in Nat \ {0} /\ T \in 0..Width3
  BY CodeNumbers DEF Width3
<1>2. ASSUME NEW i \in 1..Trits
      PROVE  UnpackedDigits(PackedBytes(digits))[i] = digits[i]
  <2> DEFINE q == (i - 1) \div T
             r == (i - 1) % T
  <2>1. q \in Nat /\ r \in 0..T - 1 /\ i - 1 = T * q + r
    <3>1. i - 1 \in Nat
      BY <1>1
    <3> HIDE DEF T
    <3>2. QED
      BY <1>1, <3>1, DivisionIs
  <2>2. UnpackedDigits(PackedBytes(digits))[i] = DigitOf(PackedBytes(digits)[q + 1], r)
    BY DEF UnpackedDigits
  <2> HIDE DEF q, r
  <2>3. q + 1 \in 1..B
    <3> DEFINE a == Trits + T - 1
               s == a \div T
    <3>1. a \in Nat /\ T * q + T <= a
      BY <1>1, <2>1
    <3>2. s \in Nat /\ a % T \in 0..T - 1 /\ a = T * s + (a % T)
      <4> HIDE DEF a, T
      <4>1. QED
        BY <1>1, <3>1, DivisionIs
    <3> HIDE DEF a, s
    <3>3. ~(s < q + 1)
      <4>1. SUFFICES ASSUME s <= q PROVE FALSE
        BY <2>1, <3>2
      <4>2. T * s <= T * q
        BY <1>1, <2>1, <3>2, <4>1
      <4>3. T * s \in Nat /\ T * q \in Nat
        BY <1>1, <2>1, <3>2
      <4>4. QED
        BY <1>1, <3>1, <3>2, <4>2, <4>3
    <3>4. q + 1 \in 1..s
      BY <2>1, <3>2, <3>3
    <3>5. QED
      BY <3>4 DEF s, a
  <2>4. PackedBytes(digits)[q + 1] = Value(Part(q + 1), T)
    BY <2>3 DEF PackedBytes, PackedByte
  <2>5. ASSUME NEW j \in 1..T PROVE Part(q + 1)[j] \in 0..2
    <3> DEFINE place == ((q + 1) - 1) * T + j
    <3>1. place \in Nat /\ place > 0
      <4>1. ((q + 1) - 1) * T = q * T /\ q * T \in Nat
        BY <1>1, <2>1
      <4>2. QED
        BY <1>1, <4>1
    <3>2. Part(q + 1)[j] = IF place <= Trits THEN digits[place] ELSE 1
      OBVIOUS
    <3> HIDE DEF place
    <3>3. place <= Trits => place \in 1..Trits
      BY <1>1, <3>1
    <3> HIDE DEF Part
    <3>4. QED
      BY <3>2, <3>3
  <2>6. DigitOf(Value(Part(q + 1), T), r) = Part(q + 1)[r + 1]
    <3>1. r + 1 \in 1..T /\ (r + 1) - 1 = r
      BY <1>1, <2>1
    <3> HIDE DEF Part, T
    <3>2. QED
      BY <1>1, <2>5, <3>1, DigitsReadBack
  <2>7. Part(q + 1)[r + 1] = digits[i]
    <3>1. r + 1 \in 1..T
      BY <1>1, <2>1
    <3>2. ((q + 1) - 1) * T + (r + 1) = i
      <4>1. ((q + 1) - 1) * T = T * q /\ T * q \in Nat
        BY <1>1, <2>1
      <4>2. QED
        BY <1>1, <2>1, <4>1
    <3>3. i <= Trits
      BY <1>1
    <3>4. QED
      BY <3>1, <3>2, <3>3
  <2>8. QED
    BY <2>2, <2>4, <2>6, <2>7
<1>3. QED
  <2>1. DOMAIN UnpackedDigits(PackedBytes(digits)) = 1..Trits
        /\ UnpackedDigits(PackedBytes(digits))
             = [i \in 1..Trits |-> UnpackedDigits(PackedBytes(digits))[i]]
    BY DEF UnpackedDigits
  <2>2. QED
    BY <1>2, <2>1

LEMMA ScaleNumbers ==
    /\ StepsMax \in Nat /\ One \in Nat /\ One = UnitsPerStep * StepsMax
<1>1. PowerOf3[Trits] \in Nat \ {0}
  BY CodeNumbers, PowersOf3 DEF Width3
<1>2. StepsMax \in Nat
  BY <1>1 DEF StepsMax
<1>3. QED
  BY <1>2, CodeNumbers DEF One

LEMMA ClampedIs ==
    ASSUME NEW w \in Int
    PROVE  ClampedWeight(w) \in Nat /\ ClampedWeight(w) <= UnitsPerStep * StepsMax
BY ScaleNumbers DEF ClampedWeight

LEMMA RoundedIsStep ==
    ASSUME NEW w \in Int
    PROVE  /\ Rounded(w) \in 0..StepsMax
           /\ 2 * (UnitsPerStep * Rounded(w)) <= 2 * ClampedWeight(w) + UnitsPerStep
           /\ 2 * ClampedWeight(w) < 2 * (UnitsPerStep * Rounded(w)) + UnitsPerStep
<1> DEFINE u == UnitsPerStep
           v == ClampedWeight(w)
           a == 2 * v + u
           r == a \div (2 * u)
<1>1. u \in Nat \ {0} /\ v \in Nat /\ v <= u * StepsMax /\ StepsMax \in Nat
  BY CodeNumbers, ScaleNumbers, ClampedIs
<1>2. Rounded(w) = r
  BY DEF Rounded
<1> HIDE DEF u, v
<1>3. a \in Nat /\ 2 * u \in Nat \ {0}
  BY <1>1
<1>4. r \in Nat /\ a % (2 * u) \in 0..2 * u - 1 /\ a = (2 * u) * r + (a % (2 * u))
  <2> DEFINE m == 2 * u
  <2>1. m \in Nat \ {0}
    BY <1>3
  <2> HIDE DEF a, m
  <2>2. a \div m \in Nat /\ a % m \in 0..m - 1 /\ a = m * (a \div m) + (a % m)
    BY <1>3, <2>1, DivisionIs
  <2>3. QED
    BY <2>2 DEF m
<1> DEFINE rest == a % (2 * u)
<1> HIDE DEF r, rest
<1>5. (2 * u) * r = 2 * (u * r) /\ u * r \in Nat
  BY <1>1, <1>4
<1>6. 2 * v + u = 2 * (u * r) + rest /\ rest \in Nat /\ rest < 2 * u
  BY <1>1, <1>4, <1>5 DEF rest
<1>7. r <= StepsMax
  <2>1. SUFFICES ASSUME StepsMax + 1 <= r PROVE FALSE
    BY <1>1, <1>4
  <2>2. u * (StepsMax + 1) <= u * r /\ u * (StepsMax + 1) = u * StepsMax + u /\ u * StepsMax \in Nat
    BY <1>1, <1>4, <2>1
  <2>3. QED
    BY <1>1, <1>5, <1>6, <2>2
<1>8. 2 * (u * r) <= 2 * v + u /\ 2 * v < 2 * (u * r) + u
  BY <1>1, <1>5, <1>6
<1>9. QED
  BY <1>1, <1>2, <1>4, <1>7, <1>8 DEF u, v

\* How far a weight is from a step.
Distance(w, s) ==
    IF ClampedWeight(w) > s * UnitsPerStep THEN ClampedWeight(w) - s * UnitsPerStep
    ELSE s * UnitsPerStep - ClampedWeight(w)

LEMMA RoundedIsNearest ==
    ASSUME NEW w \in Int
    PROVE  NearestStep(w) = Rounded(w)
<1> DEFINE u == UnitsPerStep
           v == ClampedWeight(w)
           r == Rounded(w)
           Nearest(s) == \A t \in 0..StepsMax :
                           \/ Distance(w, s) < Distance(w, t)
                           \/ Distance(w, s) = Distance(w, t) /\ t <= s
<1>1. u \in Nat \ {0} /\ v \in Nat /\ StepsMax \in Nat
  BY CodeNumbers, ScaleNumbers, ClampedIs
<1>2. r \in 0..StepsMax /\ 2 * (u * r) <= 2 * v + u /\ 2 * v < 2 * (u * r) + u
  BY RoundedIsStep
<1>3. NearestStep(w) = CHOOSE s \in 0..StepsMax : Nearest(s)
  BY DEF NearestStep, Distance
<1>4. ASSUME NEW s \in 0..StepsMax
      PROVE  /\ u * s \in Nat
             /\ Distance(w, s) = IF v > u * s THEN v - u * s ELSE u * s - v
  <2>1. s * u = u * s /\ u * s \in Nat
    BY <1>1
  <2>2. QED
    BY <2>1 DEF Distance
<1> HIDE DEF u, v, r
<1>5. Nearest(r)
  <2>1. SUFFICES ASSUME NEW t \in 0..StepsMax
                 PROVE  \/ Distance(w, r) < Distance(w, t)
                        \/ Distance(w, r) = Distance(w, t) /\ t <= r
    OBVIOUS
  <2> DEFINE x == u * r
             y == u * t
  <2>2. x \in Nat /\ y \in Nat /\ 2 * x <= 2 * v + u /\ 2 * v < 2 * x + u
    BY <1>2, <1>4
  <2>3. /\ Distance(w, r) = IF v > x THEN v - x ELSE x - v
        /\ Distance(w, t) = IF v > y THEN v - y ELSE y - v
    BY <1>2, <1>4
  <2>4. CASE t = r
    BY <1>1, <1>2, <2>3, <2>4
  <2>5. CASE t < r
    <3>1. y + u <= x
      <4>1. u * (t + 1) <= u * r /\ u * (t + 1) = u * t + u
        BY <1>1, <1>2, <2>5
      <4>2. QED
        BY <4>1
    <3> HIDE DEF x, y
    <3>2. QED
      BY <1>1, <1>2, <2>2, <2>3, <2>5, <3>1
  <2>6. CASE r < t
    <3>1. x + u <= y
      <4>1. u * (r + 1) <= u * t /\ u * (r + 1) = u * r + u
        BY <1>1, <1>2, <2>6
      <4>2. QED
        BY <4>1
    <3> HIDE DEF x, y
    <3>2. QED
      BY <1>1, <1>2, <2>2, <2>3, <2>6, <3>1
  <2>7. QED
    BY <1>1, <1>2, <2>4, <2>5, <2>6
<1>6. ASSUME NEW s \in 0..StepsMax, Nearest(s) PROVE s = r
  <2>1. \/ Distance(w, r) < Distance(w, s)
        \/ Distance(w, r) = Distance(w, s) /\ s <= r
    BY <1>5
  <2>2. \/ Distance(w, s) < Distance(w, r)
        \/ Distance(w, s) = Distance(w, r) /\ r <= s
    BY <1>2, <1>6
  <2>3. Distance(w, s) \in Nat /\ Distance(w, r) \in Nat
    BY <1>1, <1>2, <1>4
  <2>4. QED
    BY <1>1, <1>2, <2>1, <2>2, <2>3
<1> HIDE DEF Nearest
<1>7. QED
  BY <1>2, <1>3, <1>5, <1>6 DEF r

\* What a weight comes back as: the nearest step.
LEMMA CodeGivesNearest ==
    ASSUME NEW w \in Int
    PROVE  /\ NearestStep(w) \in 0..StepsMax
           /\ DecodeWeight(EncodeWeight(w)) = UnitsPerStep * NearestStep(w)
<1>1. Rounded(w) \in 0..StepsMax /\ NearestStep(w) = Rounded(w)
  BY RoundedIsStep, RoundedIsNearest
<1>2. Digits(Rounded(w)) \in [1..Trits -> 0..2]
  <2>1. ASSUME NEW i \in 1..Trits PROVE DigitOf(Rounded(w), i - 1) \in 0..2
    <3>1. i - 1 \in 0..Width3 /\ Rounded(w) \in Nat
      BY <1>1, CodeNumbers, ScaleNumbers DEF Width3
    <3>2. QED
      BY <3>1, DigitIsSmall
  <2>2. QED
    BY <2>1 DEF Digits
<1>3. DecodeWeight(EncodeWeight(w)) = UnitsPerStep * Rounded(w)
  BY <1>1, <1>2, UnpackedIsPacked, StepComesBack DEF DecodeWeight, EncodeWeight
<1>4. QED
  BY <1>1, <1>3

\* ternary.rs:128: decoding reverses encoding up to the nearest step, for every weight, every
\* number of digits to a weight and to a byte, and every fineness of weights between the steps.
THEOREM CodecIsExact == CodecRoundsToNearest
BY CodeGivesNearest, CodeNumbers, ScaleNumbers DEF CodecRoundsToNearest

-----------------------------------------------------------------------------
(* Saving and booting.                                                     *)

NSeeded == Cardinality(Seeded)

\* How many of the seeded synapses fit into the file.
Kept == IF NSeeded < FileEntries THEN NSeeded ELSE FileEntries

LEMMA HighestExists ==
    ASSUME NEW n \in Nat, NEW T \in SUBSET (1..n), T # {}
    PROVE  \E i \in T : \A j \in T : j <= i
<1> DEFINE P == {m \in Nat : \A U \in SUBSET (1..m) : U # {} => \E i \in U : \A j \in U : j <= i}
<1>1. 0 \in P
  <2>1. \A i \in 1..0 : FALSE
    OBVIOUS
  <2>2. QED
    BY <2>1
<1>2. ASSUME NEW m \in Nat, m \in P PROVE m + 1 \in P
  <2>1. SUFFICES ASSUME NEW U \in SUBSET (1..m + 1), U # {}
                 PROVE  \E i \in U : \A j \in U : j <= i
    OBVIOUS
  <2>2. CASE m + 1 \in U
    <3>1. \A j \in U : j <= m + 1
      OBVIOUS
    <3>2. QED
      BY <2>2, <3>1
  <2>3. CASE m + 1 \notin U
    <3>1. U \in SUBSET (1..m)
      BY <2>3
    <3>2. QED
      BY <1>2, <2>1, <3>1
  <2>4. QED
    BY <2>2, <2>3
<1>3. Nat \subseteq P
  <2> HIDE DEF P
  <2>1. QED
    BY <1>1, <1>2, SetInduction
<1>4. QED
  BY <1>3

\* The network as seeded: each pair once, with the weight that is given to all.
LEMMA SeededIs ==
    /\ NSeeded \in Nat /\ Kept \in 0..NSeeded /\ Kept <= FileEntries /\ Kept \in Nat
    /\ SeededSynapses \in [1..NSeeded -> Synapses]
    /\ \A i \in 1..NSeeded : SeededSynapses[i].weight = DefaultWeight
    /\ \A i, j \in 1..NSeeded : SeededSynapses[i].pair = SeededSynapses[j].pair => i = j
<1> DEFINE Candidates == {Fresh(o) : o \in [1..NSeeded -> Seeded]}
           Good(s) == \A i, j \in DOMAIN s : s[i].pair = s[j].pair => i = j
<1>1. NSeeded \in Nat /\ ExistsBijection(1..NSeeded, Seeded)
  BY WeightsAssumption, FS_CardinalityType DEF NSeeded
<1>2. DefaultWeight \in Int
  BY WeightsAssumption, ScaleNumbers
<1>3. PICK o \in [1..NSeeded -> Seeded] : \A i, j \in 1..NSeeded : o[i] = o[j] => i = j
  BY <1>1 DEF ExistsBijection, Bijection, Injection, IsInjective
<1>4. ASSUME NEW p \in [1..NSeeded -> Seeded]
      PROVE  /\ Fresh(p) \in [1..NSeeded -> Synapses]
             /\ \A i \in 1..NSeeded : Fresh(p)[i].pair = p[i] /\ Fresh(p)[i].weight = DefaultWeight
  BY <1>2 DEF Fresh, Synapses
<1>5. Fresh(o) \in Candidates /\ Good(Fresh(o))
  <2>1. Fresh(o) \in Candidates
    OBVIOUS
  <2>2. DOMAIN Fresh(o) = 1..NSeeded
    BY <1>4
  <2>3. ASSUME NEW i \in 1..NSeeded, NEW j \in 1..NSeeded, Fresh(o)[i].pair = Fresh(o)[j].pair
        PROVE  i = j
    <3>1. Fresh(o)[i].pair = o[i] /\ Fresh(o)[j].pair = o[j]
      BY <1>4
    <3>2. QED
      BY <1>3, <2>3, <3>1
  <2>4. QED
    BY <2>1, <2>2, <2>3
<1>6. SeededSynapses = CHOOSE s \in Candidates : Good(s)
  BY DEF SeededSynapses, NSeeded
<1> HIDE DEF Good
<1>7. SeededSynapses \in Candidates /\ Good(SeededSynapses)
  <2> HIDE DEF Candidates
  <2>1. QED
    BY <1>5, <1>6
<1>8. PICK p \in [1..NSeeded -> Seeded] : SeededSynapses = Fresh(p)
  BY <1>7
<1>9. DOMAIN SeededSynapses = 1..NSeeded
  BY <1>4, <1>8
<1>10. \A i, j \in 1..NSeeded : SeededSynapses[i].pair = SeededSynapses[j].pair => i = j
  BY <1>7, <1>9 DEF Good
<1>11. Kept \in 0..NSeeded /\ Kept <= FileEntries /\ Kept \in Nat
  BY <1>1, CodeNumbers DEF Kept
<1>12. QED
  BY <1>1, <1>4, <1>8, <1>10, <1>11

\* What a weight is after it was saved and loaded: a whole number of steps, which are coded exactly.
LEMMA StepsAreExact ==
    ASSUME NEW s \in 0..StepsMax
    PROVE  /\ UnitsPerStep * s \in Int
           /\ NearestStep(UnitsPerStep * s) = s
           /\ DecodeWeight(EncodeWeight(UnitsPerStep * s)) = UnitsPerStep * s
<1> DEFINE u == UnitsPerStep
           w == u * s
           r == Rounded(w)
<1>1. u \in Nat \ {0} /\ s \in Nat /\ StepsMax \in Nat
  BY CodeNumbers, ScaleNumbers
<1>2. w \in Nat /\ w <= One
  <2>1. u * s <= u * StepsMax /\ u * s \in Nat
    BY <1>1
  <2>2. QED
    BY <2>1, ScaleNumbers
<1>3. w \in Int
  BY <1>2
<1>4. ClampedWeight(w) = w
  <2> HIDE DEF w
  <2>1. QED
    BY <1>2, ScaleNumbers DEF ClampedWeight
<1>5. r \in 0..StepsMax /\ 2 * (u * r) <= 2 * w + u /\ 2 * w < 2 * (u * r) + u
  <2> HIDE DEF w
  <2>1. QED
    BY <1>3, <1>4, RoundedIsStep
<1>6. NearestStep(w) = r /\ DecodeWeight(EncodeWeight(w)) = u * NearestStep(w)
  <2> HIDE DEF w
  <2>1. QED
    BY <1>3, RoundedIsNearest, CodeGivesNearest
<1> HIDE DEF r, u
<1>7. ~(r < s)
  <2>1. SUFFICES ASSUME r + 1 <= s PROVE FALSE
    BY <1>1, <1>5
  <2>2. u * (r + 1) <= u * s /\ u * (r + 1) = u * r + u /\ u * r \in Nat
    BY <1>1, <1>5, <2>1
  <2>3. QED
    BY <1>1, <1>2, <1>5, <2>2
<1>8. ~(s < r)
  <2>1. SUFFICES ASSUME s + 1 <= r PROVE FALSE
    BY <1>1, <1>5
  <2>2. u * (s + 1) <= u * r /\ u * (s + 1) = u * s + u /\ u * r \in Nat
    BY <1>1, <1>5, <2>1
  <2>3. QED
    BY <1>1, <1>2, <1>5, <2>2
<1>9. r = s
  BY <1>1, <1>5, <1>7, <1>8
<1>10. QED
  BY <1>3, <1>6, <1>9 DEF u

\* The entry of the file for a synapse, and those for some of them.
EntryOf(x) == [pair |-> x.pair, bytes |-> EncodeWeight(x.weight)]
Entries(s) == [i \in DOMAIN s |-> EntryOf(s[i])]

\* One entry sets the weight of the synapse it is for and no other.
LEMMA EntryApplied ==
    ASSUME NEW s \in [1..NSeeded -> Synapses],
           \A i \in 1..NSeeded : s[i].pair = SeededSynapses[i].pair,
           NEW x \in Synapses
    PROVE  /\ Applied(s, EntryOf(x)) \in [1..NSeeded -> Synapses]
           /\ \A i \in 1..NSeeded :
                /\ Applied(s, EntryOf(x))[i].pair = SeededSynapses[i].pair
                /\ Applied(s, EntryOf(x))[i].weight =
                     IF SeededSynapses[i].pair = x.pair
                     THEN UnitsPerStep * NearestStep(x.weight) ELSE s[i].weight
<1> DEFINE y == UnitsPerStep * NearestStep(x.weight)
           entry == EntryOf(x)
<1>1. /\ x.weight \in Int /\ entry.pair = x.pair
      /\ entry.bytes = EncodeWeight(x.weight)
  BY DEF Synapses, EntryOf
<1> HIDE DEF entry
<1>2. DecodeWeight(entry.bytes) = y /\ y \in Int
  <2>1. NearestStep(x.weight) \in 0..StepsMax /\ DecodeWeight(EncodeWeight(x.weight)) = y
    BY <1>1, CodeGivesNearest
  <2>2. y \in Int
    BY <2>1, CodeNumbers, ScaleNumbers
  <2>3. QED
    BY <1>1, <2>1, <2>2
<1> HIDE DEF y
<1>3. ASSUME NEW i \in 1..NSeeded
      PROVE  /\ Applied(s, entry)[i] = IF SeededSynapses[i].pair = x.pair
                                       THEN [s[i] EXCEPT !.weight = y] ELSE s[i]
             /\ s[i] \in Synapses
  <2>1. Applied(s, entry)[i] =
          IF s[i].pair = entry.pair /\ \A j \in 1..i - 1 : s[j].pair # entry.pair
          THEN [s[i] EXCEPT !.weight = y] ELSE s[i]
    BY <1>2 DEF Applied
  <2>2. SeededSynapses[i].pair = x.pair => \A j \in 1..i - 1 : s[j].pair # x.pair
    <3>1. SUFFICES ASSUME SeededSynapses[i].pair = x.pair, NEW j \in 1..i - 1, s[j].pair = x.pair
                   PROVE  FALSE
      OBVIOUS
    <3>2. j \in 1..NSeeded /\ j # i
      BY SeededIs
    <3>3. QED
      BY <3>1, <3>2, SeededIs
  <2>3. s[i] \in Synapses /\ s[i].pair = SeededSynapses[i].pair
    OBVIOUS
  <2>4. QED
    BY <1>1, <2>1, <2>2, <2>3
<1>4. ASSUME NEW i \in 1..NSeeded
      PROVE  /\ Applied(s, entry)[i] \in Synapses
             /\ Applied(s, entry)[i].pair = SeededSynapses[i].pair
             /\ Applied(s, entry)[i].weight = IF SeededSynapses[i].pair = x.pair THEN y
                                              ELSE s[i].weight
  <2>1. s[i].pair = SeededSynapses[i].pair /\ s[i] \in Synapses
    BY <1>3
  <2>2. CASE SeededSynapses[i].pair = x.pair
    BY <1>2, <1>3, <2>1, <2>2 DEF Synapses
  <2>3. CASE SeededSynapses[i].pair # x.pair
    BY <1>3, <2>1, <2>3
  <2>4. QED
    BY <2>2, <2>3
<1>5. Applied(s, entry) = [i \in 1..NSeeded |-> Applied(s, entry)[i]]
  BY DEF Applied
<1>6. QED
  BY <1>4, <1>5 DEF y, entry

\* i is the number of the last of the first n synapses of s that joins the pair.
LastOf(i, pair, s, n) ==
    i \in 1..n /\ s[i].pair = pair /\ \A j \in 1..n : s[j].pair = pair => j <= i

\* The weights a boot restores from the synapses s: of each pair the last one's.
Restored(t, s, n) ==
    /\ t \in [1..NSeeded -> Synapses]
    /\ \A i \in 1..NSeeded :
         /\ t[i].pair = SeededSynapses[i].pair
         /\ (\A j \in 1..n : s[j].pair # t[i].pair) => t[i].weight = DefaultWeight
         /\ \A j \in 1..n : LastOf(j, t[i].pair, s, n)
                             => t[i].weight = UnitsPerStep * NearestStep(s[j].weight)

LEMMA OneMoreEntry ==
    ASSUME NEW s \in Seq(Synapses), NEW e \in Nat, e + 1 <= Len(s), NEW t, Restored(t, s, e)
    PROVE  Restored(Applied(t, Entries(s)[e + 1]), s, e + 1)
<1> DEFINE x == s[e + 1]
           entry == Entries(s)[e + 1]
           u == Applied(t, entry)
<1>1. Len(s) \in Nat /\ e + 1 \in 1..Len(s) /\ x \in Synapses
  <2>1. Len(s) \in Nat /\ e + 1 \in 1..Len(s)
    OBVIOUS
  <2>2. QED
    BY <2>1, ElementOfSeq
<1>2. entry = EntryOf(x)
  BY <1>1 DEF Entries
<1> HIDE DEF x, entry
<1>3. /\ u \in [1..NSeeded -> Synapses]
      /\ \A i \in 1..NSeeded :
           /\ u[i].pair = SeededSynapses[i].pair
           /\ u[i].weight = IF SeededSynapses[i].pair = x.pair
                           THEN UnitsPerStep * NearestStep(x.weight) ELSE t[i].weight
  <2>1. t \in [1..NSeeded -> Synapses] /\ \A i \in 1..NSeeded : t[i].pair = SeededSynapses[i].pair
    BY DEF Restored
  <2> DEFINE v == Applied(t, EntryOf(x))
  <2>2. /\ v \in [1..NSeeded -> Synapses]
        /\ \A i \in 1..NSeeded :
             /\ v[i].pair = SeededSynapses[i].pair
             /\ v[i].weight = IF SeededSynapses[i].pair = x.pair
                             THEN UnitsPerStep * NearestStep(x.weight) ELSE t[i].weight
    BY <1>1, <2>1, EntryApplied
  <2>3. u = v
    BY <1>2
  <2> HIDE DEF u, v
  <2>4. QED
    BY <2>2, <2>3
<1> HIDE DEF u
<1>4. ASSUME NEW i \in 1..NSeeded
      PROVE  /\ (\A j \in 1..e + 1 : s[j].pair # u[i].pair) => u[i].weight = DefaultWeight
             /\ \A j \in 1..e + 1 : LastOf(j, u[i].pair, s, e + 1)
                                 => u[i].weight = UnitsPerStep * NearestStep(s[j].weight)
  <2> DEFINE p == SeededSynapses[i].pair
  <2>1. /\ u[i].pair = p /\ t[i].pair = p
        /\ u[i].weight = IF p = x.pair THEN UnitsPerStep * NearestStep(x.weight) ELSE t[i].weight
    BY <1>3 DEF Restored
  <2>2. /\ (\A j \in 1..e : s[j].pair # p) => t[i].weight = DefaultWeight
        /\ \A j \in 1..e : LastOf(j, p, s, e)
                            => t[i].weight = UnitsPerStep * NearestStep(s[j].weight)
    BY <2>1 DEF Restored
  <2> HIDE DEF p
  <2>3. e + 1 \in 1..e + 1 /\ \A j \in 1..e : j \in 1..e + 1
    OBVIOUS
  <2>4. (\A j \in 1..e + 1 : s[j].pair # p) => u[i].weight = DefaultWeight
    BY <2>1, <2>2, <2>3 DEF x
  <2>5. ASSUME NEW j \in 1..e + 1, LastOf(j, p, s, e + 1)
        PROVE  u[i].weight = UnitsPerStep * NearestStep(s[j].weight)
    <3>1. s[j].pair = p /\ \A l \in 1..e + 1 : s[l].pair = p => l <= j
      BY <2>5 DEF LastOf
    <3>2. CASE x.pair = p
      <4>1. j = e + 1
        BY <2>3, <3>1, <3>2 DEF x
      <4>2. QED
        BY <2>1, <3>2, <4>1 DEF x
    <3>3. CASE x.pair # p
      <4>1. j # e + 1
        BY <3>1, <3>3 DEF x
      <4>2. j \in 1..e
        BY <4>1
      <4>3. LastOf(j, p, s, e)
        BY <2>3, <3>1, <4>2 DEF LastOf
      <4>4. QED
        BY <2>1, <2>2, <3>3, <4>2, <4>3
    <3>4. QED
      BY <3>2, <3>3
  <2>6. QED
    BY <2>1, <2>4, <2>5
<1>5. QED
  BY <1>3, <1>4 DEF Restored, u, entry

\* What a boot makes of the file, entry by entry.
LEMMA LoadedIs ==
    ASSUME NEW s \in Seq(Synapses), sector = Entries(s)
    PROVE  Restored(LoadedSynapses, s, Len(s))
<1> DEFINE n == Len(s)
           R == [1..NSeeded -> Synapses]
           G == [x \in Nat \X R |-> IF x[1] \in 1..n THEN Applied(x[2], sector[x[1]]) ELSE x[2]]
           after[e \in 0..Len(sector)] ==
             IF e = 0 THEN SeededSynapses ELSE Applied(after[e - 1], sector[e])
<1>1. n \in Nat /\ Len(sector) = n
  BY DEF Entries
<1>2. LoadedSynapses = after[n]
  BY <1>1 DEF LoadedSynapses
<1>3. Restored(SeededSynapses, s, 0)
  BY SeededIs DEF Restored
<1> DEFINE Good == {t \in R : \A i \in 1..NSeeded : t[i].pair = SeededSynapses[i].pair}
           H == [x \in Nat \X Good |-> IF x[1] \in 1..n THEN Applied(x[2], sector[x[1]]) ELSE x[2]]
<1>4. SeededSynapses \in Good
  BY SeededIs
<1>5. ASSUME NEW t \in Good, NEW e \in 1..n PROVE Applied(t, sector[e]) \in Good
  <2>1. s[e] \in Synapses
    BY <1>1, ElementOfSeq
  <2> DEFINE x == s[e]
  <2>2. sector[e] = EntryOf(x)
    BY DEF Entries
  <2>3. x \in Synapses
    BY <2>1
  <2>4. t \in [1..NSeeded -> Synapses] /\ \A i \in 1..NSeeded : t[i].pair = SeededSynapses[i].pair
    OBVIOUS
  <2> HIDE DEF x
  <2>5. /\ Applied(t, EntryOf(x)) \in [1..NSeeded -> Synapses]
        /\ \A i \in 1..NSeeded : Applied(t, EntryOf(x))[i].pair = SeededSynapses[i].pair
    BY <2>3, <2>4, EntryApplied
  <2>6. QED
    BY <2>2, <2>5
<1>6. H \in [Nat \X Good -> Good]
  <2> HIDE DEF Good, n
  <2>1. QED
    BY <1>5
<1>7. PICK f : Follows(f, SeededSynapses, H, n, Good)
  <2> HIDE DEF H, n, Good
  <2>1. QED
    BY <1>1, <1>4, <1>6, StepwiseFunction
<1>8. f \in [0..n -> Good] /\ f[0] = SeededSynapses
  BY <1>7 DEF Follows
<1>9. ASSUME NEW e \in 1..n PROVE f[e] = Applied(f[e - 1], sector[e])
  <2>1. e \in Nat /\ e - 1 \in 0..n
    BY <1>1
  <2>2. f[e] = H[<<e, f[e - 1]>>] /\ f[e - 1] \in Good
    BY <1>7, <2>1 DEF Follows
  <2> HIDE DEF Good, n
  <2>3. QED
    BY <2>1, <2>2
<1>10. f = [e \in 0..Len(sector) |->
              IF e = 0 THEN SeededSynapses ELSE Applied(f[e - 1], sector[e])]
  <2> HIDE DEF H, n, Good
  <2>1. f = [e \in 0..n |-> IF e = 0 THEN SeededSynapses ELSE Applied(f[e - 1], sector[e])]
    BY <1>1, <1>8, <1>9
  <2>2. QED
    BY <1>1, <2>1
<1>11. after = [e \in 0..Len(sector) |->
                  IF e = 0 THEN SeededSynapses ELSE Applied(after[e - 1], sector[e])]
  BY <1>10
<1> HIDE DEF after, H, Good
<1> DEFINE S == {e \in Nat : e <= n => Restored(after[e], s, e)}
<1>12. 0 \in S
  BY <1>1, <1>3, <1>11
<1>13. ASSUME NEW e \in Nat, e \in S PROVE e + 1 \in S
  <2>1. SUFFICES ASSUME e + 1 <= n PROVE Restored(after[e + 1], s, e + 1)
    BY <1>13
  <2>2. e + 1 \in 0..Len(sector) /\ e + 1 # 0 /\ (e + 1) - 1 = e /\ e <= n
    BY <1>1, <2>1
  <2>3. after[e + 1] = Applied(after[e], sector[e + 1])
    BY <1>11, <2>2
  <2>4. Restored(after[e], s, e)
    BY <1>13, <2>2
  <2>5. Restored(Applied(after[e], Entries(s)[e + 1]), s, e + 1)
    BY <2>1, <2>4, OneMoreEntry
  <2>6. QED
    BY <2>3, <2>5
<1>14. Nat \subseteq S
  <2> HIDE DEF S
  <2>1. QED
    BY <1>12, <1>13, SetInduction
<1>15. QED
  BY <1>1, <1>2, <1>14

-----------------------------------------------------------------------------

\* What a loaded network is, next to what the file was written from.
SavedIn(s, pair) == {i \in DOMAIN s : s[i].pair = pair}
LastIn(s, pair) == s[CHOOSE i \in SavedIn(s, pair) : \A j \in SavedIn(s, pair) : j <= i]

CameBack(h, s) ==
    \A i \in 1..NSeeded :
      h[i].weight = IF SavedIn(s, h[i].pair) = {} THEN DefaultWeight
                    ELSE UnitsPerStep * NearestStep(LastIn(s, h[i].pair).weight)

WeightsInv ==
    /\ held \in Seq(Synapses) /\ NSeeded <= Len(held)
    /\ \A i \in 1..NSeeded : held[i].pair = SeededSynapses[i].pair
    /\ lastSaved \in Seq(Synapses) /\ Len(lastSaved) <= FileEntries
    /\ sector = Entries(lastSaved)
    /\ lastSaved # <<>> =>
         /\ Kept <= Len(lastSaved)
         /\ \A i \in 1..Kept : lastSaved[i].pair = SeededSynapses[i].pair
    /\ justBooted = "loaded" => Len(held) = NSeeded /\ (NSeeded = 0 \/ lastSaved # <<>>)
    /\ justBooted = "loaded" => CameBack(held, lastSaved)

\* The last synapse saved for a pair is one of those saved.
LEMMA LastSavedIs ==
    ASSUME NEW s \in Seq(Synapses), NEW pair, SavedIn(s, pair) # {}
    PROVE  \E i \in SavedIn(s, pair) :
             LastOf(i, pair, s, Len(s)) /\ LastIn(s, pair) = s[i] /\ s[i].weight \in Int
<1> DEFINE T == SavedIn(s, pair)
           Highest(i) == \A j \in T : j <= i
           top == CHOOSE i \in T : Highest(i)
<1>1. Len(s) \in Nat /\ T \in SUBSET (1..Len(s)) /\ T # {}
  BY DEF SavedIn
<1>2. \E i \in T : Highest(i)
  <2> HIDE DEF T
  <2>1. QED
    BY <1>1, HighestExists
<1>3. top \in T /\ Highest(top)
  <2> HIDE DEF T, Highest
  <2>1. QED
    BY <1>2
<1>4. LastIn(s, pair) = s[top]
  BY DEF LastIn
<1> HIDE DEF top
<1>5. /\ top \in 1..Len(s) /\ s[top].pair = pair
      /\ \A j \in 1..Len(s) : s[j].pair = pair => j <= top
  BY <1>1, <1>3 DEF SavedIn
<1>6. s[top].weight \in Int
  <2>1. s[top] \in Synapses
    BY <1>5, ElementOfSeq
  <2>2. QED
    BY <2>1 DEF Synapses
<1>7. QED
  BY <1>3, <1>4, <1>5, <1>6 DEF LastOf

\* A weight that came back is a whole number of steps, and so coded exactly.
LEMMA CameBackIsEnough == WeightsInv => WeightsComeBack
<1> SUFFICES ASSUME WeightsInv, justBooted = "loaded", NEW i \in DOMAIN held
             PROVE  /\ held[i].weight =
                          IF SavedFor(held[i].pair) = {} THEN DefaultWeight
                          ELSE UnitsPerStep * NearestStep(LastSavedFor(held[i].pair).weight)
                    /\ SavedFor(held[i].pair) # {} =>
                         DecodeWeight(EncodeWeight(held[i].weight)) = held[i].weight
  BY DEF WeightsComeBack
<1> DEFINE pair == held[i].pair
<1>1. lastSaved \in Seq(Synapses) /\ CameBack(held, lastSaved) /\ i \in 1..NSeeded
  BY DEF WeightsInv
<1>2. held[i].weight = IF SavedIn(lastSaved, pair) = {} THEN DefaultWeight
                       ELSE UnitsPerStep * NearestStep(LastIn(lastSaved, pair).weight)
  BY <1>1 DEF CameBack
<1> HIDE DEF pair
<1>3. /\ SavedFor(pair) = SavedIn(lastSaved, pair)
      /\ LastSavedFor(pair) = LastIn(lastSaved, pair)
  BY DEF SavedFor, SavedIn, LastSavedFor, LastIn
<1>4. ASSUME SavedIn(lastSaved, pair) # {}
      PROVE  DecodeWeight(EncodeWeight(held[i].weight)) = held[i].weight
  <2>1. LastIn(lastSaved, pair).weight \in Int
    BY <1>1, <1>4, LastSavedIs
  <2>2. QED
    BY <1>2, <1>4, <2>1, CodeGivesNearest, StepsAreExact
<1>5. QED
  BY <1>2, <1>3, <1>4 DEF pair

LEMMA WeightsAtFirst == WeightsInit => WeightsInv
<1> SUFFICES ASSUME WeightsInit PROVE WeightsInv
  OBVIOUS
<1>1. SeededSynapses \in Seq(Synapses) /\ Len(SeededSynapses) = NSeeded /\ NSeeded \in Nat
  BY SeededIs
<1>2. Entries(<<>>) = <<>>
  BY DEF Entries
<1>3. FileEntries \in Nat
  BY CodeNumbers
<1>4. QED
  BY <1>1, <1>2, <1>3 DEF WeightsInit, WeightsInv

LEMMA ChangedKeepsWeights ==
    ASSUME WeightsInv, justBooted' = "changed", UNCHANGED <<sector, lastSaved>>,
           held' \in Seq(Synapses), NSeeded <= Len(held'),
           \A i \in 1..NSeeded : held'[i].pair = SeededSynapses[i].pair
    PROVE  WeightsInv'
BY DEF WeightsInv

LEMMA LearningKeepsWeights == WeightsInv /\ LearnWeight => WeightsInv'
<1> SUFFICES ASSUME WeightsInv, LearnWeight PROVE WeightsInv'
  OBVIOUS
<1>1. PICK i \in DOMAIN held, w \in LearnedValues : held' = [held EXCEPT ![i].weight = w]
  BY DEF LearnWeight
<1>2. w \in Int
  BY WeightsAssumption, ScaleNumbers
<1>3. held \in Seq(Synapses) /\ NSeeded \in Nat /\ NSeeded <= Len(held) /\ Len(held) \in Nat
  BY SeededIs DEF WeightsInv
<1>4. /\ held' \in Seq(Synapses) /\ Len(held') = Len(held)
      /\ \A j \in 1..Len(held) : held'[j].pair = held[j].pair
  <2>1. held[i] \in Synapses /\ [held[i] EXCEPT !.weight = w] \in Synapses
        /\ [held[i] EXCEPT !.weight = w].pair = held[i].pair
    <3>1. held[i] \in Synapses
      BY <1>3, ElementOfSeq
    <3>2. QED
      BY <1>2, <3>1 DEF Synapses
  <2>2. held' = [held EXCEPT ![i] = [held[i] EXCEPT !.weight = w]]
    BY <1>1, <1>3
  <2> DEFINE x == [held[i] EXCEPT !.weight = w]
  <2>3. x \in Synapses /\ x.pair = held[i].pair /\ held' = [held EXCEPT ![i] = x]
    BY <2>1, <2>2
  <2> HIDE DEF x
  <2>4. QED
    BY <1>3, <2>3
<1>5. /\ NSeeded <= Len(held') /\ \A j \in 1..NSeeded : held'[j].pair = SeededSynapses[j].pair
  <2>1. \A j \in 1..NSeeded : j \in 1..Len(held)
    BY <1>3
  <2>2. QED
    BY <1>3, <1>4, <2>1 DEF WeightsInv
<1>6. justBooted' = "changed" /\ UNCHANGED <<sector, lastSaved>>
  BY DEF LearnWeight
<1>7. QED
  BY <1>4, <1>5, <1>6, ChangedKeepsWeights

LEMMA AppendingKeepsWeights == WeightsInv /\ AppendSynapse => WeightsInv'
<1> SUFFICES ASSUME WeightsInv, AppendSynapse PROVE WeightsInv'
  OBVIOUS
<1>1. PICK p \in Seeded \cup OtherPairs, w \in GivenValues :
         held' = Append(held, [pair |-> p, weight |-> w])
  BY DEF AppendSynapse
<1>2. [pair |-> p, weight |-> w] \in Synapses
  BY WeightsAssumption DEF Synapses
<1>3. held \in Seq(Synapses) /\ NSeeded \in Nat /\ NSeeded <= Len(held) /\ Len(held) \in Nat
  BY SeededIs DEF WeightsInv
<1>4. /\ held' \in Seq(Synapses) /\ Len(held') = Len(held) + 1
      /\ \A j \in 1..Len(held) : held'[j] = held[j]
  BY <1>1, <1>2, <1>3, AppendProperties
<1>5. /\ NSeeded <= Len(held') /\ \A j \in 1..NSeeded : held'[j].pair = SeededSynapses[j].pair
  <2>1. \A j \in 1..NSeeded : j \in 1..Len(held)
    BY <1>3
  <2>2. QED
    BY <1>3, <1>4, <2>1 DEF WeightsInv
<1>6. justBooted' = "changed" /\ UNCHANGED <<sector, lastSaved>>
  BY DEF AppendSynapse
<1>7. QED
  BY <1>4, <1>5, <1>6, ChangedKeepsWeights

LEMMA SavingKeepsWeights == WeightsInv /\ SaveWeights => WeightsInv'
<1> SUFFICES ASSUME WeightsInv, SaveWeights PROVE WeightsInv'
  OBVIOUS
<1> DEFINE m == IF Len(held) < FileEntries THEN Len(held) ELSE FileEntries
           s == lastSaved'
<1>1. /\ held \in Seq(Synapses) /\ NSeeded \in Nat /\ NSeeded <= Len(held) /\ Len(held) \in Nat
      /\ \A i \in 1..NSeeded : held[i].pair = SeededSynapses[i].pair
      /\ FileEntries \in Nat /\ FileEntries > 0
  BY SeededIs, CodeNumbers DEF WeightsInv
<1>2. /\ m \in Nat /\ m <= Len(held) /\ m <= FileEntries
      /\ Kept <= m /\ Kept \in Nat /\ Kept <= NSeeded
  BY <1>1 DEF Kept
<1>3. /\ s \in Seq(Synapses) /\ Len(s) = m
      /\ \A i \in 1..m : s[i] = held[i]
  <2>1. s = SubSeq(held, 1, m)
    BY DEF SaveWeights, Fitting
  <2> HIDE DEF m, s
  <2>2. \A i \in 1..m : held[i] \in Synapses
    BY <1>1, <1>2, ElementOfSeq
  <2>3. /\ SubSeq(held, 1, m) \in Seq(Synapses)
        /\ Len(SubSeq(held, 1, m)) = IF 1 <= m THEN m - 1 + 1 ELSE 0
        /\ \A i \in 1..m - 1 + 1 : SubSeq(held, 1, m)[i] = held[1 + i - 1]
    BY <1>2, <2>2, SubSeqProperties
  <2>4. QED
    BY <1>2, <2>1, <2>3
<1>4. sector' = Entries(s) /\ UNCHANGED <<held, justBooted>>
  BY DEF SaveWeights, Entries, EntryOf
<1>5. m = 0 => s = <<>>
  <2> HIDE DEF m, s
  <2>1. QED
    BY <1>3
<1> HIDE DEF m, s
<1>6. Kept <= Len(s) /\ \A i \in 1..Kept : s[i].pair = SeededSynapses[i].pair
  <2>1. \A i \in 1..Kept : i \in 1..m /\ i \in 1..NSeeded
    BY <1>1, <1>2
  <2>2. QED
    BY <1>1, <1>2, <1>3, <2>1
<1>7. ASSUME justBooted = "loaded" PROVE NSeeded = 0 \/ s # <<>>
  <2>1. SUFFICES ASSUME NSeeded # 0, s = <<>> PROVE FALSE
    OBVIOUS
  <2>2. Kept > 0
    BY <1>1, <2>1 DEF Kept
  <2>3. QED
    BY <1>2, <1>6, <2>1, <2>2
<1>8. ASSUME justBooted = "loaded" PROVE CameBack(held, s)
  <2>1. SUFFICES ASSUME NEW i \in 1..NSeeded
                 PROVE  held[i].weight =
                          IF SavedIn(s, held[i].pair) = {} THEN DefaultWeight
                          ELSE UnitsPerStep * NearestStep(LastIn(s, held[i].pair).weight)
    BY DEF CameBack
  <2> DEFINE p == held[i].pair
  <2>2. /\ CameBack(held, lastSaved) /\ Len(held) = NSeeded
        /\ lastSaved \in Seq(Synapses) /\ Len(lastSaved) <= FileEntries /\ Len(lastSaved) \in Nat
    BY <1>8 DEF WeightsInv
  <2>3. held[i].weight = IF SavedIn(lastSaved, p) = {} THEN DefaultWeight
                         ELSE UnitsPerStep * NearestStep(LastIn(lastSaved, p).weight)
    BY <2>2 DEF CameBack
  <2>4. \A j \in 1..NSeeded : held[j].pair = p => j = i
    BY <1>1, SeededIs
  <2>5. m = Kept
    BY <1>1, <2>2 DEF m, Kept
  <2>6. \A j \in 1..m : j \in 1..NSeeded /\ s[j].pair = held[j].pair
    BY <1>1, <1>2, <1>3, <2>5
  <2>7. lastSaved # <<>> /\ Kept <= Len(lastSaved)
        /\ \A j \in 1..Kept : lastSaved[j].pair = SeededSynapses[j].pair
    BY <1>1, <1>8 DEF WeightsInv
  <2>8. p = SeededSynapses[i].pair /\ DOMAIN s = 1..m /\ DOMAIN lastSaved = 1..Len(lastSaved)
    BY <1>1, <1>3, <2>2
  <2> HIDE DEF p
  <2>9. CASE i <= m
    <3>1. i \in 1..m /\ i \in 1..Kept /\ i \in DOMAIN lastSaved
      BY <1>2, <2>2, <2>5, <2>7, <2>8, <2>9
    <3>2. SavedIn(lastSaved, p) # {}
      BY <2>7, <2>8, <3>1 DEF SavedIn
    <3>3. SavedIn(s, p) = {i}
      <4>1. i \in SavedIn(s, p)
        BY <2>6, <2>8, <3>1 DEF SavedIn, p
      <4>2. \A j \in SavedIn(s, p) : j = i
        BY <2>4, <2>6, <2>8 DEF SavedIn
      <4>3. QED
        BY <4>1, <4>2
    <3>4. LastIn(s, p) = held[i]
      <4>1. PICK j \in SavedIn(s, p) : LastIn(s, p) = s[j]
        BY <1>3, <3>3, LastSavedIs
      <4>2. QED
        BY <1>3, <3>1, <3>3, <4>1
    <3> DEFINE c == NearestStep(LastIn(lastSaved, p).weight)
    <3>5. c \in 0..StepsMax
      <4>1. LastIn(lastSaved, p).weight \in Int
        BY <2>2, <3>2, LastSavedIs
      <4>2. QED
        BY <4>1, CodeGivesNearest
    <3>6. held[i].weight = UnitsPerStep * c
      BY <2>3, <3>2
    <3> HIDE DEF c
    <3>7. NearestStep(held[i].weight) = c
      BY <3>5, <3>6, StepsAreExact
    <3>8. SavedIn(s, p) # {} /\ held[i].weight = UnitsPerStep * NearestStep(LastIn(s, p).weight)
      BY <3>3, <3>4, <3>6, <3>7
    <3>9. QED
      BY <3>8 DEF p
  <2>10. CASE ~(i <= m)
    <3>1. SavedIn(s, p) = {}
      <4>1. ASSUME NEW j \in SavedIn(s, p) PROVE FALSE
        <5>1. j \in 1..m /\ s[j].pair = p
          BY <2>8 DEF SavedIn
        <5>2. j = i
          BY <2>4, <2>6, <5>1
        <5>3. QED
          BY <1>2, <2>10, <5>1, <5>2
      <4>2. QED
        BY <4>1
    <3>2. Len(lastSaved) = Kept
      BY <1>1, <1>2, <2>2, <2>5, <2>7, <2>10 DEF Kept
    <3>3. SavedIn(lastSaved, p) = {}
      <4>1. ASSUME NEW j \in SavedIn(lastSaved, p) PROVE FALSE
        <5>1. j \in 1..Kept /\ lastSaved[j].pair = p
          BY <2>8, <3>2 DEF SavedIn
        <5>2. j \in 1..NSeeded /\ SeededSynapses[j].pair = SeededSynapses[i].pair
          BY <1>1, <1>2, <2>7, <2>8, <5>1
        <5>3. j = i
          BY <5>2, SeededIs
        <5>4. QED
          BY <1>2, <2>5, <2>10, <5>1, <5>3
      <4>2. QED
        BY <4>1
    <3>4. QED
      BY <2>3, <3>1, <3>3 DEF p
  <2>11. QED
    BY <2>9, <2>10
<1>9. /\ s \in Seq(Synapses) /\ Len(s) <= FileEntries
  BY <1>2, <1>3
<1>10. QED
  BY <1>1, <1>4, <1>6, <1>7, <1>8, <1>9 DEF WeightsInv, s

LEMMA LoadingKeepsWeights == WeightsInv /\ LoadAtBoot => WeightsInv'
<1> SUFFICES ASSUME WeightsInv, LoadAtBoot PROVE WeightsInv'
  OBVIOUS
<1>1. UNCHANGED <<sector, lastSaved>>
  BY DEF LoadAtBoot
<1>2. CASE sector # <<>> /\ held' = LoadedSynapses /\ justBooted' = "loaded"
  <2> DEFINE n == Len(lastSaved)
             h == held'
  <2>1. lastSaved \in Seq(Synapses) /\ sector = Entries(lastSaved) /\ NSeeded \in Nat
    BY SeededIs DEF WeightsInv
  <2>2. Restored(h, lastSaved, n)
    BY <1>2, <2>1, LoadedIs
  <2>3. lastSaved # <<>>
    BY <1>2, <2>1 DEF Entries
  <2>4. h \in [1..NSeeded -> Synapses] /\ \A i \in 1..NSeeded : h[i].pair = SeededSynapses[i].pair
    BY <2>2 DEF Restored
  <2>5. h \in Seq(Synapses) /\ Len(h) = NSeeded
    BY <2>1, <2>4
  <2> HIDE DEF n, h
  <2>6. CameBack(h, lastSaved)
    <3>1. SUFFICES ASSUME NEW i \in 1..NSeeded
                   PROVE  h[i].weight =
                            IF SavedIn(lastSaved, h[i].pair) = {} THEN DefaultWeight
                            ELSE UnitsPerStep * NearestStep(LastIn(lastSaved, h[i].pair).weight)
      BY DEF CameBack
    <3> DEFINE p == h[i].pair
    <3>2. /\ (\A j \in 1..n : lastSaved[j].pair # p) => h[i].weight = DefaultWeight
          /\ \A j \in 1..n : LastOf(j, p, lastSaved, n)
                              => h[i].weight = UnitsPerStep * NearestStep(lastSaved[j].weight)
      BY <2>2 DEF Restored
    <3> HIDE DEF p
    <3>3. DOMAIN lastSaved = 1..n
      BY <2>1 DEF n
    <3>4. CASE SavedIn(lastSaved, p) = {}
      <4>1. \A j \in 1..n : lastSaved[j].pair # p
        BY <3>3, <3>4 DEF SavedIn
      <4>2. QED
        BY <3>2, <3>4, <4>1 DEF p
    <3>5. CASE SavedIn(lastSaved, p) # {}
      <4>1. PICK j \in SavedIn(lastSaved, p) :
                LastOf(j, p, lastSaved, n) /\ LastIn(lastSaved, p) = lastSaved[j]
        BY <2>1, <3>5, LastSavedIs DEF n
      <4>2. j \in 1..n
        BY <4>1 DEF LastOf
      <4>3. h[i].weight = UnitsPerStep * NearestStep(LastIn(lastSaved, p).weight)
        BY <3>2, <4>1, <4>2
      <4>4. QED
        BY <3>5, <4>3 DEF p
    <3>6. QED
      BY <3>4, <3>5
  <2>7. QED
    BY <1>1, <1>2, <2>1, <2>3, <2>4, <2>5, <2>6 DEF WeightsInv, h
<1>3. CASE held' = SeededSynapses /\ justBooted' = "defaults"
  <2>1. /\ held' \in Seq(Synapses) /\ Len(held') = NSeeded /\ NSeeded \in Nat
        /\ \A i \in 1..NSeeded : held'[i].pair = SeededSynapses[i].pair
    BY <1>3, SeededIs
  <2>2. QED
    BY <1>1, <1>3, <2>1 DEF WeightsInv
<1>4. QED
  BY <1>2, <1>3 DEF LoadAtBoot

LEMMA WeightsKept == WeightsInv /\ [WeightsNext]_weightVars => WeightsInv'
<1> SUFFICES ASSUME WeightsInv, [WeightsNext]_weightVars PROVE WeightsInv'
  OBVIOUS
<1>1. CASE UNCHANGED weightVars
  BY <1>1 DEF WeightsInv, weightVars
<1>2. QED
  BY <1>1, LearningKeepsWeights, AppendingKeepsWeights, SavingKeepsWeights, LoadingKeepsWeights
     DEF WeightsNext

\* neurons.rs:92 and ata.rs: the weights saved are the weights a boot finds, to the nearest step,
\* for every network that is seeded, every size of the file, and every history of learning, adding,
\* saving and booting.
THEOREM WeightsAreFoundAgain == WeightsSpec => []WeightsComeBack
<1>1. WeightsInit => WeightsInv
  BY WeightsAtFirst
<1>2. WeightsInv /\ [WeightsNext]_weightVars => WeightsInv'
  BY WeightsKept
<1>3. WeightsInv => WeightsComeBack
  BY CameBackIsEnough
<1>4. QED
  BY <1>1, <1>2, <1>3, PTL DEF WeightsSpec
=============================================================================
