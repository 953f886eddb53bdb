-------------------------------- MODULE Boot --------------------------------
(***************************************************************************)
(* The boot sequence (kernel_main of main.rs) up to the point where it     *)
(* parks, with the interrupts that fall into it.  kernel_main is a fixed   *)
(* list of steps.  A step may need what an earlier one set up, may fail    *)
(* without stopping the boot, and may hold spin locks while interrupts are *)
(* on.  The handlers run with interrupts off on top of it, so one that     *)
(* wants a lock the interrupted step holds spins for ever.  The demo of    *)
(* the tasks switches stacks; what a saved stack pointer resumes is kept.  *)
(***************************************************************************)
EXTENDS Integers, Sequences, FiniteSets

CONSTANTS DemoTasks,    \* N_TASKS
          DemoBudget,   \* MAX_TICKS, the ticks of the demo
          FirstWinner,  \* the first step of a new scheduler at which a slot can reach the threshold
          Hlts,         \* bound for 80 and 150, the hlt instructions of the two waits
          MaxKeys       \* bound: key presses

ASSUME BootAssumption ==
  /\ DemoTasks \in Nat /\ DemoTasks >= 2 /\ MaxKeys \in Nat
  /\ FirstWinner \in Nat /\ DemoBudget \in Nat /\ FirstWinner < DemoBudget
  /\ Hlts \in Nat \ {0}

VARIABLES
  at,        \* the step kernel_main is in
  ready,     \* what the steps so far have set up
  outcome,   \* "running", "panic", "halted", "spinning" or "lost"
  hlts,      \* hlt instructions that have returned, of the wait kernel_main is in
  keys,      \* TYPED, how many characters
  keyBeforePrompt,  \* history: a key was handled when there was no prompt yet
  demoOn, current, budget,  \* DEMO_ACTIVE, CURRENT, TOTAL_SWITCHES
  kernelRsp, \* KERNEL_RSP resumes kernel_main
  slotRsp,   \* what the saved stack pointer of each task resumes: "worker" or "kernel"
  firstRsp,  \* what the stack pointer in the local of run_preemption_demo resumes
  onCpu,     \* "kernel" or "worker"
  strayTicks \* history: ticks between the start of the demo and its first switch

demoVars == <<demoOn, current, budget, kernelRsp, slotRsp, firstRsp, onCpu, strayTicks>>
bootVars == <<at, ready, outcome, hlts, keys, keyBeforePrompt, demoVars>>

Ids == 0..DemoTasks - 1
NoTask == -1   \* usize::MAX

----------------------------------------------------------------------------
(* The steps: their name, what they need not to panic or fault, what they  *)
(* set up, and whether they can fail and let the boot go on.               *)

Step(name, needs, gives, mayFail) ==
  [name |-> name, needs |-> needs, gives |-> gives, mayFail |-> mayFail]

Framebuffer == Step("framebuffer", {}, {"console"}, TRUE)

\* Both expects: a mapping of physical memory, and the frames for the heap.
HeapUp == Step("heap", {"memory_map"}, {"heap"}, FALSE)

\* The ring-3 test page and the processes made at boot; a failure is reported and their slot empty.
ProcessesUp == Step("processes", {"heap", "memory_map"}, {"processes"}, TRUE)

AllocatorPublished == Step("allocator", {"memory_map"}, {"allocator"}, FALSE)

SelfTests == Step("self_tests", {"heap"}, {}, TRUE)

NetworkUp == Step("network", {"heap"}, {"network"}, FALSE)

SchedulerTrials == Step("scheduler_trials", {"heap"}, {}, FALSE)

TablesUp == Step("tables", {}, {"tables"}, FALSE)

\* Programs run in ring 3, with the interrupt flag set while they do.
SignalTest == Step("signal_test", {"heap", "tables"}, {}, TRUE)

DevicesUp == Step("devices", {"heap"}, {"mouse"}, TRUE)

PicsUp == Step("pics", {}, {"pics"}, FALSE)

PromptUp == Step("prompt", {"heap"}, {"prompt"}, FALSE)

EnableInterrupts == Step("enable", {}, {"interrupts"}, FALSE)

Wait(name) == Step(name, {}, {}, FALSE)

\* run_preemption_demo, one step for every lock it takes.
PushTasks == Step("push_tasks", {"heap"}, {}, FALSE)

NewScheduler == Step("new_scheduler", {"heap"}, {}, FALSE)

Publish == Step("publish", {}, {}, FALSE)

FirstRsp == Step("first_rsp", {}, {}, FALSE)

FirstSwitch == Step("switch", {}, {}, FALSE)

ReadTyped == Step("read_typed", {"heap"}, {}, FALSE)

Background == Step("background", {}, {}, FALSE)

Parked == Step("parked", {}, {}, FALSE)

\* Mutant: interrupts are enabled before the prompt is printed (what milestone 19 repaired).
OrderPromptLate ==
  <<Framebuffer, HeapUp, ProcessesUp, AllocatorPublished, SelfTests, NetworkUp, SchedulerTrials,
    TablesUp, SignalTest, DevicesUp, PicsUp, EnableInterrupts, PromptUp, Wait("wait_80"),
    PushTasks, NewScheduler, Publish, FirstRsp, FirstSwitch,
    Wait("wait_150"), ReadTyped, Background, Parked>>

Order ==
  <<Framebuffer, HeapUp, ProcessesUp, AllocatorPublished, SelfTests, NetworkUp, SchedulerTrials,
    TablesUp, SignalTest, DevicesUp, PicsUp, PromptUp, EnableInterrupts, Wait("wait_80"),
    PushTasks, NewScheduler, Publish, FirstRsp, FirstSwitch,
    Wait("wait_150"), ReadTyped, Background, Parked>>

In(name) == Order[at].name = name

\* Mutant: the guard of TYPED lives to the end of kernel_main.
HeldGuardKept ==
  CASE In("push_tasks")    -> {{}, {"TASKS"}, {"TASKS", "heap"}}
    [] In("new_scheduler") -> {{}, {"heap"}, {"SCHED"}}
    [] In("first_rsp")     -> {{}, {"TASKS"}}
    [] In("read_typed")    -> {{}, {"TYPED"}, {"TYPED", "heap"}}
    [] In("background") \/ In("parked") -> {{"TYPED"}}
    [] OTHER               -> {{}}

\* The sets of locks kernel_main holds at the instructions of the step it is in.
Held ==
  CASE In("push_tasks")    -> {{}, {"TASKS"}, {"TASKS", "heap"}}
    [] In("new_scheduler") -> {{}, {"heap"}, {"SCHED"}}
    [] In("first_rsp")     -> {{}, {"TASKS"}}
    [] In("read_typed")    -> {{}, {"TYPED"}, {"TYPED", "heap"}}
    [] OTHER               -> {{}}

BootInit ==
  /\ at = 1 /\ ready \in {{}, {"memory_map"}} /\ outcome = "running"
  /\ hlts = 0 /\ keys = 0 /\ keyBeforePrompt = FALSE
  /\ demoOn = FALSE /\ current = NoTask /\ budget = 0 /\ strayTicks = 0
  /\ kernelRsp = FALSE /\ slotRsp = [t \in Ids |-> "worker"] /\ firstRsp = "worker"
  /\ onCpu = "kernel"

Executing == outcome = "running" /\ onCpu = "kernel"

\* What the steps of the demo do to its state.
DemoStep ==
  CASE In("publish") ->
         /\ budget' = 0 /\ current' = 0 /\ demoOn' = TRUE
         /\ UNCHANGED <<kernelRsp, slotRsp, firstRsp, onCpu, strayTicks>>
    [] In("first_rsp") ->
         /\ firstRsp' = slotRsp[0]
         /\ UNCHANGED <<demoOn, current, budget, kernelRsp, slotRsp, onCpu, strayTicks>>
    [] In("switch") ->
         /\ kernelRsp' = TRUE /\ onCpu' = "worker"
         /\ UNCHANGED <<demoOn, current, budget, slotRsp, firstRsp, strayTicks>>
    [] OTHER -> UNCHANGED demoVars

\* kernel_main finishes the step it is in.  The stack a switch lands on must be a worker's: its
\* own pointer, saved in task 0 before, names a frame that it has popped since.
Advance ==
  /\ Executing /\ at < Len(Order)
  /\ (In("wait_80") \/ In("wait_150")) => hlts = Hlts
  /\ IF Order[at].needs \subseteq ready
     THEN /\ \E works \in {TRUE} \cup (IF Order[at].mayFail THEN {FALSE} ELSE {}) :
               ready' = ready \cup (IF works THEN Order[at].gives ELSE {})
          /\ outcome' = IF In("switch") /\ firstRsp = "kernel" THEN "lost" ELSE outcome
          /\ at' = IF In("switch") THEN at ELSE at + 1
          /\ hlts' = 0
          /\ DemoStep
     ELSE outcome' = "panic" /\ UNCHANGED <<at, ready, hlts, demoVars>>
  /\ UNCHANGED <<keys, keyBeforePrompt>>

----------------------------------------------------------------------------
(* Interrupts.                                                             *)

InterruptsOn == outcome = "running" /\ (In("signal_test") \/ "interrupts" \in ready)

\* While a handler runs the interrupted code does not: a lock it holds is never released.
Spins(wants) == \E locks \in Held : onCpu = "kernel" /\ wants \cap locks # {}
Passes(wants) == \E locks \in Held : onCpu = "worker" \/ wants \cap locks = {}

\* hlt returns from any interrupt.
HltReturns == hlts' = IF (In("wait_80") \/ In("wait_150")) /\ hlts < Hlts THEN hlts + 1 ELSE hlts

\* Before init_pics the lines raise the vectors of exceptions: the timer that of a double fault,
\* whose handler halts, the others vectors without a handler, which end in one.  (The firmware
\* decides which lines are unmasked then.)
UnmappedInterrupt ==
  /\ InterruptsOn /\ "pics" \notin ready
  /\ outcome' = "halted"
  /\ UNCHANGED <<at, ready, hlts, keys, keyBeforePrompt, demoVars>>

SpinOn(wants) ==
  /\ Spins(wants) /\ outcome' = "spinning"
  /\ UNCHANGED <<at, ready, hlts, keys, keyBeforePrompt, demoVars>>

Handled(wants, Effect) == SpinOn(wants) \/ (Passes(wants) /\ HltReturns /\ Effect)

CountStray == strayTicks' = IF kernelRsp THEN strayTicks ELSE strayTicks + 1

EndDemo ==
  /\ demoOn' = FALSE /\ current' = NoTask /\ budget' = budget + 1
  /\ slotRsp' = [slotRsp EXCEPT ![current] = onCpu]
  /\ onCpu' = "kernel"
  /\ IF kernelRsp THEN at' = at + 1 /\ UNCHANGED outcome ELSE outcome' = "lost" /\ UNCHANGED at
  /\ UNCHANGED <<kernelRsp, firstRsp>>

\* The winner of the scheduler's step, or the task that runs already if there is none.
Picks == {current} \cup (IF budget + 1 >= FirstWinner THEN Ids ELSE {})

SwitchTo(next) ==
  /\ budget' = budget + 1 /\ current' = next
  /\ IF next = current THEN UNCHANGED <<slotRsp, onCpu>>
     ELSE slotRsp' = [slotRsp EXCEPT ![current] = onCpu] /\ onCpu' = slotRsp[next]
  /\ UNCHANGED <<at, outcome, demoOn, kernelRsp, firstRsp>>

\* With the locks each way through the tick takes; the network allocates when a neuron fires, the
\* scheduler in every step.
TimerInterrupt ==
  /\ InterruptsOn /\ "pics" \in ready
  /\ \E fires \in {{}, {"heap"}} :
       IF ~demoOn THEN Handled(fires, UNCHANGED <<at, outcome, demoVars>>)
       ELSE IF budget + 1 >= DemoBudget
            THEN Handled(fires \cup {"TASKS"}, EndDemo /\ CountStray)
            ELSE \E next \in Picks :
                   Handled({"heap", "SCHED"} \cup (IF next = current THEN {} ELSE {"TASKS"}),
                           SwitchTo(next) /\ CountStray)
  /\ UNCHANGED <<ready, keys, keyBeforePrompt>>

\* The key is stored, and the shell may allocate and, in spawn, kill and tasks, use the tasks.
KeyWants == {{"TYPED", "heap"} \cup locks : locks \in {{}, {"TASKS", "SCHED"}}}

KeyInterrupt ==
  /\ InterruptsOn /\ "pics" \in ready /\ keys < MaxKeys
  /\ \E wants \in KeyWants :
       Handled(wants, /\ keys' = keys + 1
                      /\ keyBeforePrompt' = (keyBeforePrompt \/ "prompt" \notin ready)
                      /\ UNCHANGED <<at, ready, outcome, demoVars>>)

\* The mouse takes none of these locks but the heap's, for the prompt after drawing.
MouseInterrupt ==
  /\ InterruptsOn /\ {"pics", "mouse"} \subseteq ready
  /\ \E wants \in {{}, {"heap"}} :
       Handled(wants, UNCHANGED <<at, ready, outcome, keys, keyBeforePrompt, demoVars>>)

\* hlt_loop, the handler that spins, the panic handler's exit.
BootStays == (In("parked") \/ outcome # "running") /\ UNCHANGED bootVars

BootNext ==
  Advance \/ UnmappedInterrupt \/ TimerInterrupt \/ KeyInterrupt \/ MouseInterrupt \/ BootStays

BootSpec == BootInit /\ [][BootNext]_bootVars

----------------------------------------------------------------------------
BootTypeOK ==
  /\ at \in 1..Len(Order) /\ outcome \in {"running", "panic", "halted", "spinning", "lost"}
  /\ hlts \in 0..Hlts /\ keys \in 0..MaxKeys /\ keyBeforePrompt \in BOOLEAN
  /\ demoOn \in BOOLEAN /\ current \in Ids \cup {NoTask} /\ budget \in 0..DemoBudget
  /\ kernelRsp \in BOOLEAN /\ slotRsp \in [Ids -> {"worker", "kernel"}]
  /\ firstRsp \in {"worker", "kernel"} /\ onCpu \in {"worker", "kernel"}

\* The boot stops short of its end in these cases and no other, whatever interrupts fall into it:
\* it panics where the bootloader mapped no memory; it halts on an interrupt that arrives in ring
\* 3 before the PIC is remapped (main.rs:498); a handler spins on a lock of the step that makes
\* the tasks, the scheduler or the first switch, or reads TYPED (tasks.rs:185, main.rs:634); and
\* kernel_main is lost, switched away as task 0 before the demo's own switch saved it, if so many
\* ticks fall between the two that the scheduler has a winner or the time is over (tasks.rs:192).
BootStopsOnlyWhere ==
  /\ outcome = "panic" => In("heap") /\ "memory_map" \notin ready
  /\ outcome = "halted" => In("signal_test")
  /\ outcome = "spinning" =>
       \E name \in {"push_tasks", "new_scheduler", "first_rsp", "read_typed"} : In(name)
  /\ outcome = "lost" => strayTicks >= FirstWinner

\* "The shell's prompt must exist on-screen before interrupts (and therefore real keystrokes) can
\* reach it" (main.rs:506-517): no key is handled before shell::init has run.
PromptComesFirst == ~keyBeforePrompt
=============================================================================
