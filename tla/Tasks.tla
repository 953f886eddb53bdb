------------------------------- MODULE Tasks -------------------------------
(***************************************************************************)
(* The kernel's tasks (tasks.rs): stacks the timer handler switches        *)
(* between, which the shell's spawn and kill create and free, and what     *)
(* that means for the shell command that has a program in ring 3.          *)
(*                                                                         *)
(* There is one CPU.  Timer and keyboard handlers run with interrupts off, *)
(* so each is one action; the worker tasks only count.  A keyboard handler *)
(* runs on the stack of whatever it interrupted, with the shell and its    *)
(* command inside it.  If the command enters ring 3, interrupts are on     *)
(* again, and the unfinished handler is part of the context it runs on     *)
(* until the program exits.  No other key arrives meanwhile: the handler   *)
(* has not acknowledged its interrupt.                                     *)
(***************************************************************************)
EXTENDS Scheduler

CONSTANTS NTasks,    \* N_TASKS, the tasks of the demo at boot
          MaxTicks   \* MAX_TICKS, the timer ticks it lasts
ASSUME DemoAssumption == NTasks \in 1 .. MaxTasks /\ MaxTicks \in Nat \ {0}

Kernel == -1      \* usize::MAX, the context of kernel_main
Nobody == -2      \* no program is in ring 3
Contexts == Ids \cup {Kernel}

VARIABLES stacks,    \* the ids whose entry in TASKS is Some
          zombies,   \* ZOMBIE
          current,   \* CURRENT, which is the context the CPU is in
          phase,     \* how far kernel_main is; DEMO_ACTIVE is "demo", BACKGROUND is "background"
          ticks,     \* TOTAL_SWITCHES
          host       \* the context that holds the keyboard handler of a program in ring 3
vars == <<bank, stacks, zombies, current, phase, ticks, host>>

----------------------------------------------------------------------------
Init ==
    /\ nslots = 0 /\ alive = {} /\ potential = [t \in Ids |-> 0]
    /\ stacks = {} /\ zombies = {}
    /\ current = Kernel
    /\ phase = "boot"
    /\ ticks = 0
    /\ host = Nobody

\* kernel_main itself executes: not a task, nor a program on top of it.
InKernelMain == current = Kernel /\ host # Kernel

StartDemo ==
    /\ phase = "boot" /\ InKernelMain
    /\ New(NTasks)
    /\ stacks' = 0 .. NTasks - 1
    /\ ticks' = 0
    /\ current' = 0
    /\ phase' = "demo"
    /\ UNCHANGED <<zombies, host>>

EnableBackground ==
    /\ phase = "wait" /\ InKernelMain
    /\ phase' = "background"
    /\ UNCHANGED <<bank, stacks, zombies, current, ticks, host>>

----------------------------------------------------------------------------
\* Mutant: frees the stacks but keeps the ids on the list.
ReapZombiesListed ==
    /\ zombies' = zombies
    /\ stacks' = stacks \ (zombies \ {current})

\* The timer handler, which begins with reap_zombies.
ReapZombies ==
    /\ zombies' = zombies \cap {current}
    /\ stacks' = stacks \ (zombies \ {current})

\* Mutant: compares the count before this tick.
DemoIsOverLate == phase = "demo" /\ ticks >= MaxTicks

DemoIsOver == phase = "demo" /\ ticks + 1 >= MaxTicks
Scheduling == phase = "background" \/ (phase = "demo" /\ ~DemoIsOver)

IdleTick ==
    /\ phase \in {"boot", "wait"}
    /\ ReapZombies
    /\ UNCHANGED <<bank, current, phase, ticks, host>>

\* Mutant: returns to the task it interrupted.
EndDemoNoSwitch ==
    /\ DemoIsOver
    /\ ReapZombies
    /\ ticks' = ticks + 1
    /\ phase' = "wait"
    /\ UNCHANGED <<bank, current, host>>

EndDemo ==
    /\ DemoIsOver
    /\ ReapZombies
    /\ ticks' = ticks + 1
    /\ phase' = "wait"
    /\ current' = Kernel
    /\ UNCHANGED <<bank, host>>

SchedulingTick ==
    /\ Scheduling
    /\ ReapZombies
    /\ ticks' = IF phase = "demo" THEN ticks + 1 ELSE ticks
    /\ \E p \in Grown : \E w \in Winners(p) :
          /\ Step(p, w)
          /\ current' = IF w = NoSlot THEN current ELSE w
    /\ UNCHANGED <<phase, host>>

Tick == IdleTick \/ EndDemo \/ SchedulingTick

----------------------------------------------------------------------------
\* Shell commands.  Before the demo there is no scheduler, and spawn and kill fail.
Prompt == host = Nobody /\ phase # "boot"

\* Mutant: a dead slot counts as free before it is reaped.
FreeIdsDead == (0 .. nslots - 1) \ alive

FreeIds == (0 .. nslots - 1) \ stacks

Spawn ==
    /\ Prompt
    /\ \/ \E t \in FreeIds :
             /\ \A u \in FreeIds : t <= u
             /\ Revive(t)
             /\ stacks' = stacks \cup {t}
       \/ /\ FreeIds = {} /\ nslots < MaxTasks
          /\ AddSlot
          /\ stacks' = stacks \cup {nslots}
    /\ UNCHANGED <<zombies, current, phase, ticks, host>>

\* Mutant: frees the stack at once, whoever runs on it.
KillAtOnce(t) ==
    /\ Prompt
    /\ t \in alive
    /\ KillSlot(t)
    /\ stacks' = stacks \ {t}
    /\ UNCHANGED <<zombies, current, phase, ticks, host>>

\* Mutant: puts every freeing off until the next tick.
KillDeferred(t) ==
    /\ Prompt
    /\ t \in alive
    /\ KillSlot(t)
    /\ zombies' = zombies \cup {t}
    /\ UNCHANGED <<stacks, current, phase, ticks, host>>

Kill(t) ==
    /\ Prompt
    /\ t \in alive
    /\ KillSlot(t)
    /\ IF t = current
       THEN zombies' = zombies \cup {t} /\ UNCHANGED stacks
       ELSE stacks' = stacks \ {t} /\ UNCHANGED zombies
    /\ UNCHANGED <<current, phase, ticks, host>>

\* runproc, runfile, runelf or usertest enters ring 3.
RunProgram ==
    /\ host = Nobody
    /\ host' = current
    /\ UNCHANGED <<bank, stacks, zombies, current, phase, ticks>>

\* The program exits or faults; the command and the keyboard handler return.
ProgramEnds ==
    /\ host = current
    /\ host' = Nobody
    /\ UNCHANGED <<bank, stacks, zombies, current, phase, ticks>>

----------------------------------------------------------------------------
Next ==
    \/ StartDemo \/ EnableBackground
    \/ Tick
    \/ Spawn \/ (\E t \in Ids : Kill(t))
    \/ RunProgram \/ ProgramEnds

\* The timer keeps ticking, kernel_main goes on when it has the CPU, and a
\* program that gets the CPU again and again ends.  Nobody has to type.
Fairness == WF_vars(Tick) /\ SF_vars(StartDemo) /\ SF_vars(EnableBackground) /\ SF_vars(ProgramEnds)
Spec == Init /\ [][Next]_vars /\ Fairness

----------------------------------------------------------------------------
\* Every variable has a value of its type.
TypeOK ==
    /\ nslots \in 0 .. MaxTasks
    /\ alive \subseteq Ids
    /\ potential \in [Ids -> Nat]
    /\ stacks \subseteq Ids
    /\ zombies \subseteq Ids
    /\ current \in Contexts
    /\ phase \in {"boot", "demo", "wait", "background"}
    /\ ticks \in 0 .. MaxTicks
    /\ host \in Contexts \cup {Nobody}

\* Every stack belongs to a live task or waits to be reaped, never both: no
\* task is scheduled without a stack (the expect()s of tasks.rs cannot fail)
\* and no slot is lost to spawn.
StacksAreOwned == stacks = alive \cup zombies /\ alive \cap zombies = {}

\* The stack the CPU is on is not freed, also when its own task is killed by
\* a command that runs on it (tasks.rs, kill and reap_zombies).
RunningStackKept == current = Kernel \/ current \in stacks

\* However kills and ticks interleave, at most two killed tasks keep their
\* stacks: the one the CPU is on and the one it was on before.
FewZombies == \E z \in Contexts : zombies \subseteq {z, current}

\* kernel_main gets the CPU back from the demo when its time is over, even
\* with every task killed or a program in ring 3, and gets to its last line.
BootCompletes == <>(phase = "background")

\* No live task is starved by its neighbours, whatever is spawned and killed
\* around it (the comment on coupling in scheduler.rs, step).
NoStarvation == \A t \in Ids : (phase = "background" /\ t \in alive) ~> (current = t \/ t \notin alive)

\* While any task stays alive, a time comes when every stack whose freeing
\* was put off is freed (tasks.rs, reap_zombies: "not left leaking forever").
ZombiesAreReaped == \A t \in Ids : t \in alive ~> (zombies = {} \/ t \notin alive)

\* The shell keeps responding to keystrokes forever (main.rs, kernel_main).
ShellKeepsResponding == []<>(host = Nobody)
============================================================================
