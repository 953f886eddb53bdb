----------------------------- MODULE Processes -----------------------------
(***************************************************************************)
(* The processes of the kernel: their file-descriptor tables, the global   *)
(* pipe table with its reference counts, the table of forked children, and *)
(* the machine context (CR3, ACTIVE_PROCESS, resume anchors, syscall       *)
(* stack) that moves between the shell, a process and the child it waits   *)
(* for.  src/kernel/src/process.rs, usertest.rs, gdt.rs, loader.rs.        *)
(*                                                                         *)
(* Every syscall runs to completion with interrupts off (int 0x80 is an    *)
(* interrupt gate), so one syscall is one action; wait() is two, since the *)
(* child runs in ring 3 between its first and its second half.  A user     *)
(* program is arbitrary: it may issue any syscall at any time.             *)
(***************************************************************************)
EXTENDS Integers, FiniteSets

CONSTANTS
    StaticPids,    \* ids of the processes built once at boot, PROCESS_A and so on
    LoadedPid,     \* LOADED_PROCESS_ID, the slot every runfile and runelf replaces
    TablePids,     \* PID_TABLE_BASE + i, the slots of PROCESS_TABLE
    MaxOpenFiles,  \* MAX_OPEN_FILES
    MaxPipes,      \* MAX_PIPES
    RefMax         \* u32::MAX, where read_open and write_open saturate

Pids  == StaticPids \cup {LoadedPid} \cup TablePids
Fds   == 0 .. MaxOpenFiles - 1
Pipes == 0 .. MaxPipes - 1
Ends  == {"read", "write"}

NoPid == 0         \* ACTIVE_PROCESS = 0; as a value of cr3, the kernel's own PML4

ASSUME PidsAssumption ==
    /\ IsFiniteSet(StaticPids) /\ IsFiniteSet(TablePids)
    /\ Pids \subseteq Nat \ {NoPid}
    /\ TablePids \cap (StaticPids \cup {LoadedPid}) = {}
    /\ LoadedPid \notin StaticPids

ASSUME SizeAssumption ==
    /\ MaxOpenFiles \in Nat \ {0}
    /\ MaxPipes \in Nat \ {0}
    /\ RefMax \in Nat
    \* 2^32 - 1 is far more than the fds of all processes together.
    /\ RefMax >= Cardinality(Pids \X Fds)
    /\ RefMax > 0

VARIABLES
    alive,     \* the pids that name a Process
    fds,       \* fds[p][f]: what slot f of p's fd table names
    parent,    \* parent_pid of the entries of PROCESS_TABLE
    pending,   \* the forked children whose pending_resume is still Some
    orphan,    \* history: children whose parent's Process was replaced
    refs,      \* refs[i][e]: open count of end e of pipe i; 0 and 0 is a free slot
    mode,      \* "kernel" (the shell runs), "user" (ring 3), "halted", "spinning"
    active,    \* ACTIVE_PROCESS
    cr3,       \* the process whose PML4 is loaded, NoPid for the kernel's
    inChild,   \* IN_CHILD_RESUME
    rsp0,      \* the stack privilege_stack_table[0] points at
    frame,     \* whose trap frame is at the top of the TSS's own ring-0 stack
    waiting,   \* the in-flight wait(): its caller and the child it runs
    allocHeld  \* FRAME_ALLOCATOR is held across the excursion

tableVars   == <<alive, parent, pending, orphan>>
contextVars == <<mode, active, cr3, inChild, rsp0, waiting, allocHeld>>
vars        == <<tableVars, fds, refs, contextVars, frame>>

FdEntry    == [kind : {"none", "file"} \cup Ends, pipe : Pipes]
NoEntry    == [kind |-> "none", pipe |-> 0]
FileEntry  == [kind |-> "file", pipe |-> 0]
End(e, i)  == [kind |-> e, pipe |-> i]
EmptyTable == [f \in Fds |-> NoEntry]

RefTable   == [Pipes -> [Ends -> 0 .. RefMax]]
NotWaiting == [parent |-> NoPid, child |-> NoPid]

-----------------------------------------------------------------------------
(* Reference counts and table scans.                                       *)

Lowest(S) == CHOOSE x \in S : \A y \in S : x <= y

Live(rc, i) == rc[i]["read"] > 0 \/ rc[i]["write"] > 0

\* (Definitions marked "Mutant" are wrong on purpose: substituted for the one
\* that follows, each breaks a property below.)
\* Mutant: a plain addition.
SatAddPlain(n, k) == n + k

SatAdd(n, k) == IF n + k > RefMax THEN RefMax ELSE n + k
SatSub(n)    == IF n = 0 THEN 0 ELSE n - 1

FreeFds(p)       == {f \in Fds : fds[p][f].kind = "none"}
\* Mutant: fork takes the first slot, free or not.
FreePidsAny == TablePids
FreePids         == TablePids \ alive
EndCount(p, e, i) == Cardinality({f \in Fds : fds[p][f] = End(e, i)})

\* One more descriptor names entry x.
Acquire(rc, x) ==
    IF x.kind \in Ends /\ Live(rc, x.pipe)
    THEN [rc EXCEPT ![x.pipe][x.kind] = SatAdd(@, 1)]
    ELSE rc

\* Mutant: closing one end frees the pipe.
ReleaseAll(rc, x) ==
    IF x.kind \in Ends THEN [rc EXCEPT ![x.pipe] = [e \in Ends |-> 0]] ELSE rc

\* close_fd of entry x: when both counts reach 0 the pipe slot is free.
Release(rc, x) ==
    IF x.kind \in Ends /\ Live(rc, x.pipe)
    THEN [rc EXCEPT ![x.pipe][x.kind] = SatSub(@)]
    ELSE rc

\* Mutant: fork copies the descriptors and not the counts.
AcquireTableNot(rc, p) == rc

\* fork: each end counts once more for every slot of p that names it.
AcquireTable(rc, p) ==
    [i \in Pipes |-> [e \in Ends |->
        IF Live(rc, i) THEN SatAdd(rc[i][e], EndCount(p, e, i)) ELSE rc[i][e]]]

-----------------------------------------------------------------------------
(* Entering the kernel from ring 3.                                        *)

\* The CPU pushes the trap frame at the fixed top of the stack RSP0 names: the
\* TSS's own one, or the one set aside for the child of a wait().
Trap == mode = "user" /\ frame' = IF rsp0 = "main" THEN active ELSE frame

Syscall == Trap /\ active # NoPid

\* A timer interrupt, or a syscall that changes nothing modelled here:
\* write, sbrk, exec, read, fdwrite, and the calls refused before they change
\* anything.
NoEffect == Trap /\ UNCHANGED <<tableVars, fds, refs, contextVars>>

\* A page fault inside the kernel, on a pointer a syscall was given: hlt_loop.
KernelFault ==
    /\ Syscall
    /\ mode' = "halted"
    /\ UNCHANGED <<tableVars, fds, refs, active, cr3, inChild, rsp0, waiting, allocHeld>>

-----------------------------------------------------------------------------
(* Descriptors: open, close, pipe, dup, dup2.                              *)

OpenFile ==
    /\ Syscall
    /\ FreeFds(active) # {}
    /\ fds' = [fds EXCEPT ![active][Lowest(FreeFds(active))] = FileEntry]
    /\ UNCHANGED <<tableVars, refs, contextVars>>

CloseFd(f) ==
    /\ Syscall
    /\ f \notin FreeFds(active)
    /\ fds' = [fds EXCEPT ![active][f] = NoEntry]
    /\ refs' = Release(refs, fds[active][f])
    /\ UNCHANGED <<tableVars, contextVars>>

PipeCreate ==
    /\ Syscall
    /\ \E i \in Pipes : ~Live(refs, i)
    /\ Cardinality(FreeFds(active)) >= 2
    /\ LET i == Lowest({j \in Pipes : ~Live(refs, j)})
           r == Lowest(FreeFds(active))
           w == Lowest(FreeFds(active) \ {r})
       IN /\ refs' = [refs EXCEPT ![i] = [e \in Ends |-> 1]]
          /\ fds' = [fds EXCEPT ![active][r] = End("read", i),
                                ![active][w] = End("write", i)]
    /\ UNCHANGED <<tableVars, contextVars>>

\* The count goes up before a slot is looked for, and stays up if none is free.
DupFd(f) ==
    /\ Syscall
    /\ f \notin FreeFds(active)
    /\ refs' = Acquire(refs, fds[active][f])
    /\ fds' = IF FreeFds(active) = {} THEN fds
              ELSE [fds EXCEPT ![active][Lowest(FreeFds(active))] = fds[active][f]]
    /\ UNCHANGED <<tableVars, contextVars>>

Dup2Fd(f, g) ==
    /\ Syscall
    /\ f # g
    /\ f \notin FreeFds(active)
    /\ refs' = Acquire(Release(refs, fds[active][g]), fds[active][f])
    /\ fds' = [fds EXCEPT ![active][g] = fds[active][f]]
    /\ UNCHANGED <<tableVars, contextVars>>

-----------------------------------------------------------------------------
(* fork, wait, kill.                                                       *)

\* Mutant: a child that is being waited for may fork.
ForkNested ==
    /\ Syscall
    /\ ~allocHeld
    /\ FreePids # {}
    /\ LET c == Lowest(FreePids)
       IN /\ alive' = alive \cup {c}
          /\ fds' = [fds EXCEPT ![c] = fds[active]]
          /\ parent' = [parent EXCEPT ![c] = active]
          /\ pending' = pending \cup {c}
    /\ refs' = AcquireTable(refs, active)
    /\ UNCHANGED <<orphan, contextVars>>

Fork ==
    /\ Syscall
    /\ ~inChild /\ ~allocHeld
    /\ FreePids # {}
    /\ LET c == Lowest(FreePids)
       IN /\ alive' = alive \cup {c}
          /\ fds' = [fds EXCEPT ![c] = fds[active]]
          /\ parent' = [parent EXCEPT ![c] = active]
          /\ pending' = pending \cup {c}
    /\ refs' = AcquireTable(refs, active)
    /\ UNCHANGED <<orphan, contextVars>>

\* The pipe counts are raised before the full table is noticed.
ForkTableFull ==
    /\ Syscall
    /\ ~inChild /\ ~allocHeld
    /\ FreePids = {}
    /\ refs' = AcquireTable(refs, active)
    /\ UNCHANGED <<tableVars, fds, contextVars>>

\* with_frame_allocator spins on a lock its own excursion holds.
ForkSpin ==
    /\ Syscall
    /\ ~inChild /\ allocHeld
    /\ mode' = "spinning"
    /\ UNCHANGED <<tableVars, fds, refs, active, cr3, inChild, rsp0, waiting, allocHeld>>

\* Mutant: the child traps onto its parent's ring-0 stack.
WaitEnterSameStack(c) ==
    /\ Syscall
    /\ ~inChild
    /\ c \in alive /\ parent[c] = active /\ c \in pending
    /\ pending' = pending \ {c}
    /\ waiting' = [parent |-> active, child |-> c]
    /\ active' = c /\ cr3' = c /\ inChild' = TRUE
    /\ UNCHANGED <<alive, parent, orphan, fds, refs, mode, rsp0, allocHeld>>

\* First half of wait(): consume the child's resume point and enter ring 3 as it.
WaitEnter(c) ==
    /\ Syscall
    /\ ~inChild
    /\ c \in alive /\ parent[c] = active
    /\ c \in pending
    /\ pending' = pending \ {c}
    /\ waiting' = [parent |-> active, child |-> c]
    /\ active' = c /\ cr3' = c
    /\ rsp0' = "child" /\ inChild' = TRUE
    /\ UNCHANGED <<alive, parent, orphan, fds, refs, mode, allocHeld>>

\* Dropping a Process closes nothing: refs keeps the counts of its pipe ends.
DropChild(c) ==
    /\ alive' = alive \ {c}
    /\ fds' = [fds EXCEPT ![c] = EmptyTable]
    /\ parent' = [parent EXCEPT ![c] = NoPid]
    /\ pending' = pending \ {c}
    /\ orphan' = orphan \ {c}
    /\ UNCHANGED refs

\* Mutant: wait() returns under the page tables exit() left, the kernel's.
ChildEndKernelCr3 ==
    /\ Syscall
    /\ inChild
    /\ inChild' = FALSE /\ rsp0' = "main"
    /\ active' = waiting.parent /\ cr3' = NoPid
    /\ DropChild(waiting.child)
    /\ waiting' = NotWaiting
    /\ UNCHANGED <<mode, allocHeld>>

\* Mutant: wait() leaves the child in PROCESS_TABLE.
ChildEndNoReap ==
    /\ Syscall
    /\ inChild
    /\ inChild' = FALSE /\ rsp0' = "main"
    /\ active' = waiting.parent /\ cr3' = waiting.parent
    /\ waiting' = NotWaiting
    /\ UNCHANGED <<tableVars, fds, refs, mode, allocHeld>>

\* exit() or a page fault of the child, then the second half of wait().
ChildEnd ==
    /\ Syscall
    /\ inChild
    /\ inChild' = FALSE /\ rsp0' = "main"
    /\ active' = waiting.parent /\ cr3' = waiting.parent
    /\ DropChild(waiting.child)
    /\ waiting' = NotWaiting
    /\ UNCHANGED <<mode, allocHeld>>

Kill(c) ==
    /\ Syscall
    /\ c \in alive /\ parent[c] = active
    /\ DropChild(c)
    /\ UNCHANGED contextVars

-----------------------------------------------------------------------------
(* Top-level excursions, started by shell commands.                        *)

EnterRing3(p) ==
    /\ mode = "kernel"
    /\ mode' = "user"
    /\ active' = p /\ cr3' = p
    /\ UNCHANGED <<inChild, rsp0, waiting, frame>>

\* runproc, runfdtest, runfork, ...
Run(p) ==
    /\ EnterRing3(p)
    /\ UNCHANGED <<tableVars, fds, refs, allocHeld>>

\* usertest: ring 3 under the kernel's own page tables.
RunUsertest ==
    /\ EnterRing3(NoPid)
    /\ UNCHANGED <<tableVars, fds, refs, allocHeld>>

\* runfile and runelf replace LOADED_PROCESS; runelf keeps the allocator locked.
RunLoaded(elf) ==
    /\ EnterRing3(LoadedPid)
    /\ alive' = alive \cup {LoadedPid}
    /\ fds' = [fds EXCEPT ![LoadedPid] = EmptyTable]
    /\ orphan' = orphan \cup {c \in TablePids \cap alive : parent[c] = LoadedPid}
    /\ allocHeld' = elf
    /\ UNCHANGED <<parent, pending, refs>>

\* exit() or a page fault of the top-level process, back to the shell.
TopEnd ==
    /\ Trap
    /\ ~inChild
    /\ mode' = "kernel"
    /\ active' = NoPid /\ cr3' = NoPid
    /\ allocHeld' = FALSE
    /\ UNCHANGED <<tableVars, fds, refs, inChild, rsp0, waiting>>

-----------------------------------------------------------------------------
Init ==
    /\ alive = StaticPids
    /\ fds = [p \in Pids |-> EmptyTable]
    /\ parent = [c \in TablePids |-> NoPid]
    /\ pending = {} /\ orphan = {}
    /\ refs = [i \in Pipes |-> [e \in Ends |-> 0]]
    /\ mode = "kernel" /\ active = NoPid /\ cr3 = NoPid
    /\ inChild = FALSE /\ rsp0 = "main"
    /\ frame = NoPid
    /\ waiting = NotWaiting
    /\ allocHeld = FALSE

Next ==
    \/ NoEffect \/ KernelFault \/ OpenFile \/ PipeCreate
    \/ \E f \in Fds : CloseFd(f) \/ DupFd(f)
    \/ \E f, g \in Fds : Dup2Fd(f, g)
    \/ Fork \/ ForkTableFull \/ ForkSpin
    \/ \E c \in TablePids : WaitEnter(c) \/ Kill(c)
    \/ ChildEnd \/ TopEnd
    \/ \E p \in StaticPids : Run(p)
    \/ RunUsertest
    \/ \E elf \in BOOLEAN : RunLoaded(elf)

Spec == Init /\ [][Next]_vars

-----------------------------------------------------------------------------
(* Properties.                                                             *)

TypeOK ==
    /\ alive \subseteq Pids
    /\ fds \in [Pids -> [Fds -> FdEntry]]
    /\ parent \in [TablePids -> Pids \cup {NoPid}]
    /\ pending \subseteq TablePids
    /\ orphan \subseteq TablePids
    /\ refs \in RefTable
    /\ mode \in {"kernel", "user", "halted", "spinning"}
    /\ active \in Pids \cup {NoPid}
    /\ cr3 \in Pids \cup {NoPid}
    /\ inChild \in BOOLEAN
    /\ rsp0 \in {"main", "child"}
    /\ frame \in Pids \cup {NoPid}
    /\ waiting \in [parent : Pids \cup {NoPid}, child : TablePids \cup {NoPid}]
    /\ allocHeld \in BOOLEAN

Holders(e, i) == {h \in Pids \X Fds : fds[h[1]][h[2]] = End(e, i)}

\* The count of an end, although fork, dup and dup2 saturate it and killed or
\* reaped processes never give theirs back, is never below the number of
\* descriptors that name it: close_fd cannot free a pipe (and pipe_create hand
\* its slot to somebody else) while any process still names one of its ends.
RefsCoverHolders ==
    \A i \in Pipes, e \in Ends : Cardinality(Holders(e, i)) <= refs[i][e]

\* CR3, ACTIVE_PROCESS, IN_CHILD_RESUME and RSP0 agree: ring 3 always runs
\* under the page tables of the process the next syscall is charged to, on a
\* live process, and whenever the shell runs everything is back to its own.
ContextAgrees ==
    /\ mode = "kernel" => active = NoPid /\ ~inChild /\ ~allocHeld
    /\ cr3 = active
    /\ active # NoPid => active \in alive
    /\ active \in TablePids <=> inChild
    /\ inChild <=> rsp0 = "child"
    /\ IF inChild THEN waiting.child = active /\ waiting.parent \in alive \ TablePids
                  ELSE waiting = NotWaiting

\* While a parent waits, the trap frame its wait() will return through stays at
\* the top of the ring-0 stack, whatever its child does (the page fault at
\* 0x200 that gdt::set_syscall_stack_top was written against).
WaitFrameIntact == inChild => frame = waiting.parent

\* What kill() relies on: a child in PROCESS_TABLE has never run, except the
\* one a wait() is running right now.
TableNeverRan ==
    \A c \in TablePids \cap alive : c \notin pending => inChild /\ c = active

\* Every child has a parent that is alive and is no child itself, so nothing in
\* PROCESS_TABLE can be the parent that a reaped slot would leave behind.
ParentsOutliveChildren ==
    \A c \in TablePids \cap alive : parent[c] \in alive \ TablePids

\* A descriptor table changes only by its own process's syscalls, except that a
\* fork fills the new child's and a dropped or replaced process loses its own:
\* no process can make another one's open descriptor name something else.
OthersFdsUntouched ==
    [][\A p \in Pids \ {active} :
         fds'[p] # fds[p] =>
            \/ p \notin alive
            \/ p \notin alive'
            \/ p = LoadedPid /\ mode = "kernel"]_vars

\* The refinement mapping: the live pipes, and the end each descriptor names.
NoEndHeld  == <<"none", 0>>
EndOf(x)   == IF x.kind \in Ends THEN <<x.kind, x.pipe>> ELSE NoEndHeld
AllHandles == Pids \X Fds
OpenPipes  == {i \in Pipes : Live(refs, i)}
HeldEnds   == [h \in AllHandles |-> EndOf(fds[h[1]][h[2]])]

Lifetime == INSTANCE PipeLifetime WITH
    Handle <- AllHandles, Pipe <- Pipes, EndKind <- Ends, NoEnd <- NoEndHeld,
    open <- OpenPipes, holds <- HeldEnds

\* The descriptor tables and the pipe table implement the capabilities of
\* PipeLifetime: an end reaches a new descriptor only from the pipe() that made
\* it or from a descriptor that names it, and its pipe exists until the last
\* one is gone.
ImplementsPipeLifetime == Lifetime!Spec

-----------------------------------------------------------------------------
(* What the comments of the code say and the code does not do.             *)

\* Some descriptor names pipe i.
Named(i) == \E e \in Ends : Holders(e, i) # {}

\* A pipe is freed once every descriptor that named it "has been close()'d"; without real
\* counting it would be "a permanent leak of one of only MAX_PIPES" slots (process.rs, doc comment
\* of struct Pipe).  So a process that closes the last descriptor that names a pipe, by close or
\* dup2, frees the pipe; what is dropped with its process is never closed, and not meant here.
ClosedPipeIsFreed ==
  [][\A i \in Pipes :
       Named(i) /\ ~Named(i)' /\ UNCHANGED <<alive, active>> => ~Live(refs, i)']_vars

\* fork() returns "the new child's PID, or `None`" for one of four listed
\* reasons (process.rs, doc comment of fork): it never hangs.
ForkReturns == mode # "spinning"

\* "only a process's REAL parent can reap it" (process.rs, field parent_pid).
OnlyRealParentReaps == inChild => waiting.child \notin orphan
=============================================================================
