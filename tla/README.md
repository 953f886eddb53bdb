# A TLA+ specification of Spikeling OS

Spikeling OS is a small x86-64 kernel in Rust (`src/kernel`), with a host program that starts it
in QEMU (`src/src`) and a few user programs (`src/tools`). This directory specifies its core:
TLA+ modules translated from the source, configurations that check small instances with TLC, and
theorems checked by the TLA+ proof system TLAPS. Paths below are relative to `src/kernel/src`
unless they start with `src/`. `PROJECT.json` lists the components, runs, mutants, findings, hazards and
theorems, and the source lines each definition stands for.

    tlc -config MCProcesses_safety.cfg MCProcesses      # likewise for the other .cfg files
    tlapm ProcessesProofs.tla                           # likewise for the other *Proofs modules

## 1. The system

The kernel has one CPU. Boot code (`main.rs`) initialises everything, runs a list of self-tests,
enables interrupts, runs a preemption demo and parks. From then on things happen in the timer
handler (task switching), the keyboard handler (which runs the shell, and with it every shell
command, with interrupts off) and in system calls (`int 0x80`, an interrupt gate, so with
interrupts off too). A user program runs in ring 3 as a *ring-3 excursion*: a shell command saves
an anchor, switches CR3, enters ring 3, and `exit` or a page fault long-jumps back to the anchor.
While a program runs, nothing else of the shell does.

| Component | State | Operations | What is hard | What makes it correct |
|---|---|---|---|---|
| Processes (`process.rs`, `usertest.rs`, `gdt.rs`, `loader.rs`) | fixed processes, `LOADED_PROCESS`, `PROCESS_TABLE`, descriptor tables, `PIPE_TABLE`; `ACTIVE_PROCESS`, CR3, `IN_CHILD_RESUME`, RSP0, resume anchors | open, close, pipe, dup, dup2, read, fdwrite, fork, wait, kill, exit, sbrk, exec; runproc, runfile, runelf, usertest | reference counts across fork/dup/kill; a child that traps while its parent waits in the kernel; slots and ids that are used again; locks held across an excursion | counts cover descriptors; context registers agree; nobody changes another's descriptors; a pipe end is a capability |
| Pipe buffer (`process.rs`) | ring of 512 bytes, two positions, a length | write, read | wrap-around; full and empty look the same | a bounded FIFO queue |
| Open files (`process.rs`, `fs.rs`) | a whole-file buffer, position and dirty flag per descriptor | open, read, fdwrite, close, dup, fork | copies made by dup and fork overwrite each other on close; failing write-back | nothing but a short list of causes makes two descriptors or the disk disagree |
| Address spaces (`process.rs`, `memory.rs`, `loader.rs`, `elf.rs`) | a bump counter of frames; per process a page table and frames | create, load an image or an ELF file, fork, exec | frames run out half-way; segments that overlap or lie elsewhere; contents left from before | memory is private and holds what the file and the program put there; valid files load, others are refused |
| File system (`fs.rs`, `ata.rs`) | sectors: tables of 8 entries and file data | mkdir, write, rm, rmdir, read, list | several sector writes per call, failures and power loss between them; depth limits; read errors | disjoint allocations; a tree; atomic effect |
| Tasks (`tasks.rs`, `interrupts.rs`) | `TASKS`, `CURRENT`, `ZOMBIE`, `DEMO_ACTIVE`, `BACKGROUND` | timer tick, spawn, kill, reap, demo | stacks freed while in use; a handler abandoned on a killed task's stack; the kernel's own context | a running stack is never freed or reused; every live task runs |
| Scheduler (`scheduler.rs`) | potentials, alive flags, bonds | step, add, kill, revive | winner-take-all with resets | bounded waiting |
| Boot (`main.rs`, `interrupts.rs`, `keyboard.rs`) | IDT, PIC, IF, spin locks | the initialisation order, IRQs | IRQs before the PIC is remapped; handlers spinning on a lock the interrupted code holds | it stops in no place but the known ones; the prompt comes before the first key |
| Shell, console and mouse (`shell.rs`, `console.rs`, `mouse.rs`) | line, working directory; cursor and cells; packet phase, draw mode | characters, `cd`, packets | the line and its echo are kept apart; the directory is removed under the shell; lost bytes | Enter runs what is on the screen; the working directory exists; resynchronisation |
| Network (`network.rs`, `neurons.rs`, `speaker.rs`) | neurons, synapses, gates, evidence, beep countdown | tick, stimuli, learning, DSL | order of the passes in a tick, windows, hysteresis | evidence is about firings alone; gates do not flap, and no synapse is locked out |
| Network card (`nic.rs`, `pci.rs`) | transmit and receive rings | init, send, receive | two actors share each ring; the tail passes descriptors the device still owns | one owner per descriptor; the receive ring is a queue |
| Weights on disk (`ternary.rs`, `ata.rs`, `neurons.rs`) | a sector of named weights | save, load at boot | rounding and ranges; names, order and number of the synapses change in between | the saved weights come back, to the nearest step |
| Clock (`rtc.rs`) | CMOS registers, moved by the clock | now | registers change while they are read; four codings | what is returned is a time that was |
| Heap, PCI scan, host runner | a heap; nothing | allocate, scan | | |

Components interact by calls (the shell calls everything), by shared statics behind spin locks
(`PIPE_TABLE`, `PROCESS_TABLE`, `FRAME_ALLOCATOR`, `TYPED`, ...), by hardware state (CR3, RSP0, IF)
and through the disk (`close` of a dirty descriptor is `fs::write_file`, `runelf` is
`fs::read_file`).

## 2. The modules

| Module | Models | Role |
|---|---|---|
| `Processes` | `process.rs`, `usertest.rs`, `gdt.rs`, `loader.rs`, `memory.rs` (its lock) | processes, descriptors, pipe counts, machine context |
| `PipeLifetime` | the doc comment of `struct Pipe` | abstract: pipe ends as capabilities |
| `ProcessesProofs` | | theorems about `Processes` |
| `PipeBuffer` | `struct Pipe`, `pipe_create`, `pipe_read`, `pipe_write` | the ring buffer |
| `PipeQueue` | the doc comments of `pipe_read` and `pipe_write` | abstract: a bounded queue |
| `PipeBufferProofs` | | theorems about `PipeBuffer` |
| `FileSystem` | `fs.rs`, `ata.rs` (a sector write) | the disk and the calls on it |
| `FileTree` | what `fs.rs` promises its callers | abstract: a tree of files |
| `FileSystemProofs` | | theorems about `FileSystem` |
| `Scheduler` | `scheduler.rs` | the bank of potentials that selects a task |
| `Tasks` | `tasks.rs`, the timer and keyboard handlers, the end of `kernel_main` | stacks, spawn, kill, switching; extends `Scheduler` |
| `TasksProofs` | | theorems about `Tasks` |
| `OpenFiles` | `OpenFile`, `open_file`, `read_fd`, `write_fd`, `close_fd`, `dup_fd`, `fork`, `fs::read_file` and `write_file` as wholes | files behind descriptors |
| `OpenFilesProofs` | | theorems about `OpenFiles` |
| `AddressSpaces` | the building and copying of processes in `process.rs`, the allocator of `memory.rs`, `run_file`, `run_elf` | frames, page tables, contents |
| `ElfFile` | `elf.rs` | operators used by `AddressSpaces` |
| `AddressSpacesProofs` | | theorems about `AddressSpaces` |
| `Boot` | `kernel_main`, `run_preemption_demo`, the handlers | the boot with interrupts and locks |
| `SpikingNetwork` | `network.rs`, `neurons.rs`, `speaker.rs` | the network and its tone |
| `WeightsFile` | `ternary.rs`, `save_weights`, `load_weights`, `neurons::init` | weights across a reboot |
| `NicRings` | `nic.rs` and the card as it uses it | the two descriptor rings |
| `FrameQueue` | the doc comments of `recv_packet` | abstract: a queue of frames |
| `NicRingsProofs` | | theorems about `NicRings` |
| `MousePackets` | `mouse.rs` | packets, drawing mode |
| `ShellConsole` | `shell.rs` (line editor), `console.rs` | the line and its echo |
| `WorkingDir` | `cd`, `mkdir`, `rmdir` of `shell.rs`, path resolution of `fs.rs` | the working directory |
| `RealTimeClock` | `rtc.rs` | reading a clock that moves |
| `PartsProofs` | | theorems about `Boot`, `SpikingNetwork`, `MousePackets`, `RealTimeClock`, `WorkingDir`, `ShellConsole` and `WeightsFile` |
| `MCParts` | | composes the last ten components for one run |
| `MC...` | | constants of the small instances |

### Processes

One syscall is one action, because the gate of `int 0x80` clears IF and nothing else runs until
`iretq`. The exception is `wait`, whose child runs in ring 3 between its two halves: `WaitEnter`
(`wait_for_child` up to `enter_ring3_now`) and `ChildEnd` (`exit` or a fault of the child, the
long jump, and the rest of `wait_for_child`). A user program is arbitrary: any syscall may come at
any time with any descriptor or pid. The programs embedded in the kernel and those of
`src/tools` are instances of it, and so are the self-tests at boot.

`fds[p][f]` is the slot `f` of the table of process `p`, `refs[i][e]` is `read_open` or
`write_open` of pipe `i`; a pipe slot is `None` exactly when both are 0 (`close_fd` makes it `None` then,
and `pipe_create` sets both to 1). `alive` is the set of ids that name a `Process`. The ids are the code's:
fixed ids for the processes built at boot, 3 for whatever `runfile` and `runelf` loaded last, 10
and up for `PROCESS_TABLE`. `pending` holds the children whose `pending_resume` is still `Some`.
`active`, `cr3`, `inChild` and `rsp0` are `ACTIVE_PROCESS`, CR3, `IN_CHILD_RESUME` and the
selected ring-0 stack; `frame` is whose trap frame lies at the fixed top of the main
ring-0 stack, which is what a `wait` in progress returns through. `allocHeld` says that
`FRAME_ALLOCATOR` is locked by the shell command that started the excursion. `orphan` is a history
variable for one property.

Counts are saturating (`SatAdd`, `SatSub`) with the maximum as the parameter `RefMax`. Calls that change nothing
modelled here (write, sbrk, exec, read, fdwrite, refused calls, a timer tick in ring 3) are the action
`NoEffect`, which still pushes a trap frame. A kernel-mode page fault (`hlt_loop`) and a spin with
interrupts off are states without successor, so the configurations of this module do not check for deadlock.

### PipeBuffer

The ring of one pipe with the operations of its two ends, with any requests. Which descriptors reach it is
`Processes`; since syscalls are atomic and `refs` never frees a pipe in use, the two compose by
using a `PipeBuffer` for every live pipe. `Create` is the initialisation by `pipe_create` of a slot
that was freed.

### FileSystem

Nothing is cached in memory: a call reads tables, decides, then writes sectors one after the other.
So a call (`MakeDir`, `WriteFile`, `DeleteFile`, `RemoveDir`) is an action that computes the list of
its sector writes from the disk, and each write is an action `WriteSector`. `Interrupted` cuts the list
short: a write that reports an error (the call returns it at once) and a loss of power have the same
effect on the disk. A sector is written as a whole or not at all: `write_sector` sees the error bit before it
transfers data. Calls do not overlap: they run at boot before interrupts are enabled, in the
keyboard handler, and in system calls. A call refused before its first write changes nothing and
is no step. Reads that fail are the parameter `ReadErrors`: the sectors in `bad` are not readable while the path
is resolved, those in `badScan` while the allocator scans.

Names are sequences, cut to `NAME_LEN` by `NameBytes`. Contents are sequences of bytes, split into
sectors by `Block` and put together by `Contents` as `read_file` does. Magic number and byte layout
of a table are abstracted to a record that says which kind of sector it is. `MAX_DEPTH` is `MaxDepth`;
`PathDepth` bounds the directories in the paths that are actually used, so that its largest
value, `MaxDepth`, is what the code accepts.

### Tasks and Scheduler

`Scheduler` is the slot bank with an operator for each operation. The code counts potentials in `f32`
with the threshold at 1.0; the model counts whole sevenths of it, rounded down. A tick adds the bias, 1.05
sevenths, and 0.05 times the bond-weighted potentials of the neighbours; as the two bonds of a slot add up to 2.0
at most, that is at most a tenth of the loudest potential. Rounded, a slot gains 1 or 2, or more when another is
at 9 or above (`Gains`), and any of these is possible in any tick. A potential reaches 1.0 exactly when
its rounded value reaches 7, and the highest one stays among the highest after rounding. So every run of
the code is a run of the model, for any sign of the coupling `g`, and what holds of the model holds of the code.

`Tasks` adds the stacks. `stacks` is the set of ids whose entry in `TASKS` is `Some`, `current` is
`CURRENT` with `Kernel` for `usize::MAX`, `phase` stands for `DEMO_ACTIVE`, `BACKGROUND` and how far
`kernel_main` has come. Handlers run with interrupts off, so a tick is one action: `IdleTick` when neither
mode is on, `EndDemo` when the budget is used up, `SchedulingTick` otherwise; all of them reap first.
Shell commands run in the keyboard handler, on the stack of the context it interrupted: `Spawn` and
`Kill` are one action each. A command that enters ring 3 turns interrupts on again in the middle of that
handler: from `RunProgram` to `ProgramEnds` the context is the `host` of an unfinished handler, ticks
may switch away from it, and no key arrives, because the handler has not acknowledged its interrupt.

`run_preemption_demo` is one step here; the interrupts that fall between its stores are in `Boot`.
Counters of the worker loops, `fire_count` and the registers of a context are left out.

### OpenFiles

The disk maps paths to contents and is read and written as a whole, since a system call is one step; what an
error may leave of it (`AfterWrite`) is what `FileSystem` shows. `open` takes a copy, whatever became of the read;
`close` writes a dirty copy back and frees the descriptor whether or not that worked; `dup`, `dup2` and `fork` copy
buffer, position and dirty flag; a process that is dropped loses its unsaved data. `truth` is what the file would
hold if its descriptors shared it, and `spoilt` says that one of the causes `OpenFilesAgree` lists has occurred.
Which descriptor names a pipe end is `Processes`.

### AddressSpaces and ElfFile

Frames are handed out by a counter and never come back. A build is a record (`next`, `mem`, `table`, `ok`), and
`Put` adds a page to it: a frame, the page tables `map_to` needs, the contents. A build that fails costs its frames and changes
nothing else. Memory is counted in words; the addresses above the user's belong to the kernel or are not canonical. `FromElf` follows
`create_process_from_elf`, and `Accepted` its checks after those of `parse` (`Parses`). `ValidElf` is the other side: what the
doc comments ask of a file, and `ElfExpected` where each word should be. A file with a segment that is not canonical
makes `VirtAddr::new` panic (`process.rs:1757`) unless an earlier check refuses it. `fork` copies the code page, stack and heap and not
the other pages of an ELF file; that is never seen because a program of `runelf` cannot fork (finding 2). `exec` keeps those
pages.

### Boot

`Order` is the list of steps of `kernel_main`: what each needs, what it sets up, and whether it may fail with the boot going on.
`run_preemption_demo` is one step per lock it takes. `Held` are the locks that may be held in a step with interrupts on;
a handler that wants one of them never returns. `firstRsp`, `slotRsp` and `kernelRsp` say what a saved stack pointer would resume.
Interrupts arrive whenever `InterruptsOn`; before `init_pics` they arrive at the vectors of exceptions.

### SpikingNetwork

A call holds `NET` from start to end, so it is one step, and the whole of `tick` is `Tick`: firing, evidence, propagation,
gates, learning and tone, each computed from the state the code reads there. Numbers are scaled: the rounding of a weight change is a
choice between nothing and one unit, evidence is rounded so that it has the ends of the real one as limits.
Firing times are kept by their order, windows by their age, and the tick counter modulo the period of the gates. `doubts` is
a history that only the properties read. That a dormant synapse neither learns nor sends is one guard each in the code and in
`LearnedWeights` and `Propagated`; no property repeats them. The gap of `train` is taken to be one that `tick_count`, a u64, can be moved
by; a larger one overflows it (`network.rs:350`).

### WeightsFile

A weight is a whole number of units, several to a step of the code, so that the ties and the ends of the range occur.
The codec is `Digits`, `PackedBytes` and their inverses, written with recursive functions of the position of a digit;
`CodecRoundsToNearest` says what they do together, and `MCParts` has it as an ASSUME, so that TLC evaluates it for every weight of the instance. `SaveWeights` keeps as many entries as fit; `LoadAtBoot` applies each by the names of its neurons, to the
first synapse that joins them, in the order of the file.

### NicRings

The card moves its heads at any moment; between the two halves of a call of the driver (`QueueFrame` and the end of polling,
`CopyFrame` and `Recycle`) it may do anything. `Recycle` clears the descriptor's status and moves RDT in one step: the slot is not the
card's before RDT has moved. Slots belong to the card from head to tail. The driver never looks whether the
transmit ring has room: `overrun` marks the send that makes TDT equal to TDH, after which queued frames may be overwritten or stay unsent, and
`QueuedFramesSurvive` claims nothing.

### MousePackets, ShellConsole, WorkingDir, RealTimeClock

`MousePackets`: the mouse sends three bytes per packet, any of which may be lost; `calm` counts the bytes since the last loss or
misleading bit. `ShellConsole`: the screen is a grid of cells that remember whether a prompt, a key or an output wrote them; `line` is
the length of `LINE`; `excuse` names what may make the echo differ. `WorkingDir`: paths are sequences of components with the
empty ones `split` makes, and names are cut by `name_bytes`. `RealTimeClock`: the flag goes up, then the registers move one by one; `now` makes one port access per step.

## 3. The runs

| Run | Instance | Shows |
|---|---|---|
| `processes_safety` | a boot-time process, a loaded one, one child slot, 2 descriptors, 1 pipe | `TypeOK`, `RefsCoverHolders`, `ContextAgrees`, `WaitFrameIntact`, `OthersFdsUntouched`, `ImplementsPipeLifetime` (1.6 million states) |
| `processes_children` | a loaded process, two child slots | `TableNeverRan`, `ParentsOutliveChildren` (2.1 million states) |
| `pipe_buffer` | 3 cells, 2 byte values, requests of 0 to 4 bytes | `TypeOK`, `PositionsAgree`, `ImplementsQueue` |
| `fs_safety` | tables of 2 entries, a pool of 3 sectors of 2 bytes, files of 0 to 2 sectors, paths of 1 or 2 names | `TypeOK`, `SectorsBelongToOne`, `ImplementsTree` (183 thousand states) |
| `pipe_leak`, `fork_spin`, `orphan_reaper` | as `processes_safety` | findings 1 to 3 |
| `tasks` | 3 slots, 2 tasks at boot, a demo of 9 ticks | `TypeOK`, `StacksAreOwned`, `RunningStackKept`, `FewZombies`, `BootCompletes`, `NoStarvation`, `ZombiesAreReaped` (38 thousand states) |
| `shell_stuck` | as `tasks` | finding 6 |
| `fs_depth` | as `fs_safety`, 4 sectors, `MaxDepth` = `PathDepth` = 1 | finding 4 |
| `fs_read_error` | as `fs_safety`, 4 sectors, reads may fail | finding 5 |
| `parts` | the ten components above, one at a time (see below) | 13 invariants and 6 temporal properties (254 thousand states) |

`parts` is a sum: the variable `part`, chosen at the start, says which component moves, and the others stay as they begin. They
share no variable and the code lets them meet only at calls that are steps of one of them, so the run explores
the state graph of each of the ten, and a property of one is checked over all its behaviours.

| Component of `parts` | Instance | Shows |
|---|---|---|
| `NicRings` | 3 descriptors, 4 frames | `RxSlotsHaveOneOwner`, `QueuedFramesSurvive`, `ImplementsFrameQueue` |
| `SpikingNetwork` | a key, the motor and one more neuron, 2 synapses, one command besides stimuli, a window of 1 tick, gates every 2 | `EvidenceMatchesFirings`, `GatesDoNotFlap`, `NoLockout`, `SpikeToneIsTimed` |
| `OpenFiles` | a file of 0 to 2 bytes, 2 descriptors, 2 writes | `OpenFilesAgree` |
| `MousePackets` | 3 packets of 4 kinds, 2 lost bytes | `DecodesWhatWasSent`, `PenFollowsMouse` |
| `ShellConsole` | 3 rows of 3 cells, lines of up to 4, two prompts | `EchoIsTheLine` |
| `WorkingDir` | 3 spellings of 2 names, 2 levels, paths with empty components | `WorkingDirStays` |
| `WeightsFile` | 3 trits, a file of 3 entries, 4 synapses, of which several may join the same pair | `WeightsComeBack` |
| `RealTimeClock` | 2 seconds to the hour, 5 hours, 5 updates during a call, 4 modes | `NowIsNeverTorn` |
| `Boot` | 2 tasks, a demo of 5 ticks, 2 `hlt`s per wait, 2 keys | `BootStopsOnlyWhere`, `PromptComesFirst` |
| `AddressSpaces` | pages of 2 words, 24 frames, 2 images, 35 ELF files, 1 store | `MemoryIsPrivate`, `LoadsExactlyWhatIsValid` |

`PartsTypeOK` joins their type invariants.

Why the bounds are enough for what is claimed of them. In `Processes` the interesting cases are: a
pipe end held twice in one table and in two tables, a full descriptor table, a full child table, a
replaced process with a live child, a count at its maximum, a child that calls everything its
parent can. Two descriptors, one pipe, one child slot and `RefMax` = 6, the number of
descriptors there are, reach each of them. Children that are siblings need the second slot,
which is `processes_children`. For these two modules the theorems of section 5 remove the bounds. In
`FileSystem`, a pool of 3 sectors holds a directory with a file in it and a second file, fills up,
fragments, and lets a rewrite move onto part of the old range; tables of two entries fill up; names
of two characters are cut to one. A path of two names is enough to resolve, allocate under and remove a
subdirectory, and `mkdir` in a subdirectory makes tables one level deeper still.

Every property of a passing run has a *mutant*: a definition of the module marked `Mutant` that
breaks the modelled code the way a plausible slip would (a count not raised, a stack not switched, an entry
written before its data); with it in place of the definition it follows, TLC finds the property violated.

In `Tasks`, three slots let one be killed and awaiting reaping, one running and one spawned or
revived; a slot needs at most 7 ticks to be ready, so a demo of 9 ticks contains switches and ends with any of them running.

In `parts`: three descriptors fill up and wrap round in both rings, and the transmit ring is overrun. With one
command the network gains a second synapse or is trained or beeps, and a window of one tick opens, is answered and expires. Two descriptors hold
two copies of a file, or one in the parent and one in the child, and a write may extend, overlay or exceed it. Two lost bytes put the
driver at each of the wrong phases and three packets bring it back or not. Lines of 4 wrap on rows of 3 cells, and the screen fills up. Two levels and a
name longer than the disk keeps reach every way of spelling the working directory. A file of 3 entries leaves some of 4 synapses out.
Five updates are more than a call waits through. The demo of 5 ticks lets strays reach `FirstWinner` and the end. 24 frames are enough for
a process made at boot and one more, and run out in the middle of later ones; the ELF files contain some that
fail each check of the loader, some at the limits, and segments that overlap each other, the stack or the heap.

Fairness is assumed in `Tasks` and `SpikingNetwork`. In the latter it is weak fairness of `Tick`: the PIT keeps interrupting
and no stimulus, command or neuron can prevent the next one. In `Tasks`, the timer ticks for ever: weak fairness of `Tick`, which the PIT provides and
nothing masks for good. `kernel_main` goes on if it has the CPU again and again: strong fairness of `StartDemo`
and `EnableBackground`, because a user may start one program after the other, each of which suspends it; between
two of them it does execute. A program that is given the CPU again and again ends: strong fairness of
`ProgramEnds`, which is an assumption about programs and makes finding 6 the kernel's fault and not theirs. No command is
ever assumed to be typed. With three slots there is more CPU time than ready tasks; `NoStarvation` is about the bank's
bookkeeping (potential kept, bias paid, dead slots skipped) under any kills and spawns, and not about eight busy slots,
which TLC cannot enumerate.

`FileSystem` and `Tasks` are checked for deadlock: the disk can always be written or a call made, and the timer can always tick.
`parts` is not: its counters of frames, bytes, updates and weights are bounded and a component at its bound stops.

### Findings

1. `pipe_leak`: a pipe slot stays allocated although every descriptor that named it was closed. `dup` raises
   the count before it finds the descriptor table full (`process.rs:1083`), which is the trace TLC shows; `fork` does with
   a full `PROCESS_TABLE`. The comment of `struct Pipe` says counting is there to avoid this leak. (`wait`, `kill` and the
   replacement of `LOADED_PROCESS` drop descriptors without closing them, and their counts stay too; the comment,
   which speaks of descriptors that were closed, does not promise otherwise.)
2. `fork_spin`: a program started by `runelf` that forks never returns from the call, because
   `run_elf` holds `FRAME_ALLOCATOR` across the excursion (`loader.rs:461`).
3. `orphan_reaper`: every loaded program has id 3, so the next program can `wait` for (and run) the
   children of the one it replaced; the comment of `parent_pid` says only the real parent can.
4. `fs_depth`: a path may go through `MAX_DEPTH` directories but the allocator scans the tables of
   `MAX_DEPTH - 1` (and the root): what is stored in the deepest one is allocated again.
5. `fs_read_error`: a table that cannot be read counts as empty, so its sectors are allocated again.
6. `shell_stuck`: a program started from the shell belongs to the context the keyboard interrupted. If
   that is a task the user has just killed, or `kernel_main` within the first ticks of background mode, the next
   switch (`tasks.rs:378`) leaves it for good, and with it the keyboard handler: no key is seen again. The comment at
   `main.rs:657` says the shell keeps responding forever.

### What the passing properties of `parts` name as exceptions

Some properties hold with exceptions that are behaviours of the code a reader should know:

* `BootStopsOnlyWhere`: an interrupt during the self-test of signals, which enters ring 3 with IF set before the PIC is remapped,
  arrives at an exception's vector (`main.rs:498`); a key press while `kernel_main` holds the lock on `TYPED`, `TASKS`, `SCHED` or the heap spins in
  the handler (`tasks.rs:185`, `main.rs:634`); enough ticks between the stores of `run_preemption_demo` and its switch lose `kernel_main` (`tasks.rs:192`).
* `OpenFilesAgree`: two descriptors on one file, with a write or unsaved data on one of them, lose data; so do a failing read on open, a
  failing write on close, and the end of a process.
* `QueuedFramesSurvive`: after a transmit ring is overrun, a frame reported as queued may never be sent.
* `WorkingDirStays`: `rmdir` recognises the working directory by its string, so another spelling of it (`//a`, or a name that
  agrees in its first 16 bytes) removes it.
* `EchoIsTheLine`: backspace across a wrapped row leaves the character on the screen; a right click prints a prompt in the middle of a line that is kept.
* `WeightsComeBack`: of several saved synapses that join the same pair, the last one's weight comes back to the first.
* `NowIsNeverTorn`: in 12-hour mode midnight is reported as 12, and in BCD as well the afternoon as the morning.
* `LoadsExactlyWhatIsValid`: an address that is not canonical panics instead of being refused.

## 4. The abstract specifications

`PipeLifetime` knows open pipes and which end each handle names. An end appears
at a handle only with a new pipe or as a copy of an end some handle names, and a pipe is open as
long as a handle names one of its ends. It says nothing of counts; that the counts of the code implement it
is `ImplementsPipeLifetime`, with `OpenPipes` and `HeldEnds` as the mapping.

`PipeQueue` is a queue of bytes with a capacity; `ImplementsQueue` maps it to the unread cells of the ring.

`FileTree` is a set of nodes with paths. A call is started, then finishes with its whole effect or
is given up with none; `Tear` is the one allowance, for the contents of the file a write is
replacing. `ImplementsTree` maps the tree to what path resolution and `read_file` show on the disk. It fixes the
moment a call takes effect (its last sector write), that interrupted calls leave no trace, and that calls
touch only the node they name.

`FrameQueue` is a queue of frames that loses one only when it is full and gives a bad one back as an error. `ImplementsFrameQueue` maps it to the
slots from `rx_next` to RDH, with the card filling and the driver emptying them at any moment.

## 5. What is proved

All theorems hold for every value of the constants that satisfies the ASSUMEs of the module: for
`Processes`, finite disjoint sets of ids, at least one descriptor and pipe, and `RefMax` no smaller than the
number of descriptors of all processes together (it is 2^32 - 1 in the code); for `Tasks`, at least one slot and one tick, and no more
tasks at boot than slots; for `NicRings`, at least two descriptors in a ring and any number of frames; for `FileSystem`,
tables of at least one entry, files no larger than the pool of sectors, names that are sequences and data that are bytes; for `OpenFiles`, any bounds
whatever; for `AddressSpaces`, a code page, a stack page and heap pages that differ, and images and ELF files
of any contents; for `Boot`, a scheduler that selects no task before some number of ticks within the demo's budget; for `SpikingNetwork`,
finitely many keys, gate thresholds in the order the code has them and a band between them that no single hit or miss crosses; for the rest, what their types ask.
`SectorsAreSeparate` and `FilesAreATree` have two hypotheses more, and the runs `fs_depth` and `fs_read_error` show that the first of
them needs both: no read fails, and no path goes through as many directories as the allocator scans levels. The tree rests on the sectors being apart.

| Theorem | Statement |
|---|---|
| `TypeCorrect` | `Spec => []TypeOK` |
| `ContextCorrect` | `ContextAgrees`, `WaitFrameIntact`, `TableNeverRan`, `ParentsOutliveChildren` |
| `WaitFrameIsKept`, `TableIsFresh`, `ParentsAreThere` | the last three, each by itself |
| `RefsAreSound` | `Spec => []RefsCoverHolders` |
| `RefinesPipeLifetime` | `Spec => ImplementsPipeLifetime` |
| `OthersAreUntouched` | `Spec => OthersFdsUntouched` |
| `TasksTypeCorrect` | `Spec => []TypeOK` of `Tasks` |
| `StacksAreSafe` | `StacksAreOwned`, `RunningStackKept`, `FewZombies` |
| `RunningStackIsKept`, `ZombiesAreFew` | the last two, each by itself |
| `BufferTypeCorrect` | `Spec => []TypeOK` of the ring |
| `RingIsConsistent` | `TypeOK` and `PositionsAgree` of the ring |
| `RefinesQueue` | `Spec => ImplementsQueue` |
| `NicTypeCorrect` | `NicSpec => []NicTypeOK` |
| `RxRingIsShared` | `NicSpec => []RxSlotsHaveOneOwner` |
| `QueuedAreKept` | `NicSpec => []QueuedFramesSurvive` |
| `RefinesFrameQueue` | `NicSpec => ImplementsFrameQueue` |
| `DiskIsWellFormed` | `Spec => []TypeOK` of `FileSystem` |
| `SectorsAreSeparate` | `Spec => []SectorsBelongToOne`, if no read fails and `PathDepth < MaxDepth` |
| `FilesAreATree` | `Spec => ImplementsTree` of `FileSystem`, under the same two conditions |
| `PositionsStayInBuffers` | `OpenSpec => []OpenTypeOK` |
| `CopiesAgree` | `OpenSpec => []OpenFilesAgree` |
| `MemoryStaysPrivate` | `SpacesSpec => []MemoryIsPrivate` |
| `ValidFilesLoad` | `SpacesSpec => []LoadsExactlyWhatIsValid` |
| `BootGoesOn`, `PromptIsFirst` | `BootSpec => [](BootStopsOnlyWhere /\ PromptComesFirst)`, and the second by itself |
| `SpikeTonesEnd` | `NetSpec => []SpikeToneIsTimed` |
| `EvidenceIsEarned` | `NetSpec => EvidenceMatchesFirings` |
| `GatesAreSteady` | `NetSpec => GatesDoNotFlap` |
| `PenIsWithTheMouse` | `MouseSpec => []PenFollowsMouse` |
| `MouseResyncs` | `MouseSpec => DecodesWhatWasSent` |
| `ClockIsNeverTorn` | `ClockSpec => [](NowIsNeverTorn /\ (reader = "done" /\ ~is12h => returned \in shown))` |
| `WorkingDirIsThere` | `WdSpec => WorkingDirStays` |
| `TheEchoIsTrue` | `ShellSpec => []EchoIsTheLine` |
| `CodecIsExact` | `CodecRoundsToNearest`, for every number of trits, trits per byte and fineness of weights |
| `WeightsAreFoundAgain` | `WeightsSpec => []WeightsComeBack` |

The argument for `Processes`, in the order of `ProcessesProofs`:

* `TypeOK` is inductive by itself, given that the least element of a non-empty set of numbers is
  one of its members (`LowestIsMember`, from well-foundedness) and that saturating arithmetic stays in range.
* `ContextInv` is `ContextAgrees`, `WaitFrameIntact`, `TableNeverRan`, `ParentsOutliveChildren` and that
  boot-time processes stay alive. The parts need each other: `wait` restores its caller only because the caller is
  still alive, which holds because a running child can neither wait, nor fork, nor be replaced, and
  because only never-run children are killed. So they are one invariant, with a lemma for each action that
  touches the context and one for all that do not.
* `RefsCoverHolders` needs the invariants above (new entries go to dead slots, which are empty) and
  facts about how the set of holders of an end changes: one descriptor more or less, or a whole table copied by
  fork. The step that saturates is where `RefMax >= Cardinality(Pids \X Fds)` is used.
* Refinement: each action copies, drops or creates handles of `PipeLifetime`; that a slot freed by `Release` has
  no holder left is `RefsCoverHolders`.

For `PipeBuffer` the invariant is `TypeOK` and `PositionsAgree`; what % does is reduced once to "a sum of two
positions wraps at most once" (`WrapOnce`), and `CellOfCell` and `OffsetOfCell` say how positions and
distances cancel. `WriteIsPut` and `ReadIsTake` then compare sequences cell by cell.

For `Tasks` the invariant `TasksInv` adds to the three properties that no stack lies beyond the last slot (a slot that is
appended is fresh), that nothing is killed before the demo, and that the demo stays below its budget. The three need
each other: a task that is switched to has a stack because live tasks have one, a reaped one is not in use because
reaping spares `current`, and a slot that is reused is no zombie because zombies keep their stacks. `ReapInv` is the common part
of the three kinds of tick; `StepIsSound` says the slot that fires is alive.

For `NicRings` there are three invariants, in the order of `NicRingsProofs`:

* `TypeInv` adds to the types that calls are made only of a card that is ready, and that the frame a send polls for has a
  number: what a confirmation adds to `confirmedTx` is read out of the slot.
* `RxInv` replaces the sets of `RxSlotsHaveOneOwner` by distances: RDT is the slot before `rx_next`, and the slots with a DD bit are
  those nearer to `rx_next` than RDH. `SlotsGrow` (the card or the driver moves the far end) and `SlotsShrink` (it moves the near one) say
  what a step does to such a range; `SlotsAreShared` says that from `rx_next` to RDH and from RDH to RDT there are `NumDesc - 1` slots
  and none twice. Before the ring is set up nothing is in it (`Unused`): a card that is not enabled receives nothing.
* `TxInv` holds as long as the ring was not overrun: what the card has read is still what the slot holds, and a DD bit means that the
  frame in the slot was sent. It is the step `QueueFrame` that ends it, when it writes to a slot the card has not consumed.
* Refinement: `QueueGrows` and `QueueShrinks` compare the queue before and after a step cell by cell, with `SlotAtMoves` for the shift by
  one; `ReceiveIsArrival` and `RecycleIsTake` are the two kinds of step that are not stutters. That the card cannot transmit (and loop back
  a frame) before the receive ring is in use comes from `TxInv`.

For `FileSystem` there are two invariants, in the order of `FileSystemProofs`:

* `TypeInv` says of every sector, and of every write still to come, that it is a table of good entries or data. What a call
  leaves to be written is stated once for each call (`MakeDirLeaves`, `WriteFileLeaves`, `DeletionLeaves`): failing
  reads included, it ends in one table with one entry changed.
* `TreeInv` says there is a set `D` of tables with a level for each: the root at 0, what an entry of a table of `D` names in
  `D` one level below, each table but the root named, nothing used below the deepest level, and no two entries with a sector in
  common; that `pth` names each of them as paths do, each differently, with no name twice in a table (`Named`); and, while a call is
  under way, which entry its last write puts where, and what the request has to do with it (`UnderWay`, with `Target` and `Asked`).
  `View` is what the disk shows sector by sector. A call puts one
  entry into one table of `D` (`Change`), after writes that `D` does not see, and `FileChangeKeepsTree`,
  `NewDirKeepsTree` and `GoneDirKeepsTree` say what that does to `D`. That the span an allocation returns meets nobody's is
  `FreeSpanFits`: it rests on `TablesByLevel`, that the allocator's scan by levels reaches all of `D`, which is what fails at
  `MaxDepth`, and on every read being what the disk holds. That a write replaces its own file is
  `OccupiedByOthers`: the old span is left out of what is occupied, and only that.
* A directory that is being made has its table written before the entry that names it; in between it is not in `D`, and a loss of
  power leaves an allocation that never was. That is why `D` is not computed from the disk but has to be shown to exist.
* Path resolution and the scan are recursive functions. `StepwiseFunction` gives their equations, and `SetInduction`, an induction
  over an interval with the set of exceptions as its parameter, follows from the well-foundedness of finite subsets.
* Refinement: `TreeLaw` says that the tree of the refinement mapping, which is defined by walking down from the root, is what any such `D`
  with its `pth` shows, one node for each entry in use (`Shown`); `ResolvedIsNamed` and `FoundIsRows` connect the two. From there the
  directories need not be walked again. `ShownAfter` says that one entry changed is one node changed, if the contents of all
  other files are the same on the disk afterwards, and `OthersKeepContents` that they are, the sector written being nobody else's. So the last write of a
  call is `Finish` (`LastWriteFinishes`; that the new file reads back as the data written is `ContentsAreData`, division by the sector
  size included), and one before it is `Tear` if there is a file to overwrite and otherwise shows nothing (`EarlierWriteTears`). That a
  call in `FileTree` may be started is `CallIsAllowed`, for as long as it is under way.

For `OpenFiles` the invariant is `OpenFilesAgree` with types, that positions lie in their buffers, and that a child that is not
there has no open descriptors (its table is overwritten by the next fork). `AgreementByCopies` replaces the sets of handles by
statements about descriptors, and `SettleAgrees` says what a call has to show of its new tables and its new disk; a call that
does not (a write with a copy open, say) has to be one of the listed causes.

For `AddressSpaces` the argument has three parts, in the order of `AddressSpacesProofs`:

* Builds. `Apart` says of a build that its table is one-to-one into frames handed out since it began, and that all frames handed
  out before hold what they held. Every `Put` keeps it, succeed or fail, and `PutAllKeeps` and `PutSegmentsKeeps` carry it through a
  list of pages and a list of segments, with what the pages then contain. `ImageIsRight` and `ElfIsRight` compare this with what the file
  says: for an ELF file, that each page belongs to one segment (a page that is mapped twice fails the load) and that dividing an
  address finds its page and place (`PageOfAddress`, `CoveredPage`). `ForkIsRight` does the same for a child.
* Processes. `SpaceInv` is `MemoryIsPrivate`, that no two pages of processes have a frame in common and all lie among the
  frames handed out (`Mapped`), and that what runs is there (`Runs`). A new table is apart from the old ones because it is `Apart`, and
  a store or `exec` changes one frame, which is nobody else's (`WrittenKeeps`). Frames never come back, so a page table
  that is dropped leaves nothing to be reused.
* Loads. `Counts` says of a build that has put `t` pages, of which `U` is the set, that it has succeeded exactly if the pages all differ and
  there were frames for them and for the tables `map_to` makes (`Cost`); every page put keeps that (`PutThen`), so a whole file does
  (`PutSegmentsThen`, `LoadSucceeds`). `ShapeIs` turns the checks on pages into bounds on addresses, and `ValidIsAccepted` puts both together: the checks and
  the refusals of `map_to` are what `ValidElf` asks.

`PartsProofs` has the smaller components one after the other:

* `Boot`: `BootReady` says which steps have been done when `at` has passed them, and `BootDemo` where the demo stands: until
  `kernel_main`'s own switch has saved its context, every tick is a stray one, and a stack pointer that resumes the kernel was saved
  by one. `BootStepFacts` lists what a step needs and holds, so that each case that stops the boot is found at its step.
* `SpikingNetwork`: the tone is by itself (`SoundInv`); for evidence the invariant `SynapseInv` is that an open window is as
  old as the last firing of the synapse's first neuron. For the gates, `GateInv` bounds the evidence by the number of doubts, and `OneVerdict` says what
one hit or miss does to both; that none crosses the band (`BandAssumption`) is all it needs of the numbers. `SynapseInv` connects the counters of the code with the firings of the property.
* `MousePackets`: `FindsTheBoundary` bounds the calm bytes so far by how far driver and mouse are apart, and
  `HasWhatWasSent` says that once they are together, what is in `PACKET` is what was sent. `BytesCarryThePacket` is the arithmetic of
  the nine-bit moves.
* `RealTimeClock`: the times shown during a call are an unbroken stretch (`Unbroken`), and `PassesSoFar` says, after each of the
  four register reads, which time must have been shown if the next read is to match. What is returned is that time in 24-hour modes; in
  12-hour modes its hour is what `ReportedHour` says, which the clock need not have shown. A torn pair in which both passes are
  torn the same way would need the second to come round again, and then the whole hour between has been shown.
* `WorkingDir`: the tree is closed under parents, so that `cd ..` cannot leave it (`FrontStored`), and rmdir removes CWD only
  under another spelling because it compares the spelled paths.
* `ShellConsole`: the invariant is the property with the types. Cells are numbered in reading order (`ReadingOrder`, `NumberedCells`), so
  that writing a character moves the cursor one number on unless the screen is cleared, which is an excuse (`GlyphWritten`). `RunOfGlyphs`
  carries that through a string, and `PromptShown` through the lines of a prompt; both are about the recursive functions `WriteStr` and `TextLines`.
* `WeightsFile`: `DigitsReadBack` says that the digits of the number that digits make are those digits, by induction on how many there are;
  `UnpackedIsPacked` uses it within each byte, filled up or not, and `StepComesBack` across the trits. `RoundedIsNearest` is about the rounding alone.
  `WeightsInv` says that the sector is the code of what was saved; a boot goes through its entries (`OneMoreEntry`), and what a synapse has
  after the first `n` of them is the weight of the last of those that name its pair. Booting twice changes nothing since the decoded weight of a step is its own nearest step.

Model-checked only: the liveness properties (`BootCompletes`, `NoStarvation`, `ZombiesAreReaped`, `NoLockout`), which need fairness and
ENABLED and are out of the prover's reach; the types of the parts together; the findings, and that mutants are caught. What a recursive definition computes for
every input is not provable from an induction theorem that takes an operator as its parameter; where a proof needs it,
as in `FileSystemProofs`, `AddressSpacesProofs` and `PartsProofs`, it is derived for a set, as said above.

## 6. What is not modelled

The kernel's heap (a fixed range handed to `linked_list_allocator`; that an allocation takes its lock is in `Boot`), the PCI scan (one
read-only pass at boot), the host runner (it starts QEMU and keeps no state of the kernel), the console's pixels and shapes, the
decoding of scan codes (the `pc_keyboard` crate's), the walk of page tables (the `x86_64` crate's; `AddressSpaces` counts the frames it takes). Of
`Processes`: `sbrk`, which moves one counter within a heap that is mapped in advance. The user programs of `src/tools` and those embedded in the kernel are instances of
the arbitrary programs of the models. Of `Tasks`: the registers on
a stack. Of the shell: the parsing of arguments and what commands print (in `ShellConsole`, the text after a drawing command too). Floating-point rounding, in the network, the weights and
the scheduler, is either bracketed by choices or left out, as the sections above say. Of the
hardware: a sector that is half written by a power loss, reordering in the drive (each write is followed by a
flush), a disk damaged from outside; in `OpenFiles`, which sectors a failed `write_file` leaves (`FileSystem` has them). Names with empty components and other malformed paths are refused
before anything is written.

## 7. Plan

Modules stay as they are written now: parameters as CONSTANTS with named assumptions, one action per operation, no
RECURSIVE in what is proved about. What is left is the composition of `OpenFiles` with `FileTree`, so that the effect of a
`close` cut short by a loss of power is that of the sector writes and not of `AfterWrite`.
