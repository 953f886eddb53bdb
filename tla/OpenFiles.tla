----------------------------- MODULE OpenFiles -----------------------------
(***************************************************************************)
(* Open files: the system calls open, read, fdwrite, close, dup, dup2,     *)
(* fork, wait and kill as far as descriptors of files are concerned        *)
(* (process.rs), over a disk whose files are read and written as a whole   *)
(* (fs.rs, its sectors in module FileSystem).  A descriptor holds a copy   *)
(* of the file; the copy reaches the disk when the descriptor is closed.   *)
(* A system call runs with interrupts off and is one step.  The pipe ends  *)
(* a descriptor may also be are in module Processes.                       *)
(***************************************************************************)
EXTENDS Naturals, Sequences
LOCAL INSTANCE FiniteSets

CONSTANTS Paths,       \* the paths programs and the shell use
          FdSlots,     \* MAX_OPEN_FILES descriptors, numbered
          MaxBytes,    \* MAX_FILE_BYTES
          MaxChunk,    \* MAX_FD_IO_LEN: bytes of one fdwrite or read
          MaxWrites,   \* bound: contents that come into being
          MaxHeld      \* bound: descriptors open at once, those of all processes together

ASSUME OpenFilesAssumption ==
  FdSlots \subseteq Nat /\ {MaxBytes, MaxChunk, MaxWrites, MaxHeld} \subseteq Nat

VARIABLES
  disk,     \* the contents of the files that exist
  fds,      \* per process the open descriptors: path, buffer, pos and dirty of OpenFile
  hasChild, \* a forked child is in PROCESS_TABLE
  turn,  \* who runs: "shell", "resident" (a process of its own static), "child"
  writes,   \* how many contents have come into being: the bytes of write n are n
  truth,    \* history: what the file would hold if its descriptors shared it
  spoilt    \* history: a descriptor of the file no longer has to agree with truth

openVars == <<disk, fds, hasChild, turn, writes, truth, spoilt>>

Owners == {"resident", "child"}
Contents == UNION {[1..n -> 0..MaxWrites] : n \in 0..MaxBytes}
OpenFileType == [path : Paths, buffer : Contents, pos : 0..MaxBytes, dirty : BOOLEAN]
Nothing == [x \in {} |-> {}]   \* no file, no descriptor

OpenInit ==
  /\ disk = Nothing /\ truth = [p \in Paths |-> <<>>]
  /\ fds = [o \in Owners |-> Nothing]
  /\ hasChild = FALSE /\ turn = "shell" /\ writes = 0
  /\ spoilt = [p \in Paths |-> FALSE]

----------------------------------------------------------------------------
LeastOf(a, b) == IF a < b THEN a ELSE b
WithFd(f, x, value) == [y \in DOMAIN f \cup {x} |-> IF y = x THEN value ELSE f[y]]
Without(f, x) == [y \in DOMAIN f \ {x} |-> f[y]]

\* What read_file finds, an empty file if there is none.
AsRead(files, p) == IF p \in DOMAIN files THEN files[p] ELSE <<>>
Chunk(byte, n) == [i \in 1..n |-> byte]

\* bytes laid over content from position pos, which is extended as needed.
Overlaid(content, pos, bytes) ==
  [i \in 1..(IF Len(content) < pos + Len(bytes) THEN pos + Len(bytes) ELSE Len(content)) |->
     IF i \in pos + 1..pos + Len(bytes) THEN bytes[i - pos]
     ELSE IF i <= Len(content) THEN content[i] ELSE 0]

OpenOn(table, p) ==
  {h \in Owners \X FdSlots : h[2] \in DOMAIN table[h[1]] /\ table[h[1]][h[2]].path = p}
DirtyOn(table, p) == {h \in OpenOn(table, p) : table[h[1]][h[2]].dirty}

\* The history after a step with the given causes for disagreement and the given shared contents:
\* nothing is claimed of a spoilt file until its last descriptor is gone; then the disk counts.
Settle(causes, shared) ==
  /\ spoilt' = [p \in Paths |-> (spoilt[p] \/ p \in causes) /\ OpenOn(fds', p) # {}]
  /\ truth' = [p \in Paths |->
                 IF ~(spoilt[p] \/ p \in causes) THEN shared[p]
                 ELSE IF OpenOn(fds', p) = {} THEN AsRead(disk', p) ELSE <<>>]

Running(o) == turn = o
FreeFd(o, d) ==
  /\ d \in FdSlots \ DOMAIN fds[o]
  /\ \A e \in FdSlots \ DOMAIN fds[o] : d <= e
IsOpen(o, d) == d \in DOMAIN fds[o]
RoomToHold(n) ==
  Cardinality(DOMAIN fds["resident"]) + Cardinality(DOMAIN fds["child"]) + n <= MaxHeld
SetFd(o, d, f) == [fds EXCEPT ![o] = WithFd(@, d, f)]

----------------------------------------------------------------------------
(* The system calls; one that fails for want of a descriptor or of a slot  *)
(* changes nothing.                                                        *)

\* open: whatever goes wrong in read_file, the descriptor starts with an empty buffer.
OpenPath(o, p) ==
  /\ Running(o) /\ RoomToHold(1)
  /\ \E d \in FdSlots, readFails \in BOOLEAN :
       /\ FreeFd(o, d)
       /\ fds' = SetFd(o, d, [path |-> p, buffer |-> IF readFails THEN <<>> ELSE AsRead(disk, p),
                              pos |-> 0, dirty |-> FALSE])
       /\ UNCHANGED <<disk, hasChild, turn, writes>>
       /\ Settle(IF (readFails /\ p \in DOMAIN disk) \/ DirtyOn(fds, p) # {}
                 THEN {p} ELSE {}, truth)

\* read moves the position, at most to the end of the buffer.
ReadOpen(o, d) ==
  /\ Running(o) /\ IsOpen(o, d)
  /\ \E n \in 0..MaxChunk :
       fds' = [fds EXCEPT ![o][d].pos = LeastOf(@ + n, Len(fds[o][d].buffer))]
  /\ UNCHANGED <<disk, hasChild, turn, writes, truth, spoilt>>

\* Mutant: one byte more is taken than there is room for.
AcceptedBytesOfLen(f, n) == LeastOf(n, MaxBytes + 1 - f.pos)

\* How many of n bytes write_fd takes.
AcceptedBytes(f, n) == LeastOf(n, MaxBytes - f.pos)

\* Mutant: only a write that makes the buffer longer marks it.
WrittenIfLonger(f, bytes) ==
  [f EXCEPT !.buffer = Overlaid(@, f.pos, bytes), !.pos = @ + Len(bytes),
            !.dirty = @ \/ f.pos + Len(bytes) > Len(f.buffer)]

\* The descriptor after write_fd has taken the bytes.
Written(f, bytes) ==
  [f EXCEPT !.buffer = Overlaid(@, f.pos, bytes), !.pos = @ + Len(bytes), !.dirty = TRUE]

WriteOpen(o, d) ==
  /\ Running(o) /\ IsOpen(o, d) /\ writes < MaxWrites
  /\ writes' = writes + 1
  /\ \E n \in 0..MaxChunk :
       LET f == fds[o][d]
           bytes == Chunk(writes', AcceptedBytes(f, n))
       IN /\ fds' = SetFd(o, d, Written(f, bytes))
          /\ UNCHANGED <<disk, hasChild, turn>>
          /\ Settle(IF OpenOn(fds, f.path) # {<<o, d>>} THEN {f.path} ELSE {},
                    [truth EXCEPT ![f.path] = Overlaid(@, f.pos, bytes)])

\* What a call of write_file may leave of the disk: the file with its new contents, or, after an
\* error, the file as it was, possibly with the new contents laid over the old as far as the old
\* length goes.
AfterWrite(p, new) ==
  {WithFd(disk, p, new), disk} \cup
  (IF p \notin DOMAIN disk THEN {}
   ELSE {[disk EXCEPT ![p] = [i \in 1..Len(@) |-> IF i <= Len(new) THEN new[i] ELSE 0]]})

\* close_fd of descriptor d in the given table: the slot is free whatever becomes of the data.
ClosedFd(o, d, table) ==
  LET f == fds[o][d]
  IN /\ fds' = table
     /\ UNCHANGED <<hasChild, turn, writes>>
     /\ IF f.dirty
        THEN /\ disk' \in AfterWrite(f.path, f.buffer)
             /\ Settle(IF disk' # WithFd(disk, f.path, f.buffer) THEN {f.path} ELSE {}, truth)
        ELSE UNCHANGED disk /\ Settle({}, truth)

CloseOpen(o, d) ==
  /\ Running(o) /\ IsOpen(o, d)
  /\ ClosedFd(o, d, [fds EXCEPT ![o] = Without(@, d)])

\* dup copies the descriptor with its buffer, position and dirty flag.
DupOpen(o, d) ==
  /\ Running(o) /\ IsOpen(o, d) /\ RoomToHold(1)
  /\ \E e \in FdSlots : FreeFd(o, e) /\ fds' = SetFd(o, e, fds[o][d])
  /\ UNCHANGED <<disk, hasChild, turn, writes>>
  /\ Settle({}, truth)

\* dup2 first closes the target, with all that close does.
Dup2Open(o, d, e) ==
  /\ Running(o) /\ IsOpen(o, d) /\ d # e /\ (IsOpen(o, e) \/ RoomToHold(1))
  /\ LET table == SetFd(o, e, fds[o][d])
     IN IF IsOpen(o, e) THEN ClosedFd(o, e, table)
        ELSE fds' = table /\ UNCHANGED <<disk, hasChild, turn, writes>> /\ Settle({}, truth)

\* fork copies every descriptor; the child cannot fork.
ForkFds ==
  /\ Running("resident") /\ ~hasChild /\ RoomToHold(Cardinality(DOMAIN fds["resident"]))
  /\ hasChild' = TRUE /\ fds' = [fds EXCEPT !["child"] = fds["resident"]]
  /\ UNCHANGED <<disk, turn, writes>>
  /\ Settle({}, truth)

ReapChild ==
  /\ Running("resident") /\ hasChild
  /\ turn' = "child"
  /\ UNCHANGED <<disk, fds, hasChild, writes, truth, spoilt>>

\* The descriptors of a process that is dropped go without being closed.
Dropped(o) ==
  /\ fds' = [fds EXCEPT ![o] = Nothing]
  /\ UNCHANGED <<disk, writes>>
  /\ Settle({p \in Paths : \E h \in DirtyOn(fds, p) : h[1] = o}, truth)

\* The child exits or faults and is reaped, or its parent kills it before it ever ran.
ChildGone ==
  /\ turn \in Owners /\ hasChild
  /\ hasChild' = FALSE /\ turn' = "resident"
  /\ Dropped("child")

\* The shell runs a program; its descriptors stay when it ends, until it is replaced.
RunResident ==
  /\ Running("shell") /\ turn' = "resident"
  /\ UNCHANGED <<disk, fds, hasChild, writes, truth, spoilt>>

EndResident ==
  /\ Running("resident") /\ turn' = "shell"
  /\ UNCHANGED <<disk, fds, hasChild, writes, truth, spoilt>>

\* runfile or runelf puts a new process into LOADED_PROCESS; its child stays where it is.
ReplaceResident ==
  /\ Running("shell") /\ turn' = "resident"
  /\ UNCHANGED hasChild
  /\ Dropped("resident")

\* The shell's write and delete.
ShellChange(p) ==
  /\ Running("shell")
  /\ \/ /\ writes < MaxWrites /\ writes' = writes + 1
        /\ \E n \in 0..MaxBytes :
             disk' \in AfterWrite(p, Chunk(writes', n))
     \/ disk' = Without(disk, p) /\ UNCHANGED writes
  /\ UNCHANGED <<fds, hasChild, turn>>
  /\ Settle(IF OpenOn(fds, p) # {} THEN {p} ELSE {}, [truth EXCEPT ![p] = AsRead(disk', p)])

OpenNext ==
  \/ \E o \in Owners, p \in Paths : OpenPath(o, p)
  \/ \E o \in Owners, d \in FdSlots :
       ReadOpen(o, d) \/ WriteOpen(o, d) \/ CloseOpen(o, d) \/ DupOpen(o, d)
  \/ \E o \in Owners, d, e \in FdSlots : Dup2Open(o, d, e)
  \/ ForkFds \/ ReapChild \/ ChildGone \/ RunResident \/ EndResident \/ ReplaceResident
  \/ \E p \in Paths : ShellChange(p)

OpenSpec == OpenInit /\ [][OpenNext]_openVars

----------------------------------------------------------------------------
\* No position is past the end of its buffer: write_fd's resize and read_fd's clamp rely on it.
OpenTypeOK ==
  /\ DOMAIN disk \subseteq Paths /\ \A p \in DOMAIN disk : disk[p] \in Contents
  /\ \A o \in Owners : DOMAIN fds[o] \subseteq FdSlots
  /\ \A o \in Owners : \A d \in DOMAIN fds[o] :
       fds[o][d] \in OpenFileType /\ fds[o][d].pos <= Len(fds[o][d].buffer)
  /\ hasChild \in BOOLEAN /\ turn \in Owners \cup {"shell"}
  /\ turn = "child" => hasChild
  /\ writes \in 0..MaxWrites
  /\ truth \in [Paths -> Contents] /\ spoilt \in [Paths -> BOOLEAN]

\* The copies descriptors hold cannot be told from one shared file, and what was written survives
\* the closing of the last of them, unless one of the following has happened while the file was
\* open: a write with a second descriptor open on it (dup, dup2 and fork make one), an open while
\* a descriptor had unsaved data, a change by the shell, an open whose read failed, a close whose
\* write failed, the end of a process with unsaved data.  No other sequence of calls loses or
\* mixes up data.
OpenFilesAgree ==
  \A p \in Paths : ~spoilt[p] =>
    /\ \A h \in OpenOn(fds, p) : fds[h[1]][h[2]].buffer = truth[p]
    /\ DirtyOn(fds, p) = {} => AsRead(disk, p) = truth[p]
=============================================================================
