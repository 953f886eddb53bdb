-------------------------- MODULE ProcessesProofs --------------------------
(***************************************************************************)
(* Proofs about Processes, for every number of processes, descriptors and  *)
(* pipes: type correctness, the agreement of the machine context, and the  *)
(* soundness of the pipe reference counts.                                 *)
(***************************************************************************)
EXTENDS Processes, FiniteSetTheorems, WellFoundedInduction, TLAPS

-----------------------------------------------------------------------------
(* Lemmas about the operators of Processes.                                *)

\* A table scan that finds anything finds a member of what it scans.
LEMMA LowestIsMember ==
    ASSUME NEW S \in SUBSET Nat, S # {}
    PROVE  Lowest(S) \in S
<1> DEFINE Below(x) == 0 .. x - 1
           T == {Below(x) : x \in S}
<1>1. T \subseteq FiniteSubsetsOf(Nat)
  <2>1. ASSUME NEW x \in S PROVE Below(x) \subseteq Nat /\ IsFiniteSet(Below(x))
    BY FS_Interval
  <2>2. QED
    BY <2>1 DEF FiniteSubsetsOf
<1>2. PICK t \in T : \A u \in T : <<u, t>> \notin StrictSubsetOrdering(Nat)
  <2>1. T # {}
    OBVIOUS
  <2>2. IsWellFoundedOn(StrictSubsetOrdering(Nat), FiniteSubsetsOf(Nat))
    BY FS_StrictSubsetOrderingWellFounded
  <2>3. QED
    BY <1>1, <2>1, <2>2, WFMin
<1>3. PICK x \in S : t = Below(x)
  OBVIOUS
<1>4. ASSUME NEW y \in S PROVE x <= y
  <2>1. SUFFICES ASSUME y < x PROVE FALSE
    OBVIOUS
  <2>2. Below(y) \subseteq Below(x) /\ y \in Below(x) /\ y \notin Below(y)
    BY <2>1
  <2>3. <<Below(y), Below(x)>> \in StrictSubsetOrdering(Nat)
    BY <2>2 DEF StrictSubsetOrdering
  <2>4. QED
    BY <1>2, <1>3, <2>3
<1>5. QED
  BY <1>4 DEF Lowest

LEMMA RefArithmetic ==
    ASSUME NEW n \in 0 .. RefMax, NEW k \in Nat
    PROVE  /\ SatAdd(n, k) \in 0 .. RefMax
           /\ SatSub(n) \in 0 .. RefMax
           /\ SatAdd(n, k) >= n
           /\ SatAdd(n, k) = RefMax \/ SatAdd(n, k) = n + k
           /\ n > 0 => SatSub(n) = n - 1
BY SizeAssumption DEF SatAdd, SatSub

LEMMA EndCountType ==
    ASSUME NEW p, NEW e, NEW i
    PROVE  EndCount(p, e, i) \in Nat
<1>1. IsFiniteSet(Fds)
  BY SizeAssumption, FS_Interval DEF Fds
<1>2. {f \in Fds : fds[p][f] = End(e, i)} \in SUBSET Fds
  OBVIOUS
<1>3. QED
  BY <1>1, <1>2, FS_Subset, FS_CardinalityType DEF EndCount

\* The table operations keep the pipe table well formed.
LEMMA TableOperationsType ==
    ASSUME NEW rc \in RefTable
    PROVE  /\ \A x \in FdEntry : Acquire(rc, x) \in RefTable /\ Release(rc, x) \in RefTable
           /\ \A p : AcquireTable(rc, p) \in RefTable
<1>1. ASSUME NEW x \in FdEntry
      PROVE  Acquire(rc, x) \in RefTable /\ Release(rc, x) \in RefTable
  <2>1. CASE x.kind \in Ends /\ Live(rc, x.pipe)
    <3>1. x.pipe \in Pipes /\ rc[x.pipe][x.kind] \in 0 .. RefMax
      BY <2>1 DEF RefTable, FdEntry
    <3>2. /\ SatAdd(rc[x.pipe][x.kind], 1) \in 0 .. RefMax
          /\ SatSub(rc[x.pipe][x.kind]) \in 0 .. RefMax
      BY <3>1, RefArithmetic
    <3>3. QED
      BY <2>1, <3>1, <3>2 DEF Acquire, Release, RefTable
  <2>2. CASE ~(x.kind \in Ends /\ Live(rc, x.pipe))
    BY <2>2 DEF Acquire, Release
  <2>3. QED
    BY <2>1, <2>2
<1>2. ASSUME NEW p PROVE AcquireTable(rc, p) \in RefTable
  <2>1. ASSUME NEW i \in Pipes, NEW e \in Ends
        PROVE  SatAdd(rc[i][e], EndCount(p, e, i)) \in 0 .. RefMax /\ rc[i][e] \in 0 .. RefMax
    BY EndCountType, RefArithmetic DEF RefTable
  <2>2. QED
    BY <2>1 DEF AcquireTable, RefTable
<1>3. QED
  BY <1>1, <1>2

LEMMA EntryTypes ==
    /\ NoEntry \in FdEntry /\ FileEntry \in FdEntry
    /\ \A e \in Ends, i \in Pipes : End(e, i) \in FdEntry
    /\ EmptyTable \in [Fds -> FdEntry]
BY SizeAssumption DEF NoEntry, FileEntry, End, FdEntry, Ends, Pipes, EmptyTable

LEMMA ScanTypes ==
    ASSUME TypeOK
    PROVE  /\ \A p : FreeFds(p) # {} => Lowest(FreeFds(p)) \in FreeFds(p)
           /\ \A p, r : FreeFds(p) \ {r} # {} => Lowest(FreeFds(p) \ {r}) \in FreeFds(p) \ {r}
           /\ FreePids # {} => Lowest(FreePids) \in FreePids
           /\ (\E i \in Pipes : ~Live(refs, i)) =>
                /\ Lowest({j \in Pipes : ~Live(refs, j)}) \in Pipes
                /\ ~Live(refs, Lowest({j \in Pipes : ~Live(refs, j)}))
<1>1. Fds \subseteq Nat /\ Pipes \subseteq Nat /\ TablePids \subseteq Nat
  BY PidsAssumption DEF Fds, Pipes, Pids
<1>2. \A p, r : FreeFds(p) \in SUBSET Nat /\ FreeFds(p) \ {r} \in SUBSET Nat
  BY <1>1 DEF FreeFds
<1>3. FreePids \in SUBSET Nat /\ {j \in Pipes : ~Live(refs, j)} \in SUBSET Nat
  BY <1>1 DEF FreePids
<1>4. (\E i \in Pipes : ~Live(refs, i)) =>
         Lowest({j \in Pipes : ~Live(refs, j)}) \in {j \in Pipes : ~Live(refs, j)}
  BY <1>3, LowestIsMember
<1>5. QED
  BY <1>2, <1>3, <1>4, LowestIsMember

-----------------------------------------------------------------------------
(* Type correctness.                                                       *)

\* What a trap may do to the top of the ring-0 stack.
LEMMA TrapType ==
    ASSUME TypeOK, Trap
    PROVE  frame' \in Pids \cup {NoPid} /\ mode = "user"
BY DEF TypeOK, Trap

LEMMA SyscallCaller ==
    ASSUME TypeOK, Syscall
    PROVE  /\ Trap
           /\ frame' \in Pids \cup {NoPid} /\ mode = "user"
           /\ active \in Pids
BY DEF TypeOK, Trap, Syscall

LEMMA InitType == Init => TypeOK
<1> SUFFICES ASSUME Init PROVE TypeOK
  OBVIOUS
<1>1. refs \in RefTable
  BY SizeAssumption DEF Init, RefTable
<1>2. fds \in [Pids -> [Fds -> FdEntry]]
  BY EntryTypes DEF Init
<1>3. QED
  BY <1>1, <1>2 DEF Init, TypeOK, Pids, NotWaiting

\* The descriptor operations of the running process.
LEMMA DescriptorStepType ==
    ASSUME TypeOK,
           \/ OpenFile \/ PipeCreate
           \/ \E f \in Fds : CloseFd(f) \/ DupFd(f)
           \/ \E f, g \in Fds : Dup2Fd(f, g)
    PROVE  TypeOK'
<1> USE DEF tableVars, contextVars
<1>1. Syscall /\ UNCHANGED <<tableVars, contextVars>>
  BY DEF OpenFile, PipeCreate, CloseFd, DupFd, Dup2Fd
<1>2. frame' \in Pids \cup {NoPid} /\ active \in Pids
  BY <1>1, SyscallCaller
<1>3. fds \in [Pids -> [Fds -> FdEntry]] /\ refs \in RefTable
  BY DEF TypeOK
<1>4. \A f \in Fds : fds[active][f] \in FdEntry
  BY <1>2, <1>3
<1>5. fds' \in [Pids -> [Fds -> FdEntry]] /\ refs' \in RefTable
  <2>1. CASE OpenFile
    <3>1. Lowest(FreeFds(active)) \in Fds
      BY <2>1, ScanTypes DEF OpenFile, FreeFds
    <3>2. QED
      BY <2>1, <3>1, <1>2, <1>3, EntryTypes DEF OpenFile
  <2>2. CASE PipeCreate
    <3> DEFINE i == Lowest({j \in Pipes : ~Live(refs, j)})
               r == Lowest(FreeFds(active))
               w == Lowest(FreeFds(active) \ {r})
    <3>1. i \in Pipes
      BY <2>2, ScanTypes DEF PipeCreate
    <3>2. refs' = [refs EXCEPT ![i] = [e \in Ends |-> 1]]
      BY <2>2 DEF PipeCreate
    <3>3. fds' = [fds EXCEPT ![active][r] = End("read", i), ![active][w] = End("write", i)]
      BY <2>2 DEF PipeCreate
    <3>4. End("read", i) \in FdEntry /\ End("write", i) \in FdEntry
      BY <3>1, EntryTypes DEF Ends
    <3>5. [e \in Ends |-> 1] \in [Ends -> 0 .. RefMax]
      BY SizeAssumption
    <3>6. refs' \in RefTable
      BY <3>2, <3>5, <1>3 DEF RefTable
    <3> HIDE DEF i, r, w
    <3>7. QED
      BY <3>3, <3>4, <3>6, <1>2, <1>3
  <2>3. ASSUME NEW f \in Fds, CloseFd(f)
        PROVE  fds' \in [Pids -> [Fds -> FdEntry]] /\ refs' \in RefTable
    BY <2>3, <1>2, <1>3, <1>4, EntryTypes, TableOperationsType DEF CloseFd
  <2>4. ASSUME NEW f \in Fds, DupFd(f)
        PROVE  fds' \in [Pids -> [Fds -> FdEntry]] /\ refs' \in RefTable
    <3>1. refs' \in RefTable
      BY <2>4, <1>3, <1>4, TableOperationsType DEF DupFd
    <3>2. CASE FreeFds(active) = {}
      BY <2>4, <3>1, <3>2, <1>3 DEF DupFd
    <3>3. CASE FreeFds(active) # {}
      <4>1. Lowest(FreeFds(active)) \in Fds
        BY <3>3, ScanTypes DEF FreeFds
      <4>2. QED
        BY <2>4, <3>1, <3>3, <4>1, <1>2, <1>3, <1>4 DEF DupFd
    <3>4. QED
      BY <3>2, <3>3
  <2>5. ASSUME NEW f \in Fds, NEW g \in Fds, Dup2Fd(f, g)
        PROVE  fds' \in [Pids -> [Fds -> FdEntry]] /\ refs' \in RefTable
    <3>1. Release(refs, fds[active][g]) \in RefTable
      BY <1>3, <1>4, TableOperationsType
    <3>2. refs' \in RefTable
      BY <2>5, <3>1, <1>4, TableOperationsType DEF Dup2Fd
    <3>3. QED
      BY <2>5, <3>2, <1>2, <1>3, <1>4 DEF Dup2Fd
  <2>6. QED
    BY <2>1, <2>2, <2>3, <2>4, <2>5
<1>6. QED
  BY <1>1, <1>2, <1>5 DEF TypeOK

\* fork, wait, kill and the excursions.
LEMMA ProcessStepType ==
    ASSUME TypeOK,
           \/ NoEffect \/ Fork \/ ForkTableFull \/ ForkSpin \/ KernelFault
           \/ \E c \in TablePids : WaitEnter(c) \/ Kill(c)
           \/ ChildEnd \/ TopEnd
           \/ \E p \in StaticPids : Run(p)
           \/ RunUsertest
           \/ \E elf \in BOOLEAN : RunLoaded(elf)
    PROVE  TypeOK'
<1> USE DEF tableVars, contextVars
<1>1. CASE NoEffect
  <2>1. frame' \in Pids \cup {NoPid}
    BY <1>1, TrapType DEF NoEffect
  <2>2. QED
    BY <1>1, <2>1 DEF NoEffect, TypeOK
<1>2. CASE Fork
  <2> DEFINE c == Lowest(FreePids)
  <2>1. c \in TablePids /\ c \in Pids
    BY <1>2, ScanTypes DEF Fork, FreePids, Pids
  <2>2. frame' \in Pids \cup {NoPid} /\ active \in Pids
    BY <1>2, SyscallCaller DEF Fork
  <2>3. refs' \in RefTable
    BY <1>2, TableOperationsType DEF Fork, TypeOK
  <2>4. /\ alive' = alive \cup {c}
        /\ fds' = [fds EXCEPT ![c] = fds[active]]
        /\ parent' = [parent EXCEPT ![c] = active]
        /\ pending' = pending \cup {c}
        /\ UNCHANGED <<orphan, contextVars>>
    BY <1>2 DEF Fork
  <2> HIDE DEF c
  <2>5. QED
    BY <2>1, <2>2, <2>3, <2>4 DEF TypeOK
<1>3. CASE ForkTableFull
  <2>1. frame' \in Pids \cup {NoPid}
    BY <1>3, SyscallCaller DEF ForkTableFull
  <2>2. refs' \in RefTable
    BY <1>3, TableOperationsType DEF ForkTableFull, TypeOK
  <2>3. QED
    BY <1>3, <2>1, <2>2 DEF ForkTableFull, TypeOK
<1>4. CASE ForkSpin \/ KernelFault
  <2>1. frame' \in Pids \cup {NoPid}
    BY <1>4, SyscallCaller DEF ForkSpin, KernelFault
  <2>2. QED
    BY <1>4, <2>1 DEF ForkSpin, KernelFault, TypeOK
<1>5. ASSUME NEW c \in TablePids, WaitEnter(c) PROVE TypeOK'
  <2>1. frame' \in Pids \cup {NoPid} /\ active \in Pids /\ c \in Pids
    BY <1>5, SyscallCaller DEF WaitEnter, Pids
  <2>2. QED
    BY <1>5, <2>1 DEF WaitEnter, TypeOK
<1>6. ASSUME NEW c \in TablePids, Kill(c) PROVE TypeOK'
  <2>1. frame' \in Pids \cup {NoPid}
    BY <1>6, SyscallCaller DEF Kill
  <2>2. QED
    BY <1>6, <2>1, EntryTypes DEF Kill, DropChild, TypeOK
<1>7. CASE ChildEnd
  <2>1. frame' \in Pids \cup {NoPid}
    BY <1>7, SyscallCaller DEF ChildEnd
  <2>2. waiting.parent \in Pids \cup {NoPid}
    BY DEF TypeOK
  <2>3. NotWaiting \in [parent : Pids \cup {NoPid}, child : TablePids \cup {NoPid}]
    BY DEF NotWaiting
  <2>4. QED
    BY <1>7, <2>1, <2>2, <2>3, EntryTypes DEF ChildEnd, DropChild, TypeOK
<1>8. CASE TopEnd
  <2>1. frame' \in Pids \cup {NoPid}
    BY <1>8, TrapType DEF TopEnd
  <2>2. QED
    BY <1>8, <2>1 DEF TopEnd, TypeOK
<1>9. ASSUME NEW p \in StaticPids, Run(p) PROVE TypeOK'
  BY <1>9 DEF Run, EnterRing3, TypeOK, Pids
<1>10. CASE RunUsertest
  BY <1>10 DEF RunUsertest, EnterRing3, TypeOK
<1>11. ASSUME NEW elf \in BOOLEAN, RunLoaded(elf) PROVE TypeOK'
  <2>1. LoadedPid \in Pids
    BY DEF Pids
  <2>2. QED
    BY <1>11, <2>1, EntryTypes DEF RunLoaded, EnterRing3, TypeOK
<1>12. QED
  BY <1>1, <1>2, <1>3, <1>4, <1>5, <1>6, <1>7, <1>8, <1>9, <1>10, <1>11

\* Every variable keeps its type, whatever the user programs do.
THEOREM TypeCorrect == Spec => []TypeOK
<1>1. TypeOK /\ [Next]_vars => TypeOK'
  <2>1. ASSUME TypeOK, Next PROVE TypeOK'
    BY <2>1, DescriptorStepType, ProcessStepType DEF Next
  <2>2. ASSUME TypeOK, UNCHANGED vars PROVE TypeOK'
    BY <2>2 DEF vars, tableVars, contextVars, TypeOK
  <2>3. QED
    BY <2>1, <2>2
<1>2. QED
  BY InitType, <1>1, PTL DEF Spec

-----------------------------------------------------------------------------
(* The machine context.  The four invariants need one another: that a      *)
(* waiting parent's frame survives rests on the context (RSP0 is switched  *)
(* exactly while a child runs), and that the process wait() returns to     *)
(* still exists rests on no child ever having a child of its own.          *)

StaticAlive == StaticPids \subseteq alive

ContextInv ==
    /\ StaticAlive
    /\ ContextAgrees
    /\ WaitFrameIntact
    /\ TableNeverRan
    /\ ParentsOutliveChildren

LEMMA PidFacts ==
    /\ NoPid \notin Pids
    /\ \A p \in StaticPids : p \in Pids /\ p \notin TablePids
    /\ LoadedPid \in Pids /\ LoadedPid \notin TablePids
    /\ TablePids \subseteq Pids
BY PidsAssumption DEF Pids, NoPid

LEMMA InitContext == Init => ContextInv
BY PidFacts DEF Init, ContextInv, StaticAlive, ContextAgrees, WaitFrameIntact,
   TableNeverRan, ParentsOutliveChildren

\* A step that leaves the process table and the machine context alone.
LEMMA QuietStepContext ==
    ASSUME TypeOK, ContextInv, Trap, UNCHANGED <<tableVars, contextVars>>
    PROVE  ContextInv'
<1> USE DEF tableVars, contextVars
<1>1. StaticAlive' /\ ContextAgrees' /\ TableNeverRan' /\ ParentsOutliveChildren'
  BY DEF ContextInv, StaticAlive, ContextAgrees, TableNeverRan, ParentsOutliveChildren
<1>2. WaitFrameIntact'
  BY DEF ContextInv, ContextAgrees, WaitFrameIntact, Trap
<1>3. QED
  BY <1>1, <1>2 DEF ContextInv

LEMMA ForkContext ==
    ASSUME TypeOK, ContextInv, Fork
    PROVE  ContextInv'
<1> DEFINE c == Lowest(FreePids)
<1>1. c \in TablePids /\ c \notin alive
  BY ScanTypes DEF Fork, FreePids
<1>2. /\ alive' = alive \cup {c}
      /\ parent' = [parent EXCEPT ![c] = active]
      /\ pending' = pending \cup {c}
      /\ UNCHANGED contextVars
  BY DEF Fork
<1>3. Trap /\ active # NoPid /\ ~inChild
  BY DEF Fork, Syscall
<1> HIDE DEF c
<1> USE DEF contextVars
<1>4. active \in alive \ TablePids
  BY <1>3 DEF ContextInv, ContextAgrees
<1>5. StaticAlive' /\ ContextAgrees'
  BY <1>2 DEF ContextInv, StaticAlive, ContextAgrees
<1>6. WaitFrameIntact'
  BY <1>2, <1>3 DEF WaitFrameIntact
<1>7. TableNeverRan'
  BY <1>2 DEF ContextInv, TableNeverRan
<1>8. ParentsOutliveChildren'
  BY <1>1, <1>2, <1>4 DEF ContextInv, ParentsOutliveChildren, TypeOK
<1>9. QED
  BY <1>5, <1>6, <1>7, <1>8 DEF ContextInv

LEMMA WaitEnterContext ==
    ASSUME TypeOK, ContextInv, NEW c \in TablePids, WaitEnter(c)
    PROVE  ContextInv'
<1>1. active # NoPid /\ ~inChild /\ mode = "user"
  BY DEF WaitEnter, Syscall, Trap
<1>2. active \in alive \ TablePids /\ rsp0 = "main"
  BY <1>1 DEF ContextInv, ContextAgrees, TypeOK
<1>3. StaticAlive' /\ ParentsOutliveChildren'
  BY DEF WaitEnter, ContextInv, StaticAlive, ParentsOutliveChildren
<1>4. ContextAgrees'
  BY <1>1, <1>2 DEF WaitEnter, ContextInv, ContextAgrees
<1>5. WaitFrameIntact'
  BY <1>2 DEF WaitEnter, Syscall, Trap, WaitFrameIntact
<1>6. TableNeverRan'
  BY <1>1 DEF WaitEnter, ContextInv, TableNeverRan
<1>7. QED
  BY <1>3, <1>4, <1>5, <1>6 DEF ContextInv

LEMMA ChildEndContext ==
    ASSUME TypeOK, ContextInv, ChildEnd
    PROVE  ContextInv'
<1> DEFINE c == waiting.child
           p == waiting.parent
<1>1. c = active /\ c \in TablePids /\ p \in alive \ TablePids /\ mode = "user"
  BY DEF ChildEnd, Syscall, Trap, ContextInv, ContextAgrees
<1>2. /\ alive' = alive \ {c} /\ pending' = pending \ {c}
      /\ parent' = [parent EXCEPT ![c] = NoPid]
      /\ active' = p /\ cr3' = p /\ ~inChild' /\ rsp0' = "main"
      /\ waiting' = NotWaiting /\ UNCHANGED <<mode, allocHeld>>
  BY DEF ChildEnd, DropChild
<1> HIDE DEF c, p
<1>3. StaticAlive'
  BY <1>1, <1>2, PidFacts DEF ContextInv, StaticAlive
<1>4. ContextAgrees'
  BY <1>1, <1>2 DEF ContextAgrees, NotWaiting
<1>5. WaitFrameIntact'
  BY <1>2 DEF WaitFrameIntact
<1>6. TableNeverRan'
  BY <1>1, <1>2 DEF ContextInv, TableNeverRan
<1>7. ParentsOutliveChildren'
  BY <1>1, <1>2 DEF ContextInv, ParentsOutliveChildren, TypeOK
<1>8. QED
  BY <1>3, <1>4, <1>5, <1>6, <1>7 DEF ContextInv

LEMMA KillContext ==
    ASSUME TypeOK, ContextInv, NEW c \in TablePids, Kill(c)
    PROVE  ContextInv'
<1> USE DEF contextVars
<1>1. active \in alive \ TablePids /\ ~inChild /\ c # active
  BY DEF Kill, ContextInv, ContextAgrees, ParentsOutliveChildren
<1>2. /\ alive' = alive \ {c} /\ pending' = pending \ {c}
      /\ parent' = [parent EXCEPT ![c] = NoPid]
      /\ UNCHANGED contextVars
  BY DEF Kill, DropChild
<1>3. StaticAlive'
  BY <1>2, PidFacts DEF ContextInv, StaticAlive
<1>4. ContextAgrees'
  BY <1>1, <1>2 DEF ContextInv, ContextAgrees
<1>5. WaitFrameIntact'
  BY <1>1, <1>2 DEF WaitFrameIntact
<1>6. TableNeverRan'
  BY <1>1, <1>2 DEF ContextInv, TableNeverRan
<1>7. ParentsOutliveChildren'
  BY <1>2 DEF ContextInv, ParentsOutliveChildren, TypeOK
<1>8. QED
  BY <1>3, <1>4, <1>5, <1>6, <1>7 DEF ContextInv

\* Entering ring 3 from the shell and coming back to it.
LEMMA TopLevelContext ==
    ASSUME TypeOK, ContextInv,
           \/ TopEnd \/ RunUsertest
           \/ \E p \in StaticPids : Run(p)
           \/ \E elf \in BOOLEAN : RunLoaded(elf)
    PROVE  ContextInv'
<1> USE DEF tableVars, contextVars
<1>1. CASE TopEnd
  <2>1. ContextAgrees'
    BY <1>1, PidFacts DEF TopEnd, ContextInv, ContextAgrees
  <2>2. QED
    BY <1>1, <2>1 DEF TopEnd, ContextInv, StaticAlive, WaitFrameIntact,
       TableNeverRan, ParentsOutliveChildren
<1>2. CASE RunUsertest
  <2>1. ContextAgrees'
    BY <1>2, PidFacts DEF RunUsertest, EnterRing3, ContextInv, ContextAgrees
  <2>2. QED
    BY <1>2, <2>1 DEF RunUsertest, EnterRing3, ContextInv, ContextAgrees, StaticAlive,
       WaitFrameIntact, TableNeverRan, ParentsOutliveChildren
<1>3. ASSUME NEW p \in StaticPids, Run(p) PROVE ContextInv'
  <2>1. p \in alive \ TablePids
    BY PidFacts DEF ContextInv, StaticAlive
  <2>2. ContextAgrees'
    BY <1>3, <2>1 DEF Run, EnterRing3, ContextInv, ContextAgrees
  <2>3. QED
    BY <1>3, <2>2 DEF Run, EnterRing3, ContextInv, ContextAgrees, StaticAlive,
       WaitFrameIntact, TableNeverRan, ParentsOutliveChildren
<1>4. ASSUME NEW elf \in BOOLEAN, RunLoaded(elf) PROVE ContextInv'
  <2>1. ContextAgrees'
    BY <1>4, PidFacts DEF RunLoaded, EnterRing3, ContextInv, ContextAgrees
  <2>2. StaticAlive' /\ WaitFrameIntact' /\ ParentsOutliveChildren'
    BY <1>4, PidFacts DEF RunLoaded, EnterRing3, ContextInv, ContextAgrees, StaticAlive,
       WaitFrameIntact, ParentsOutliveChildren
  <2>3. TableNeverRan'
    BY <1>4, PidFacts DEF RunLoaded, EnterRing3, ContextInv, ContextAgrees, TableNeverRan
  <2>4. QED
    BY <2>1, <2>2, <2>3 DEF ContextInv
<1>5. QED
  BY <1>1, <1>2, <1>3, <1>4

LEMMA StepContext ==
    ASSUME TypeOK, ContextInv, [Next]_vars
    PROVE  ContextInv'
<1>1. CASE \/ NoEffect \/ OpenFile \/ PipeCreate \/ ForkTableFull
           \/ \E f \in Fds : CloseFd(f) \/ DupFd(f)
           \/ \E f, g \in Fds : Dup2Fd(f, g)
  <2>1. Trap /\ UNCHANGED <<tableVars, contextVars>>
    BY <1>1 DEF NoEffect, OpenFile, PipeCreate, ForkTableFull, CloseFd, DupFd, Dup2Fd, Syscall
  <2>2. QED
    BY <2>1, QuietStepContext
<1>2. CASE ForkSpin \/ KernelFault
  <2>1. /\ Trap /\ mode' # "kernel"
        /\ UNCHANGED <<alive, parent, pending, active, cr3, inChild, rsp0, waiting, allocHeld>>
    BY <1>2 DEF ForkSpin, KernelFault, Syscall, tableVars
  <2>2. StaticAlive' /\ ContextAgrees' /\ TableNeverRan' /\ ParentsOutliveChildren'
    BY <2>1 DEF ContextInv, StaticAlive, ContextAgrees, TableNeverRan, ParentsOutliveChildren
  <2>3. WaitFrameIntact'
    BY <2>1 DEF ContextInv, ContextAgrees, WaitFrameIntact, Trap
  <2>4. QED
    BY <2>2, <2>3 DEF ContextInv
<1>3. CASE UNCHANGED vars
  BY <1>3 DEF vars, tableVars, contextVars, ContextInv, StaticAlive, ContextAgrees,
     WaitFrameIntact, TableNeverRan, ParentsOutliveChildren
<1>4. QED
  BY <1>1, <1>2, <1>3, ForkContext, WaitEnterContext, ChildEndContext, KillContext,
     TopLevelContext DEF Next

\* The context a syscall is charged to, the frame a wait() returns through and
\* the table of children stay consistent in every excursion.
THEOREM ContextCorrect ==
    Spec => [](ContextAgrees /\ WaitFrameIntact /\ TableNeverRan /\ ParentsOutliveChildren)
<1>1. ContextInv => ContextAgrees /\ WaitFrameIntact /\ TableNeverRan /\ ParentsOutliveChildren
  BY DEF ContextInv
<1>2. TypeOK /\ ContextInv /\ [Next]_vars => ContextInv'
  BY StepContext
<1>3. QED
  BY <1>1, <1>2, InitContext, TypeCorrect, PTL DEF Spec

\* The frame a wait() will return through stays that of the waiting parent, whatever its child calls.
THEOREM WaitFrameIsKept == Spec => []WaitFrameIntact
BY ContextCorrect, PTL

\* A child in the table has never run, except the one a wait() is running now.
THEOREM TableIsFresh == Spec => []TableNeverRan
BY ContextCorrect, PTL

\* Kills, exits and faults in any order leave no child in the table without its parent.
THEOREM ParentsAreThere == Spec => []ParentsOutliveChildren
BY ContextCorrect, PTL

-----------------------------------------------------------------------------
(* The reference counts of the pipes.  RefsCoverHolders is inductive given *)
(* type correctness; the lemmas speak of any descriptor tables t and any   *)
(* counts rc, so that dup2 (a close, then a dup) can use two of them.      *)

FdTables == [Pids -> [Fds -> FdEntry]]

HoldersIn(t, e, i) == {h \in Pids \X Fds : t[h[1]][h[2]] = End(e, i)}

Covers(t, rc) == \A i \in Pipes, e \in Ends : Cardinality(HoldersIn(t, e, i)) <= rc[i][e]

LEMMA CoversIsRefsCoverHolders == RefsCoverHolders <=> Covers(fds, refs)
BY DEF RefsCoverHolders, Covers, Holders, HoldersIn

LEMMA HandleSets ==
    ASSUME NEW S \in SUBSET (Pids \X Fds)
    PROVE  /\ IsFiniteSet(S)
           /\ Cardinality(S) \in Nat
           /\ Cardinality(S) <= RefMax
<1>1. IsFiniteSet(Pids)
  <2>1. IsFiniteSet({LoadedPid}) /\ IsFiniteSet(StaticPids) /\ IsFiniteSet(TablePids)
    BY PidsAssumption, FS_Singleton
  <2>2. IsFiniteSet(StaticPids \cup {LoadedPid})
    BY <2>1, FS_Union
  <2>3. QED
    BY <2>1, <2>2, FS_Union DEF Pids
<1>2. IsFiniteSet(Fds)
  BY SizeAssumption, FS_Interval DEF Fds
<1>3. IsFiniteSet(Pids \X Fds) /\ Cardinality(Pids \X Fds) \in Nat
  BY <1>1, <1>2, FS_Product, FS_CardinalityType
<1>4. IsFiniteSet(S) /\ Cardinality(S) <= Cardinality(Pids \X Fds)
  BY <1>3, FS_Subset
<1>5. Cardinality(S) \in Nat
  BY <1>4, FS_CardinalityType
<1>6. QED
  BY <1>3, <1>4, <1>5, SizeAssumption

LEMMA HoldersInFacts ==
    ASSUME NEW t, NEW e, NEW i
    PROVE  /\ HoldersIn(t, e, i) \in SUBSET (Pids \X Fds)
           /\ IsFiniteSet(HoldersIn(t, e, i))
           /\ Cardinality(HoldersIn(t, e, i)) \in Nat
           /\ Cardinality(HoldersIn(t, e, i)) <= RefMax
           /\ HoldersIn(t, e, i) # {} => Cardinality(HoldersIn(t, e, i)) > 0
<1>1. HoldersIn(t, e, i) \in SUBSET (Pids \X Fds)
  BY DEF HoldersIn
<1>2. QED
  BY <1>1, HandleSets, FS_EmptySet

\* An end that somebody names is counted, so its pipe is live.
LEMMA HolderIsCounted ==
    ASSUME NEW t \in FdTables, NEW rc \in RefTable, Covers(t, rc),
           NEW e \in Ends, NEW i \in Pipes, NEW p \in Pids, NEW f \in Fds,
           t[p][f] = End(e, i)
    PROVE  rc[i][e] > 0 /\ Live(rc, i)
<1>1. <<p, f>> \in HoldersIn(t, e, i)
  BY DEF HoldersIn
<1>2. Cardinality(HoldersIn(t, e, i)) > 0 /\ Cardinality(HoldersIn(t, e, i)) <= rc[i][e]
  BY <1>1, HoldersInFacts DEF Covers
<1>3. rc[i][e] \in 0 .. RefMax
  BY DEF RefTable
<1>4. rc[i][e] > 0
  BY <1>2, <1>3, HoldersInFacts
<1>5. QED
  BY <1>4 DEF Live, Ends

\* How one count reads after Acquire and Release.
LEMMA CountAfter ==
    ASSUME NEW rc \in RefTable, NEW x \in FdEntry, NEW e \in Ends, NEW i \in Pipes
    PROVE  /\ x # End(e, i) => /\ Acquire(rc, x)[i][e] = rc[i][e]
                               /\ Release(rc, x)[i][e] = rc[i][e]
           /\ x = End(e, i) /\ Live(rc, i) =>
                /\ Acquire(rc, x)[i][e] = SatAdd(rc[i][e], 1)
                /\ Release(rc, x)[i][e] = SatSub(rc[i][e])
           /\ Acquire(rc, x)[i][e] >= rc[i][e]
<1>1. rc \in [Pipes -> [Ends -> 0 .. RefMax]] /\ rc[i][e] \in 0 .. RefMax
  BY DEF RefTable
<1>2. x = End(e, i) <=> x.kind = e /\ x.pipe = i
  BY DEF FdEntry, End
<1>3. SatAdd(rc[i][e], 1) >= rc[i][e]
  BY <1>1, RefArithmetic
<1>4. x.pipe \in Pipes
  BY DEF FdEntry
<1>5. CASE x = End(e, i)
  BY <1>1, <1>2, <1>3, <1>5 DEF Acquire, Release
<1>6. CASE x # End(e, i)
  BY <1>1, <1>2, <1>4, <1>6 DEF Acquire, Release
<1>7. QED
  BY <1>5, <1>6

\* Descriptors that go away without a close, and counts that only rise.
LEMMA LossKeepsCover ==
    ASSUME NEW t, NEW u, NEW rc \in RefTable, NEW sc \in RefTable, Covers(t, rc),
           \A i \in Pipes, e \in Ends : HoldersIn(u, e, i) \subseteq HoldersIn(t, e, i),
           \A i \in Pipes, e \in Ends : sc[i][e] >= rc[i][e]
    PROVE  Covers(u, sc)
<1> SUFFICES ASSUME NEW i \in Pipes, NEW e \in Ends
             PROVE  Cardinality(HoldersIn(u, e, i)) <= sc[i][e]
  BY DEF Covers
<1>1. Cardinality(HoldersIn(u, e, i)) <= Cardinality(HoldersIn(t, e, i))
  BY HoldersInFacts, FS_Subset
<1>2. Cardinality(HoldersIn(t, e, i)) <= rc[i][e]
  BY DEF Covers
<1>3. rc[i][e] \in Nat /\ sc[i][e] \in Nat
  BY DEF RefTable
<1>4. QED
  BY <1>1, <1>2, <1>3, HoldersInFacts

\* close: one holder less, one count less.
LEMMA ReleaseKeepsCover ==
    ASSUME NEW t \in FdTables, NEW rc \in RefTable, Covers(t, rc),
           NEW p \in Pids, NEW f \in Fds
    PROVE  Covers([t EXCEPT ![p][f] = NoEntry], Release(rc, t[p][f]))
<1> DEFINE u == [t EXCEPT ![p][f] = NoEntry]
           x == t[p][f]
<1> SUFFICES ASSUME NEW i \in Pipes, NEW e \in Ends
             PROVE  Cardinality(HoldersIn(u, e, i)) <= Release(rc, x)[i][e]
  BY DEF Covers
<1>1. x \in FdEntry /\ rc[i][e] \in 0 .. RefMax
  BY DEF FdTables, RefTable
<1>2. NoEntry # End(e, i)
  BY DEF NoEntry, End, Ends
<1>3. HoldersIn(u, e, i) = HoldersIn(t, e, i) \ {<<p, f>>}
  <2>1. \A q \in Pids, g \in Fds : u[q][g] = IF q = p /\ g = f THEN NoEntry ELSE t[q][g]
    BY DEF FdTables
  <2> HIDE DEF u
  <2>2. QED
    BY <2>1, <1>2 DEF HoldersIn
<1>4. Cardinality(HoldersIn(t, e, i)) <= rc[i][e]
  BY DEF Covers
<1>5. CASE x = End(e, i)
  <2>1. <<p, f>> \in HoldersIn(t, e, i)
    BY <1>5 DEF HoldersIn
  <2>2. Cardinality(HoldersIn(u, e, i)) = Cardinality(HoldersIn(t, e, i)) - 1
    <3> DEFINE S == HoldersIn(t, e, i)
    <3>1. IsFiniteSet(S)
      BY HoldersInFacts
    <3> HIDE DEF S
    <3>2. Cardinality(S \ {<<p, f>>}) = IF <<p, f>> \in S THEN Cardinality(S) - 1 ELSE Cardinality(S)
      BY <3>1, FS_RemoveElement
    <3>3. QED
      BY <1>3, <2>1, <3>2 DEF S
  <2>3. rc[i][e] > 0 /\ Live(rc, i)
    BY <1>5, HolderIsCounted
  <2>4. Release(rc, x)[i][e] = rc[i][e] - 1
    BY <1>1, <1>5, <2>3, CountAfter, RefArithmetic
  <2>5. QED
    BY <1>1, <1>4, <2>2, <2>4, HoldersInFacts
<1>6. CASE x # End(e, i)
  <2>1. Cardinality(HoldersIn(u, e, i)) <= Cardinality(HoldersIn(t, e, i))
    BY <1>3, HoldersInFacts, FS_Subset
  <2>2. Release(rc, x)[i][e] = rc[i][e]
    BY <1>1, <1>6, CountAfter
  <2>3. QED
    BY <1>1, <1>4, <2>1, <2>2, HoldersInFacts
<1>7. QED
  BY <1>5, <1>6

\* dup: one holder more, one count more, unless the count is saturated already.
LEMMA AcquireKeepsCover ==
    ASSUME NEW t \in FdTables, NEW rc \in RefTable, Covers(t, rc),
           NEW p \in Pids, NEW g \in Fds, t[p][g].kind \notin Ends,
           NEW x \in FdEntry,
           x.kind \in Ends => \E q \in Pids, f \in Fds : t[q][f] = x
    PROVE  Covers([t EXCEPT ![p][g] = x], Acquire(rc, x))
<1> DEFINE u == [t EXCEPT ![p][g] = x]
<1> SUFFICES ASSUME NEW i \in Pipes, NEW e \in Ends
             PROVE  Cardinality(HoldersIn(u, e, i)) <= Acquire(rc, x)[i][e]
  BY DEF Covers
<1>1. rc[i][e] \in 0 .. RefMax /\ Cardinality(HoldersIn(t, e, i)) <= rc[i][e]
  BY DEF RefTable, Covers
<1>2. \A q \in Pids, h \in Fds : u[q][h] = IF q = p /\ h = g THEN x ELSE t[q][h]
  BY DEF FdTables
<1>3. t[p][g] # End(e, i)
  BY DEF End
<1> HIDE DEF u
<1>4. CASE x = End(e, i)
  <2>1. HoldersIn(u, e, i) = HoldersIn(t, e, i) \cup {<<p, g>>}
    BY <1>2, <1>4 DEF HoldersIn
  <2>2. Cardinality(HoldersIn(u, e, i)) <= Cardinality(HoldersIn(t, e, i)) + 1
    <3> DEFINE S == HoldersIn(t, e, i)
    <3>1. IsFiniteSet(S) /\ Cardinality(S) \in Nat
      BY HoldersInFacts
    <3> HIDE DEF S
    <3>2. Cardinality(S \cup {<<p, g>>}) = IF <<p, g>> \in S THEN Cardinality(S) ELSE Cardinality(S) + 1
      BY <3>1, FS_AddElement
    <3>3. QED
      BY <2>1, <3>1, <3>2 DEF S
  <2>3. Live(rc, i)
    <3>1. PICK q \in Pids, f \in Fds : t[q][f] = x
      BY <1>4 DEF End
    <3>2. QED
      BY <3>1, <1>4, HolderIsCounted
  <2>4. Acquire(rc, x)[i][e] = SatAdd(rc[i][e], 1)
    BY <1>4, <2>3, CountAfter
  <2>5. Cardinality(HoldersIn(u, e, i)) <= RefMax
    BY HoldersInFacts
  <2>6. SatAdd(rc[i][e], 1) = RefMax \/ SatAdd(rc[i][e], 1) = rc[i][e] + 1
    BY <1>1, RefArithmetic
  <2>7. QED
    BY <1>1, <2>2, <2>4, <2>5, <2>6, HoldersInFacts
<1>5. CASE x # End(e, i)
  <2>1. HoldersIn(u, e, i) = HoldersIn(t, e, i)
    BY <1>2, <1>3, <1>5 DEF HoldersIn
  <2>2. QED
    BY <1>1, <1>5, <2>1, CountAfter
<1>6. QED
  BY <1>4, <1>5

\* fork: every descriptor of the parent once more.
LEMMA ForkKeepsCover ==
    ASSUME TypeOK, Covers(fds, refs), NEW p \in Pids, NEW c \in Pids
    PROVE  Covers([fds EXCEPT ![c] = fds[p]], AcquireTable(refs, p))
<1> DEFINE u == [fds EXCEPT ![c] = fds[p]]
<1> SUFFICES ASSUME NEW i \in Pipes, NEW e \in Ends
             PROVE  Cardinality(HoldersIn(u, e, i)) <= AcquireTable(refs, p)[i][e]
  BY DEF Covers
<1> DEFINE F == {f \in Fds : fds[p][f] = End(e, i)}
           New == {c} \X F
           Old == HoldersIn(fds, e, i)
<1>1. fds \in FdTables /\ refs \in RefTable
  BY DEF TypeOK, FdTables
<1>2. refs[i][e] \in 0 .. RefMax /\ Cardinality(Old) <= refs[i][e]
  BY <1>1 DEF RefTable, Covers
<1>3. HoldersIn(u, e, i) \subseteq Old \cup New
  BY <1>1 DEF HoldersIn, FdTables
<1>4. /\ IsFiniteSet(New) /\ Cardinality(New) \in Nat
      /\ Cardinality(New) = EndCount(p, e, i)
  <2>1. IsFiniteSet(F)
    <3>1. IsFiniteSet(Fds)
      BY SizeAssumption, FS_Interval DEF Fds
    <3>2. QED
      BY <3>1, FS_Subset
  <2>2. IsFiniteSet({c}) /\ Cardinality({c}) = 1
    BY FS_Singleton
  <2> HIDE DEF F
  <2>3. IsFiniteSet(New) /\ Cardinality(New) = Cardinality({c}) * Cardinality(F)
    BY <2>1, <2>2, FS_Product
  <2>4. Cardinality(F) \in Nat
    BY <2>1, FS_CardinalityType
  <2>5. Cardinality(New) = Cardinality(F)
    BY <2>2, <2>3, <2>4
  <2>6. QED
    BY <2>3, <2>4, <2>5 DEF EndCount, F
<1>5. IsFiniteSet(Old) /\ Cardinality(Old) \in Nat
  BY HoldersInFacts
<1> HIDE DEF New, Old
<1>6. Cardinality(HoldersIn(u, e, i)) <= Cardinality(Old) + Cardinality(New)
  <2>1. /\ IsFiniteSet(Old \cup New)
        /\ Cardinality(Old \cup New) =
             Cardinality(Old) + Cardinality(New) - Cardinality(Old \cap New)
    BY <1>4, <1>5, FS_Union
  <2>2. Cardinality(Old \cap New) \in Nat
    BY <1>5, FS_Intersection, FS_CardinalityType
  <2>3. Cardinality(HoldersIn(u, e, i)) <= Cardinality(Old \cup New)
    BY <1>3, <2>1, FS_Subset
  <2>4. QED
    BY <1>4, <1>5, <2>1, <2>2, <2>3, HoldersInFacts
<1>7. CASE Live(refs, i)
  <2>1. AcquireTable(refs, p)[i][e] = SatAdd(refs[i][e], EndCount(p, e, i))
    BY <1>7 DEF AcquireTable
  <2>2. SatAdd(refs[i][e], EndCount(p, e, i)) \in {RefMax, refs[i][e] + EndCount(p, e, i)}
    BY <1>2, <1>4, RefArithmetic
  <2>3. Cardinality(HoldersIn(u, e, i)) <= RefMax
    BY HoldersInFacts
  <2>4. QED
    BY <1>2, <1>4, <1>5, <1>6, <2>1, <2>2, <2>3, HoldersInFacts
<1>8. CASE ~Live(refs, i)
  <2>1. AcquireTable(refs, p)[i][e] = refs[i][e]
    BY <1>8 DEF AcquireTable
  <2>2. F = {}
    BY <1>1, <1>8, HolderIsCounted
  <2>3. HoldersIn(u, e, i) \subseteq Old
    BY <1>3, <2>2 DEF New
  <2>4. Cardinality(HoldersIn(u, e, i)) <= Cardinality(Old)
    BY <1>5, <2>3, FS_Subset
  <2>5. QED
    BY <1>2, <1>5, <2>1, <2>4, HoldersInFacts
<1>9. QED
  BY <1>7, <1>8

\* pipe() finds two different free slots when there are two.
LEMMA FreeSlotPair ==
    ASSUME TypeOK, NEW p, Cardinality(FreeFds(p)) >= 2
    PROVE  LET r == Lowest(FreeFds(p))
               w == Lowest(FreeFds(p) \ {r})
           IN  r \in FreeFds(p) /\ w \in FreeFds(p) /\ r # w
<1> DEFINE r == Lowest(FreeFds(p))
<1>1. IsFiniteSet(FreeFds(p))
  <2>1. IsFiniteSet(Fds)
    BY SizeAssumption, FS_Interval DEF Fds
  <2>2. QED
    BY <2>1, FS_Subset DEF FreeFds
<1>2. FreeFds(p) # {}
  BY <1>1, FS_EmptySet
<1>3. r \in FreeFds(p)
  BY <1>2, ScanTypes
<1>4. FreeFds(p) # {r}
  BY FS_Singleton
<1>5. FreeFds(p) \ {r} # {}
  BY <1>3, <1>4
<1>6. QED
  BY <1>3, <1>5, ScanTypes

\* pipe: the slot that was free had no holder left over.
LEMMA CreateKeepsCover ==
    ASSUME TypeOK, Covers(fds, refs), PipeCreate
    PROVE  Covers(fds', refs')
<1> DEFINE j == Lowest({k \in Pipes : ~Live(refs, k)})
           r == Lowest(FreeFds(active))
           w == Lowest(FreeFds(active) \ {r})
<1>1. j \in Pipes /\ ~Live(refs, j)
  BY ScanTypes DEF PipeCreate
<1>2. r \in FreeFds(active) /\ w \in FreeFds(active) /\ r # w
  BY FreeSlotPair DEF PipeCreate
<1>3. /\ refs' = [refs EXCEPT ![j] = [e \in Ends |-> 1]]
      /\ fds' = [fds EXCEPT ![active][r] = End("read", j), ![active][w] = End("write", j)]
      /\ active \in Pids
  BY SyscallCaller DEF PipeCreate
<1>4. fds \in FdTables /\ refs \in RefTable
  BY DEF TypeOK, FdTables
<1> HIDE DEF j, r, w
<1>5. \A q \in Pids, f \in Fds :
        fds'[q][f] = IF q = active /\ f = r THEN End("read", j)
                     ELSE IF q = active /\ f = w THEN End("write", j) ELSE fds[q][f]
  BY <1>2, <1>3, <1>4 DEF FdTables, FreeFds
<1>6. \A e \in Ends : fds[active][r] # End(e, j) /\ fds[active][w] # End(e, j)
  BY <1>2 DEF FreeFds, End, Ends
<1> SUFFICES ASSUME NEW i \in Pipes, NEW e \in Ends
             PROVE  Cardinality(HoldersIn(fds', e, i)) <= refs'[i][e]
  BY DEF Covers
<1>7. CASE i = j
  <2>1. \A q \in Pids, f \in Fds : fds[q][f] # End(e, j)
    BY <1>1, <1>4, HolderIsCounted
  <2>2. HoldersIn(fds', e, i) \subseteq {<<active, IF e = "read" THEN r ELSE w>>}
    BY <1>2, <1>5, <1>7, <2>1 DEF HoldersIn, End, Ends, FreeFds
  <2>3. Cardinality(HoldersIn(fds', e, i)) <= 1
    <3> DEFINE h == <<active, IF e = "read" THEN r ELSE w>>
    <3>1. HoldersIn(fds', e, i) \subseteq {h}
      BY <2>2
    <3> HIDE DEF h
    <3>2. IsFiniteSet({h}) /\ Cardinality({h}) = 1
      BY FS_Singleton
    <3>3. QED
      BY <3>1, <3>2, FS_Subset
  <2>4. refs'[i][e] = 1
    BY <1>3, <1>4, <1>7 DEF RefTable
  <2>5. QED
    BY <2>3, <2>4
<1>8. CASE i # j
  <2>1. HoldersIn(fds', e, i) \subseteq HoldersIn(fds, e, i)
    BY <1>5, <1>8 DEF HoldersIn, End
  <2>2. refs'[i][e] = refs[i][e] /\ refs[i][e] \in Nat
    BY <1>3, <1>4, <1>8 DEF RefTable
  <2>3. Cardinality(HoldersIn(fds', e, i)) <= Cardinality(HoldersIn(fds, e, i))
    BY <2>1, HoldersInFacts, FS_Subset
  <2>4. QED
    BY <2>2, <2>3, HoldersInFacts DEF Covers
<1>9. QED
  BY <1>7, <1>8

LEMMA InitCovers == Init => Covers(fds, refs)
<1> SUFFICES ASSUME Init, NEW i \in Pipes, NEW e \in Ends
             PROVE  Cardinality(HoldersIn(fds, e, i)) <= refs[i][e]
  BY DEF Covers
<1>1. HoldersIn(fds, e, i) = {}
  BY DEF Init, HoldersIn, EmptyTable, NoEntry, End, Ends
<1>2. refs[i][e] = 0
  BY DEF Init
<1>3. QED
  BY <1>1, <1>2, FS_EmptySet

\* A step that opens no pipe end and lowers no count.
LEMMA QuietStepCovers ==
    ASSUME TypeOK, TypeOK', Covers(fds, refs),
           \A p \in Pids : fds'[p] = fds[p] \/ fds'[p] = EmptyTable,
           \A i \in Pipes, e \in Ends : refs'[i][e] >= refs[i][e]
    PROVE  Covers(fds', refs')
<1>1. \A i \in Pipes, e \in Ends : HoldersIn(fds', e, i) \subseteq HoldersIn(fds, e, i)
  BY DEF HoldersIn, EmptyTable, NoEntry, End, Ends
<1>2. refs \in RefTable /\ refs' \in RefTable
  BY DEF TypeOK
<1>3. QED
  BY <1>1, <1>2, LossKeepsCover

LEMMA DescriptorStepCovers ==
    ASSUME TypeOK, TypeOK', Covers(fds, refs), Syscall,
           \/ OpenFile \/ PipeCreate
           \/ \E f \in Fds : CloseFd(f) \/ DupFd(f)
           \/ \E f, g \in Fds : Dup2Fd(f, g)
    PROVE  Covers(fds', refs')
<1>1. fds \in FdTables /\ refs \in RefTable /\ active \in Pids
  BY SyscallCaller DEF TypeOK, FdTables
<1>2. \A f \in Fds : fds[active][f] \in FdEntry
  BY <1>1 DEF FdTables
<1>3. ASSUME OpenFile PROVE Covers(fds', refs')
  <2> DEFINE g == Lowest(FreeFds(active))
  <2>1. g \in FreeFds(active)
    BY <1>3, ScanTypes DEF OpenFile
  <2>2. fds' = [fds EXCEPT ![active][g] = FileEntry] /\ refs' = refs
    BY <1>3 DEF OpenFile
  <2> HIDE DEF g
  <2>3. FileEntry \in FdEntry /\ FileEntry.kind \notin Ends
    BY EntryTypes DEF FileEntry, Ends
  <2>4. g \in Fds /\ fds[active][g].kind \notin Ends
    BY <2>1 DEF FreeFds, Ends
  <2>5. Covers([fds EXCEPT ![active][g] = FileEntry], Acquire(refs, FileEntry))
    BY <1>1, <2>3, <2>4, AcquireKeepsCover
  <2>6. QED
    BY <2>2, <2>3, <2>5 DEF Acquire
<1>4. ASSUME NEW f \in Fds, CloseFd(f) PROVE Covers(fds', refs')
  BY <1>1, <1>4, ReleaseKeepsCover DEF CloseFd
<1>5. ASSUME NEW f \in Fds, DupFd(f) PROVE Covers(fds', refs')
  <2> DEFINE x == fds[active][f]
             g == Lowest(FreeFds(active))
  <2>1. x \in FdEntry /\ refs' = Acquire(refs, x)
    BY <1>2, <1>5 DEF DupFd
  <2>2. CASE FreeFds(active) = {}
    <3>1. fds' = fds
      BY <1>5, <2>2 DEF DupFd
    <3>2. \A i \in Pipes, e \in Ends : refs'[i][e] >= refs[i][e]
      BY <1>1, <2>1, CountAfter
    <3>3. QED
      BY <3>1, <3>2, QuietStepCovers
  <2>3. CASE FreeFds(active) # {}
    <3>1. g \in Fds /\ fds[active][g].kind \notin Ends
      BY <2>3, ScanTypes DEF FreeFds, Ends
    <3>2. fds' = [fds EXCEPT ![active][g] = x]
      BY <1>5, <2>3 DEF DupFd
    <3> HIDE DEF g
    <3>3. \E q \in Pids, h \in Fds : fds[q][h] = x
      BY <1>1
    <3> HIDE DEF x
    <3>4. QED
      BY <1>1, <2>1, <3>1, <3>2, <3>3, AcquireKeepsCover
  <2>4. QED
    BY <2>2, <2>3
<1>6. ASSUME NEW f \in Fds, NEW g \in Fds, Dup2Fd(f, g) PROVE Covers(fds', refs')
  <2> DEFINE x == fds[active][f]
             t == [fds EXCEPT ![active][g] = NoEntry]
             rc == Release(refs, fds[active][g])
  <2>1. x \in FdEntry /\ f # g /\ refs' = Acquire(rc, x) /\ fds' = [fds EXCEPT ![active][g] = x]
    BY <1>2, <1>6 DEF Dup2Fd
  <2>2. t \in FdTables /\ rc \in RefTable
    BY <1>1, <1>2, EntryTypes, TableOperationsType DEF FdTables
  <2>3. Covers(t, rc)
    BY <1>1, ReleaseKeepsCover
  <2>4. t[active][g].kind \notin Ends /\ t[active][f] = x
    BY <1>1, <2>1 DEF FdTables, NoEntry, Ends
  <2>5. fds' = [t EXCEPT ![active][g] = x]
    BY <1>1, <2>1 DEF FdTables
  <2> HIDE DEF t, rc, x
  <2>6. \E q \in Pids, h \in Fds : t[q][h] = x
    BY <1>1, <2>4
  <2>7. Covers([t EXCEPT ![active][g] = x], Acquire(rc, x))
    BY <1>1, <2>1, <2>2, <2>3, <2>4, <2>6, AcquireKeepsCover
  <2>8. QED
    BY <2>1, <2>5, <2>7
<1>7. QED
  BY <1>3, <1>4, <1>5, <1>6, CreateKeepsCover

LEMMA ProcessStepCovers ==
    ASSUME TypeOK, TypeOK', Covers(fds, refs),
           \/ NoEffect \/ Fork \/ ForkTableFull \/ ForkSpin \/ KernelFault
           \/ \E c \in TablePids : WaitEnter(c) \/ Kill(c)
           \/ ChildEnd \/ TopEnd
           \/ \E p \in StaticPids : Run(p)
           \/ RunUsertest
           \/ \E elf \in BOOLEAN : RunLoaded(elf)
           \/ UNCHANGED vars
    PROVE  Covers(fds', refs')
<1>1. fds \in FdTables /\ \A i \in Pipes, e \in Ends : refs[i][e] \in 0 .. RefMax
  BY DEF TypeOK, FdTables, RefTable
<1>2. CASE Fork
  <2>1. /\ refs' = AcquireTable(refs, active)
        /\ fds' = [fds EXCEPT ![Lowest(FreePids)] = fds[active]]
    BY <1>2 DEF Fork
  <2>2. Lowest(FreePids) \in Pids /\ active \in Pids
    BY <1>2, ScanTypes, SyscallCaller DEF Fork, FreePids, Pids
  <2>3. QED
    BY <2>1, <2>2, ForkKeepsCover
<1>3. CASE ForkTableFull
  <2>1. refs' = AcquireTable(refs, active) /\ fds' = fds
    BY <1>3 DEF ForkTableFull
  <2>2. \A i \in Pipes, e \in Ends : refs'[i][e] >= refs[i][e]
    BY <1>1, <2>1, EndCountType, RefArithmetic DEF AcquireTable
  <2>3. QED
    BY <2>1, <2>2, QuietStepCovers
<1>4. CASE \/ NoEffect \/ ForkSpin \/ KernelFault \/ ChildEnd \/ TopEnd \/ RunUsertest \/ UNCHANGED vars
           \/ \E c \in TablePids : WaitEnter(c) \/ Kill(c)
           \/ \E p \in StaticPids : Run(p)
           \/ \E elf \in BOOLEAN : RunLoaded(elf)
  <2>1. refs' = refs
    BY <1>4 DEF NoEffect, ForkSpin, KernelFault, ChildEnd, TopEnd, RunUsertest, WaitEnter, Kill, Run,
       RunLoaded, DropChild, vars
  <2>2. \A p \in Pids : fds'[p] = fds[p] \/ fds'[p] = EmptyTable
    BY <1>1, <1>4 DEF NoEffect, ForkSpin, KernelFault, ChildEnd, TopEnd, RunUsertest, WaitEnter, Kill, Run,
       RunLoaded, DropChild, vars, FdTables
  <2>3. QED
    BY <1>1, <2>1, <2>2, QuietStepCovers
<1>5. QED
  BY <1>2, <1>3, <1>4

\* No sequence of pipe, dup, dup2, fork, close, wait, kill and reloads, over any
\* number of processes, brings a count below the number of descriptors that
\* name the end, so no close frees a pipe that somebody still names.
THEOREM RefsAreSound == Spec => []RefsCoverHolders
<1>1. Init => RefsCoverHolders
  BY InitCovers, CoversIsRefsCoverHolders
<1>2. TypeOK /\ TypeOK' /\ RefsCoverHolders /\ [Next]_vars => RefsCoverHolders'
  <2> SUFFICES ASSUME TypeOK, TypeOK', RefsCoverHolders, [Next]_vars
               PROVE  RefsCoverHolders'
    OBVIOUS
  <2>1. Covers(fds, refs)
    BY CoversIsRefsCoverHolders
  <2>2. Covers(fds', refs')
    <3>1. CASE \/ OpenFile \/ PipeCreate
               \/ \E f \in Fds : CloseFd(f) \/ DupFd(f)
               \/ \E f, g \in Fds : Dup2Fd(f, g)
      <4>1. Syscall
        BY <3>1 DEF OpenFile, PipeCreate, CloseFd, DupFd, Dup2Fd
      <4>2. QED
        BY <2>1, <3>1, <4>1, DescriptorStepCovers
    <3>2. QED
      BY <2>1, <3>1, ProcessStepCovers DEF Next
  <2>3. QED
    BY <2>2 DEF Covers, RefsCoverHolders, Holders, HoldersIn
<1>3. QED
  BY <1>1, <1>2, TypeCorrect, PTL DEF Spec

-----------------------------------------------------------------------------
(* Processes implements PipeLifetime.                                      *)

\* What a step that creates no pipe has to show.
LEMMA RebindSuffices ==
    ASSUME TypeOK, TypeOK', RefsCoverHolders',
           \A i \in Pipes : Live(refs', i) => Live(refs, i),
           \A p \in Pids, f \in Fds : fds'[p][f].kind \in Ends =>
              \E q \in Pids, g \in Fds : fds[q][g] = fds'[p][f]
    PROVE  Lifetime!Rebind
<1>1. fds' \in FdTables /\ refs' \in RefTable /\ Covers(fds', refs')
  BY DEF TypeOK, FdTables, RefsCoverHolders, Covers, Holders, HoldersIn
<1>2. HeldEnds' \in [AllHandles -> (Ends \X Pipes) \cup {NoEndHeld}]
  <2>1. ASSUME NEW h \in AllHandles
        PROVE  EndOf(fds'[h[1]][h[2]]) \in (Ends \X Pipes) \cup {NoEndHeld}
    <3>1. fds'[h[1]][h[2]] \in FdEntry
      BY <1>1 DEF AllHandles, FdTables
    <3>2. QED
      BY <3>1 DEF EndOf, FdEntry
  <2>2. QED
    BY <2>1 DEF HeldEnds
<1>3. ASSUME NEW h \in AllHandles, HeldEnds'[h] # NoEndHeld
      PROVE  /\ HeldEnds'[h] \in {HeldEnds[k] : k \in AllHandles}
             /\ Live(refs', HeldEnds'[h][2])
  <2> DEFINE p == h[1]
             f == h[2]
             x == fds'[p][f]
  <2>1. p \in Pids /\ f \in Fds /\ HeldEnds'[h] = EndOf(x)
    BY DEF AllHandles, HeldEnds
  <2>2. x \in FdEntry
    BY <1>1, <2>1 DEF FdTables
  <2>3. x.kind \in Ends /\ x.pipe \in Pipes /\ x = End(x.kind, x.pipe)
    BY <1>3, <2>1, <2>2 DEF EndOf, FdEntry, End
  <2>4. PICK q \in Pids, g \in Fds : fds[q][g] = x
    BY <2>1, <2>3
  <2>5. HeldEnds[<<q, g>>] = EndOf(x) /\ <<q, g>> \in AllHandles
    BY <2>4 DEF HeldEnds, AllHandles
  <2>6. Live(refs', x.pipe)
    BY <1>1, <2>1, <2>3, HolderIsCounted
  <2>7. HeldEnds'[h] = <<x.kind, x.pipe>>
    BY <2>1, <2>3 DEF EndOf
  <2>8. HeldEnds'[h] \in {HeldEnds[k] : k \in AllHandles}
    BY <2>1, <2>5
  <2>9. QED
    BY <2>6, <2>7, <2>8
<1>4. ASSUME NEW h \in AllHandles, HeldEnds'[h] # NoEndHeld
      PROVE  HeldEnds'[h][2] \in OpenPipes'
  <2>1. HeldEnds'[h] \in Ends \X Pipes
    BY <1>2, <1>4
  <2>2. QED
    BY <1>3, <1>4, <2>1 DEF OpenPipes
<1>5. OpenPipes' \subseteq OpenPipes
  BY DEF OpenPipes
<1>6. QED
  BY <1>2, <1>3, <1>4, <1>5
     DEF Lifetime!Rebind, Lifetime!AnEnd, Lifetime!Named, Lifetime!PipesOf

\* Counting never revives a pipe.
LEMMA CountingCreatesNothing ==
    ASSUME NEW rc \in RefTable
    PROVE  /\ \A x \in FdEntry, i \in Pipes :
                 /\ Live(Acquire(rc, x), i) => Live(rc, i)
                 /\ Live(Release(rc, x), i) => Live(rc, i)
           /\ \A p : \A i \in Pipes : Live(AcquireTable(rc, p), i) => Live(rc, i)
<1>1. ASSUME NEW x \in FdEntry, NEW i \in Pipes, ~Live(rc, i)
      PROVE  ~Live(Acquire(rc, x), i) /\ ~Live(Release(rc, x), i)
  <2>1. \A e \in Ends : rc[i][e] \in 0 .. RefMax
    BY DEF RefTable
  <2>2. \A e \in Ends : Acquire(rc, x)[i][e] = rc[i][e] /\ Release(rc, x)[i][e] = rc[i][e]
    BY <1>1 DEF Acquire, Release, RefTable, FdEntry
  <2>3. QED
    BY <1>1, <2>2 DEF Live, Ends
<1>2. ASSUME NEW p, NEW i \in Pipes, ~Live(rc, i)
      PROVE  ~Live(AcquireTable(rc, p), i)
  BY <1>2 DEF AcquireTable, Live, Ends
<1>3. QED
  BY <1>1, <1>2

LEMMA DescriptorStepRebinds ==
    ASSUME TypeOK, TypeOK', RefsCoverHolders', Syscall,
           \/ OpenFile
           \/ \E f \in Fds : CloseFd(f) \/ DupFd(f)
           \/ \E f, g \in Fds : Dup2Fd(f, g)
    PROVE  Lifetime!Rebind
<1>1. fds \in FdTables /\ refs \in RefTable /\ active \in Pids
  BY SyscallCaller DEF TypeOK, FdTables
<1>2. \A f \in Fds : fds[active][f] \in FdEntry
  BY <1>1 DEF FdTables
<1>3. \A i \in Pipes : Live(refs', i) => Live(refs, i)
  <2>1. CASE OpenFile
    BY <2>1 DEF OpenFile
  <2>2. ASSUME NEW f \in Fds, CloseFd(f) \/ DupFd(f)
        PROVE  \A i \in Pipes : Live(refs', i) => Live(refs, i)
    BY <1>1, <1>2, <2>2, CountingCreatesNothing DEF CloseFd, DupFd
  <2>3. ASSUME NEW f \in Fds, NEW g \in Fds, Dup2Fd(f, g)
        PROVE  \A i \in Pipes : Live(refs', i) => Live(refs, i)
    <3>1. Release(refs, fds[active][g]) \in RefTable
      BY <1>1, <1>2, TableOperationsType
    <3>2. QED
      BY <1>1, <1>2, <2>3, <3>1, CountingCreatesNothing DEF Dup2Fd
  <2>4. QED
    BY <2>1, <2>2, <2>3
<1> DEFINE Written == {NoEntry, FileEntry} \cup {fds[active][f] : f \in Fds}
           OneSlot == \E g \in Fds : \E x \in Written : fds' = [fds EXCEPT ![active][g] = x]
<1>4. fds' = fds \/ OneSlot
  <2>1. ASSUME OpenFile PROVE OneSlot
    <3>1. Lowest(FreeFds(active)) \in Fds
      BY <2>1, ScanTypes DEF OpenFile, FreeFds
    <3>2. fds' = [fds EXCEPT ![active][Lowest(FreeFds(active))] = FileEntry]
      BY <2>1 DEF OpenFile
    <3>3. QED
      BY <3>1, <3>2
  <2>2. ASSUME NEW f \in Fds, CloseFd(f) PROVE OneSlot
    <3>1. fds' = [fds EXCEPT ![active][f] = NoEntry]
      BY <2>2 DEF CloseFd
    <3>2. QED
      BY <3>1
  <2>3. ASSUME NEW f \in Fds, DupFd(f) PROVE fds' = fds \/ OneSlot
    <3>1. CASE FreeFds(active) = {}
      BY <2>3, <3>1 DEF DupFd
    <3>2. CASE FreeFds(active) # {}
      <4>1. Lowest(FreeFds(active)) \in Fds
        BY <3>2, ScanTypes DEF FreeFds
      <4>2. fds' = [fds EXCEPT ![active][Lowest(FreeFds(active))] = fds[active][f]]
        BY <2>3, <3>2 DEF DupFd
      <4>3. QED
        BY <4>1, <4>2
    <3>3. QED
      BY <3>1, <3>2
  <2>4. ASSUME NEW f \in Fds, NEW g \in Fds, Dup2Fd(f, g) PROVE OneSlot
    <3>1. fds' = [fds EXCEPT ![active][g] = fds[active][f]]
      BY <2>4 DEF Dup2Fd
    <3>2. QED
      BY <3>1
  <2> HIDE DEF OneSlot
  <2>5. QED
    BY <2>1, <2>2, <2>3, <2>4
<1>5. ASSUME NEW p \in Pids, NEW f \in Fds, fds'[p][f].kind \in Ends
      PROVE  \E q \in Pids, g \in Fds : fds[q][g] = fds'[p][f]
  <2>1. CASE fds' = fds
    BY <2>1
  <2>2. ASSUME NEW g \in Fds, NEW x \in Written,
               fds' = [fds EXCEPT ![active][g] = x]
        PROVE  \E q \in Pids, h \in Fds : fds[q][h] = fds'[p][f]
    <3>1. fds'[p][f] = x \/ fds'[p][f] = fds[p][f]
      BY <1>1, <2>2 DEF FdTables
    <3>2. NoEntry.kind \notin Ends /\ FileEntry.kind \notin Ends
      BY DEF NoEntry, FileEntry, Ends
    <3>3. QED
      BY <1>1, <1>5, <3>1, <3>2
  <2>3. QED
    BY <1>4, <2>1, <2>2
<1>6. QED
  BY <1>3, <1>5, RebindSuffices

LEMMA ProcessStepRebinds ==
    ASSUME TypeOK, TypeOK', RefsCoverHolders',
           \/ NoEffect \/ Fork \/ ForkTableFull \/ ForkSpin \/ KernelFault
           \/ \E c \in TablePids : WaitEnter(c) \/ Kill(c)
           \/ ChildEnd \/ TopEnd
           \/ \E p \in StaticPids : Run(p)
           \/ RunUsertest
           \/ \E elf \in BOOLEAN : RunLoaded(elf)
    PROVE  Lifetime!Rebind
<1>1. fds \in FdTables /\ refs \in RefTable
  BY DEF TypeOK, FdTables
<1>2. refs' = refs \/ refs' = AcquireTable(refs, active)
  BY DEF NoEffect, Fork, ForkTableFull, ForkSpin, KernelFault, ChildEnd, TopEnd, RunUsertest, WaitEnter,
     Kill, Run, RunLoaded, DropChild
<1>3. \A i \in Pipes : Live(refs', i) => Live(refs, i)
  BY <1>1, <1>2, CountingCreatesNothing
<1>4. \A p \in Pids : \/ fds'[p] = fds[p] \/ fds'[p] = EmptyTable
                      \/ active \in Pids /\ fds'[p] = fds[active]
  <2>1. CASE Fork
    <3>1. active \in Pids
      BY <2>1, SyscallCaller DEF Fork
    <3>2. QED
      BY <1>1, <2>1, <3>1 DEF Fork, FdTables
  <2>2. CASE ~Fork
    BY <1>1, <2>2 DEF NoEffect, ForkTableFull, ForkSpin, KernelFault, ChildEnd, TopEnd, RunUsertest,
       WaitEnter, Kill, Run, RunLoaded, DropChild, FdTables
  <2>3. QED
    BY <2>1, <2>2
<1>5. ASSUME NEW p \in Pids, NEW f \in Fds, fds'[p][f].kind \in Ends
      PROVE  \E q \in Pids, g \in Fds : fds[q][g] = fds'[p][f]
  <2>1. EmptyTable[f].kind \notin Ends
    BY DEF EmptyTable, NoEntry, Ends
  <2>2. QED
    BY <1>4, <1>5, <2>1
<1>6. QED
  BY <1>3, <1>5, RebindSuffices

LEMMA CreateIsCreate ==
    ASSUME TypeOK, RefsCoverHolders, PipeCreate
    PROVE  \E i \in Pipes : Lifetime!Create(i)
<1> DEFINE j == Lowest({k \in Pipes : ~Live(refs, k)})
           r == Lowest(FreeFds(active))
           w == Lowest(FreeFds(active) \ {r})
<1>1. j \in Pipes /\ ~Live(refs, j)
  BY ScanTypes DEF PipeCreate
<1>2. r \in FreeFds(active) /\ w \in FreeFds(active) /\ r # w
  BY FreeSlotPair DEF PipeCreate
<1>3. /\ refs' = [refs EXCEPT ![j] = [e \in Ends |-> 1]]
      /\ fds' = [fds EXCEPT ![active][r] = End("read", j), ![active][w] = End("write", j)]
      /\ active \in Pids
  BY SyscallCaller DEF PipeCreate
<1>4. fds \in FdTables /\ refs \in RefTable
  BY DEF TypeOK, FdTables
<1> HIDE DEF j, r, w
<1> DEFINE hr == <<active, r>>
           hw == <<active, w>>
           k  == [h \in {hr, hw} |-> IF h = hr THEN "read" ELSE "write"]
<1>5. hr \in AllHandles /\ hw \in AllHandles /\ hr # hw
  BY <1>2, <1>3 DEF AllHandles, FreeFds
<1>6. HeldEnds[hr] = NoEndHeld /\ HeldEnds[hw] = NoEndHeld
  BY <1>2, <1>5 DEF HeldEnds, EndOf, FreeFds, Ends
<1>7. OpenPipes' = OpenPipes \cup {j}
  BY <1>1, <1>3, <1>4 DEF OpenPipes, Live, RefTable, Ends
<1>8. HeldEnds' = [h \in AllHandles |-> IF h \in {hr, hw} THEN <<k[h], j>> ELSE HeldEnds[h]]
  <2>1. ASSUME NEW h \in AllHandles
        PROVE  EndOf(fds'[h[1]][h[2]]) =
                 IF h \in {hr, hw} THEN <<k[h], j>> ELSE EndOf(fds[h[1]][h[2]])
    <3>1. h = <<h[1], h[2]>> /\ h[1] \in Pids /\ h[2] \in Fds
      BY DEF AllHandles
    <3>2. fds'[h[1]][h[2]] = IF h = hr THEN End("read", j)
                             ELSE IF h = hw THEN End("write", j) ELSE fds[h[1]][h[2]]
      BY <1>2, <1>3, <1>4, <3>1 DEF FdTables, FreeFds
    <3>3. EndOf(End("read", j)) = <<"read", j>> /\ EndOf(End("write", j)) = <<"write", j>>
      BY DEF EndOf, End, Ends
    <3>4. QED
      BY <1>5, <3>2, <3>3
  <2>2. QED
    BY <2>1 DEF HeldEnds
<1>9. k \in [{hr, hw} -> Ends] /\ k[hr] # k[hw]
  BY <1>5 DEF Ends
<1>10. j \notin OpenPipes
  BY <1>1 DEF OpenPipes
<1> HIDE DEF hr, hw, k
<1>11. Lifetime!Create(j)
  BY <1>5, <1>6, <1>7, <1>8, <1>9, <1>10 DEF Lifetime!Create
<1>12. QED
  BY <1>1, <1>11

\* Whatever processes do with their descriptors, an end reaches a slot only from
\* the pipe() that made it or from a slot that names it, and no slot ever names
\* a pipe that is gone.
THEOREM RefinesPipeLifetime == Spec => ImplementsPipeLifetime
<1>1. Init => Lifetime!Init
  <2> SUFFICES ASSUME Init PROVE Lifetime!Init
    OBVIOUS
  <2>1. OpenPipes = {}
    BY DEF Init, OpenPipes, Live, Ends
  <2>2. \A h \in AllHandles : EndOf(fds[h[1]][h[2]]) = NoEndHeld
    BY DEF Init, AllHandles, EndOf, EmptyTable, NoEntry, Ends
  <2>3. HeldEnds = [h \in AllHandles |-> NoEndHeld]
    BY <2>2 DEF HeldEnds
  <2>4. QED
    BY <2>1, <2>3 DEF Lifetime!Init
<1>2. TypeOK /\ TypeOK' /\ RefsCoverHolders /\ RefsCoverHolders' /\ [Next]_vars
        => [Lifetime!Next]_(Lifetime!vars)
  <2> SUFFICES ASSUME TypeOK, TypeOK', RefsCoverHolders, RefsCoverHolders', [Next]_vars
               PROVE  Lifetime!Next \/ UNCHANGED Lifetime!vars
    OBVIOUS
  <2>1. CASE PipeCreate
    BY <2>1, CreateIsCreate DEF Lifetime!Next
  <2>2. CASE \/ OpenFile
             \/ \E f \in Fds : CloseFd(f) \/ DupFd(f)
             \/ \E f, g \in Fds : Dup2Fd(f, g)
    <3>1. Syscall
      BY <2>2 DEF OpenFile, CloseFd, DupFd, Dup2Fd
    <3>2. QED
      BY <2>2, <3>1, DescriptorStepRebinds DEF Lifetime!Next
  <2>3. CASE UNCHANGED vars
    BY <2>3 DEF vars, Lifetime!vars, OpenPipes, HeldEnds
  <2>4. QED
    BY <2>1, <2>2, <2>3, ProcessStepRebinds DEF Next, Lifetime!Next
<1>3. QED
  BY <1>1, <1>2, TypeCorrect, RefsAreSound, PTL DEF Spec, ImplementsPipeLifetime, Lifetime!Spec

-----------------------------------------------------------------------------
(* Who may change whose descriptors.                                       *)

\* No step of one process makes a descriptor of another one name something else.
THEOREM OthersAreUntouched == Spec => OthersFdsUntouched
<1> DEFINE A == \A p \in Pids \ {active} :
                  fds'[p] # fds[p] =>
                     \/ p \notin alive
                     \/ p \notin alive'
                     \/ p = LoadedPid /\ mode = "kernel"
<1>1. TypeOK /\ [Next]_vars => [A]_vars
  <2> SUFFICES ASSUME TypeOK, Next, NEW p \in Pids \ {active}, fds'[p] # fds[p]
               PROVE  p \notin alive \/ p \notin alive' \/ (p = LoadedPid /\ mode = "kernel")
    BY DEF vars
  <2>1. fds \in FdTables
    BY DEF TypeOK, FdTables
  <2>2. CASE Fork
    <3>1. Lowest(FreePids) \notin alive
      BY <2>2, ScanTypes DEF Fork, FreePids
    <3>2. p = Lowest(FreePids)
      BY <2>1, <2>2 DEF Fork, FdTables
    <3>3. QED
      BY <3>1, <3>2
  <2>3. CASE ChildEnd \/ \E c \in TablePids : Kill(c)
    BY <2>1, <2>3 DEF ChildEnd, Kill, DropChild, FdTables
  <2>4. CASE \E elf \in BOOLEAN : RunLoaded(elf)
    BY <2>1, <2>4 DEF RunLoaded, EnterRing3, FdTables
  <2>5. CASE OpenFile \/ PipeCreate
    BY <2>1, <2>5, SyscallCaller DEF OpenFile, PipeCreate, FdTables
  <2>6. CASE \/ \E f \in Fds : CloseFd(f) \/ DupFd(f)
             \/ \E f, g \in Fds : Dup2Fd(f, g)
    BY <2>1, <2>6 DEF CloseFd, DupFd, Dup2Fd, FdTables
  <2>7. CASE \/ NoEffect \/ ForkTableFull \/ ForkSpin \/ KernelFault \/ TopEnd \/ RunUsertest
             \/ \E c \in TablePids : WaitEnter(c)
             \/ \E q \in StaticPids : Run(q)
    BY <2>7 DEF NoEffect, ForkTableFull, ForkSpin, KernelFault, TopEnd, RunUsertest, WaitEnter, Run
  <2>8. QED
    BY <2>2, <2>3, <2>4, <2>5, <2>6, <2>7 DEF Next
<1>2. QED
  BY <1>1, TypeCorrect, PTL DEF Spec, OthersFdsUntouched
=============================================================================
