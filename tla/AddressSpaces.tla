--------------------------- MODULE AddressSpaces ---------------------------
(***************************************************************************)
(* Address spaces of processes (process.rs, memory.rs, loader.rs): how     *)
(* they are built from an image or an ELF file out of frames that are      *)
(* never given back, copied by fork, overwritten by exec, and written by   *)
(* the programs that run in them.  Next to the memory of the machine a     *)
(* history variable keeps what each process should see in its own: the     *)
(* contents of its file laid out as its headers say, and after that what   *)
(* it has stored itself.                                                   *)
(* Memory is counted in words.  Of the user's range of addresses there are *)
(* pages for the program, one for the stack and some for the heap; what    *)
(* lies above belongs to the kernel, and what lies above that is no        *)
(* address at all (not canonical).                                         *)
(***************************************************************************)
EXTENDS ElfFile, FiniteSets

CONSTANTS PageWords,       \* PAGE_SIZE
          CodePage,        \* the page of USER_CODE_ADDR
          StackPage,       \* the page of USER_STACK_ADDR
          HeapStart, HeapCount, \* the page of HEAP_START, and how many there are
          TableSpan,       \* how many pages a lowest page table maps
          UserPages,       \* pages below this one share the private PML4 entry
          CanonicalPages,  \* pages below this one have canonical addresses
          MaxSegmentPages, MaxElfPages, \* MAX_PAGES_PER_ELF_SEGMENT, MAX_TOTAL_ELF_PAGES
          NFrames,         \* usable frames of the machine
          Images, ElfFiles,  \* the files there are, plain images and ELF files
          MaxStores        \* bound: stores of programs

HeapPages == HeapStart..HeapStart + HeapCount - 1

ASSUME AddressAssumption ==
  /\ {PageWords, TableSpan, NFrames} \subseteq Nat \ {0}
  /\ {CodePage, StackPage, HeapStart, HeapCount} \subseteq Nat
  /\ {UserPages, CanonicalPages, MaxSegmentPages, MaxElfPages, MaxStores} \subseteq Nat
  /\ CodePage # StackPage /\ {CodePage, StackPage} \cap HeapPages = {}
  /\ \A p \in HeapPages \cup {CodePage, StackPage} : p < UserPages
  /\ UserPages < CanonicalPages
  /\ Images \subseteq Seq(Nat) /\ ElfFiles \subseteq ElfFileType

VARIABLES
  nextFrame, \* next, how many frames have been handed out
  mem,       \* the contents of every frame
  pages,     \* the page table of each process: page -> frame; <<>> if there is no process
  childOf,   \* parent_pid of the child
  running,   \* the processes in ring 3, a waiting parent below its child
  allocLock, \* runelf holds the frame allocator for as long as the program runs
  halted,    \* the kernel has panicked, or spins
  stores,    \* stores so far, for the bound
  expected,  \* history: what each process should see on each of its pages
  lastLoad   \* history: the last load of an ELF file

spaceVars == <<nextFrame, mem, pages, childOf, running, allocLock, halted, stores,
               expected, lastLoad>>

Boot == "boot"      \* a process made at boot, as PROCESS_A
Loaded == "loaded"  \* LOADED_PROCESS
Child == "child"    \* the entry of PROCESS_TABLE (one, its being full is the same for more)
Slots == {Boot, Loaded, Child}

NoPages == <<>>
Zeros == [i \in 1..PageWords |-> 0]
AsFound == [i \in 1..PageWords |-> 99]   \* what memory holds before the kernel uses it

Padded(image) == [i \in 1..PageWords |-> IF i <= Len(image) THEN image[i] ELSE 0]

SpacesInit ==
  /\ nextFrame = 0 /\ mem = [f \in 1..NFrames |-> AsFound]
  /\ pages = [s \in Slots |-> NoPages] /\ childOf = Boot
  /\ running = <<>> /\ allocLock = FALSE
  /\ halted = "no" /\ stores = 0
  /\ expected = [s \in Slots |-> NoPages]
  /\ lastLoad = [result |-> "none", valid |-> FALSE, canonical |-> TRUE, enough |-> TRUE]

----------------------------------------------------------------------------
(* Building an address space.  A build is a record: the frames handed out, *)
(* the memory, the page table, and whether no step has failed.             *)

\* allocate_frame, n times.
Take(build, n) ==
  IF build.next + n <= NFrames THEN [build EXCEPT !.next = @ + n]
  ELSE [build EXCEPT !.next = NFrames, !.ok = FALSE]

\* Tables map_to needs for a page: the two levels under the PML4 entry, which the first page
\* brings, and the lowest, which the first page of its span does.
TablesFor(table, page) ==
  (IF DOMAIN table = {} THEN 2 ELSE 0)
  + (IF \E p \in DOMAIN table : p \div TableSpan = page \div TableSpan THEN 0 ELSE 1)

With(table, page, frame) ==
  [p \in DOMAIN table \cup {page} |-> IF p = page THEN frame ELSE table[p]]

\* A new frame for a page, with its contents; map_to fails on a page that is mapped already.
\* After a failure nothing more happens, and the frames taken so far stay taken.
Put(build, page, words) ==
  LET framed == Take(build, 1)
      tabled == Take(framed, TablesFor(build.table, page))
  IN IF ~build.ok THEN build
     ELSE IF ~framed.ok \/ page \in DOMAIN build.table THEN [framed EXCEPT !.ok = FALSE]
     ELSE IF ~tabled.ok THEN tabled
     ELSE [tabled EXCEPT !.table = With(@, page, framed.next), !.mem[framed.next] = words]

\* The pages of a list, one after the other.
PutAll(build, list) ==
  LET after[i \in 0..Len(list)] ==
        IF i = 0 THEN build ELSE Put(after[i - 1], list[i].page, list[i].words)
  IN after[Len(list)]

\* The stack's frame keeps the contents it is found with.
StackAndHeap ==
  [i \in 1..HeapCount + 1 |-> IF i = 1 THEN [page |-> StackPage, words |-> AsFound]
                             ELSE [page |-> HeapStart + i - 2, words |-> Zeros]]

\* With a frame for the PML4, whose entries but the user's are those of the kernel.
NewBuild == Take([next |-> nextFrame, mem |-> mem, table |-> NoPages, ok |-> TRUE], 1)

\* create_process_from_image.
FromImage(image) ==
  IF Len(image) > PageWords
  THEN [next |-> nextFrame, mem |-> mem, table |-> NoPages, ok |-> FALSE]
  ELSE PutAll(Put(NewBuild, CodePage, Padded(image)), StackAndHeap)

PageCount(header) == (header.memsz + PageWords - 1) \div PageWords   \* div_ceil

PagesOf(header) ==
  [i \in 1..PageCount(header) |-> (header.vaddr \div PageWords) + i - 1]

\* Mutant: every page of a segment starts at the segment's place in the file.
PageWordsOfSame(file, header, i) ==
  [w \in 1..PageWords |-> IF w <= header.filesz - (i - 1) * PageWords
                          THEN file.words[header.offset + w] ELSE 0]

\* The contents of the i-th page of a segment: what of its file range falls into it, then zeros.
PageWordsOf(file, header, i) ==
  [w \in 1..PageWords |-> IF w <= header.filesz - (i - 1) * PageWords
                          THEN file.words[header.offset + (i - 1) * PageWords + w] ELSE 0]

SegmentPages(file, header) ==
  [i \in 1..PageCount(header) |-> [page |-> PagesOf(header)[i],
                                  words |-> PageWordsOf(file, header, i)]]

PutSegments(build, file) ==
  LET headers == LoadHeaders(file)
      after[i \in 0..Len(headers)] ==
        IF i = 0 THEN build ELSE PutAll(after[i - 1], SegmentPages(file, headers[i]))
  IN after[Len(headers)]

Covers(header, address) == header.vaddr <= address /\ address < header.vaddr + header.memsz

EntryAddress == CodePage * PageWords

TotalPages(headers) ==
  LET upTo[i \in 0..Len(headers)] == IF i = 0 THEN 0 ELSE upTo[i - 1] + PageCount(headers[i])
  IN upTo[Len(headers)]

\* A segment the checks refuse before they look at the addresses of its pages.
BadShape(header) ==
  header.vaddr % PageWords # 0 \/ header.memsz = 0 \/ PageCount(header) > MaxSegmentPages

\* VirtAddr::new panics on the first page that is not canonical, if no check refused before it.
Panics(file) ==
  LET headers == LoadHeaders(file)
      HasBad(h) == BadShape(h) \/ \E p \in ToSet(PagesOf(h)) : p >= UserPages
      NotCanonical(h) == ~BadShape(h) /\ PagesOf(h)[1] >= CanonicalPages
  IN /\ Parses(file) /\ file.entry = EntryAddress
     /\ \E h \in ToSet(headers) : Covers(h, file.entry)
     /\ \E i \in DOMAIN headers :
          NotCanonical(headers[i]) /\ \A j \in 1..i - 1 : ~HasBad(headers[j])

\* Mutant: the pages of all segments together are not counted.
AcceptedAnyTotal(file) ==
  LET headers == LoadHeaders(file)
  IN /\ Parses(file) /\ file.entry = EntryAddress
     /\ \E h \in ToSet(headers) : Covers(h, file.entry)
     /\ \A h \in ToSet(headers) : ~BadShape(h) /\ \A p \in ToSet(PagesOf(h)) : p < UserPages

\* Every check of create_process_from_elf passes.
Accepted(file) ==
  LET headers == LoadHeaders(file)
  IN /\ Parses(file) /\ file.entry = EntryAddress
     /\ \E h \in ToSet(headers) : Covers(h, file.entry)
     /\ \A h \in ToSet(headers) : ~BadShape(h) /\ \A p \in ToSet(PagesOf(h)) : p < UserPages
     /\ TotalPages(headers) <= MaxElfPages

FromElf(file) == PutAll(PutSegments(NewBuild, file), StackAndHeap)

----------------------------------------------------------------------------
(* What a process should see.                                              *)

KnownPages == {CodePage, StackPage} \cup HeapPages

ImageExpected(image) ==
  [p \in KnownPages |-> CASE p = CodePage -> Padded(image) [] p = StackPage -> AsFound
                          [] OTHER -> Zeros]

\* Of an ELF file: at each address the word of the file its segment puts there, or zero.
ElfPages(file) == UNION {ToSet(PagesOf(h)) : h \in ToSet(LoadHeaders(file))}

ElfWord(file, address) ==
  LET owner == CHOOSE h \in ToSet(LoadHeaders(file)) :
                 address \div PageWords \in ToSet(PagesOf(h))
      at == address - owner.vaddr
  IN IF at < owner.filesz THEN file.words[owner.offset + at + 1] ELSE 0

ElfExpected(file) ==
  [p \in ElfPages(file) \cup {StackPage} \cup HeapPages |->
     IF p \in ElfPages(file) THEN [w \in 1..PageWords |-> ElfWord(file, p * PageWords + w - 1)]
     ELSE IF p = StackPage THEN AsFound ELSE Zeros]

Disjoint(file) ==
  /\ Cardinality(ElfPages(file)) = TotalPages(LoadHeaders(file))
  /\ ElfPages(file) \cap ({StackPage} \cup HeapPages) = {}

\* What the doc comments of the loader and of parse ask of a file.
ValidElf(file) ==
  /\ file.header /\ file.tableFits /\ file.entry = EntryAddress
  /\ LET loads == {h \in ToSet(file.table) : h.type = Load}
     IN /\ Len(LoadHeaders(file)) <= MaxLoadSegments
        /\ \E h \in loads : Covers(h, file.entry)
        /\ \A h \in loads :
             /\ h.filesz <= h.memsz /\ h.memsz > 0 /\ h.offset + h.filesz <= Len(file.words)
             /\ h.vaddr % PageWords = 0 /\ h.vaddr + h.memsz <= UserPages * PageWords
             /\ h.memsz <= MaxSegmentPages * PageWords
        /\ TotalPages(LoadHeaders(file)) <= MaxElfPages
  /\ Disjoint(file)

Spans(ps) == {p \div TableSpan : p \in ps}

\* The PML4, two tables under it, a table for each span, and the pages.
FramesFor(file) ==
  LET all == ElfPages(file) \cup {StackPage} \cup HeapPages
  IN 3 + Cardinality(Spans(all)) + Cardinality(all)

----------------------------------------------------------------------------
Up == halted = "no"
AtShell == Up /\ running = <<>>
Runner == running[Len(running)]
InProgram == Up /\ running # <<>>

\* A build that succeeded becomes the process in slot s; a failed one only costs its frames.
Install(s, build, sees) ==
  /\ nextFrame' = build.next
  /\ IF build.ok
     THEN /\ mem' = build.mem
          /\ pages' = [pages EXCEPT ![s] = build.table]
          /\ expected' = [expected EXCEPT ![s] = sees]
     ELSE /\ mem' = build.mem
          /\ UNCHANGED <<pages, expected>>

\* init_test_processes, at boot.
CreateAtBoot(image) ==
  /\ nextFrame = 0
  /\ Install(Boot, FromImage(image), ImageExpected(image))
  /\ UNCHANGED <<childOf, running, allocLock, halted, stores, lastLoad>>

\* run: runproc for a process made at boot.
RunBoot ==
  /\ AtShell /\ pages[Boot] # NoPages
  /\ running' = <<Boot>>
  /\ UNCHANGED <<nextFrame, mem, pages, childOf, allocLock, halted, stores, expected, lastLoad>>

\* run_file: create_loaded_process under the allocator's lock, run_loaded_process after it.
RunFile(image) ==
  /\ AtShell /\ pages[Boot] # NoPages
  /\ Install(Loaded, FromImage(image), ImageExpected(image))
  /\ running' = IF FromImage(image).ok THEN <<Loaded>> ELSE <<>>
  /\ UNCHANGED <<childOf, allocLock, halted, stores, lastLoad>>

\* run_elf: parse, then load_and_run_elf under the allocator's lock.
RunElf(file) ==
  /\ AtShell /\ pages[Boot] # NoPages
  /\ LET loads == Accepted(file) /\ FromElf(file).ok
     IN /\ lastLoad' = [result |-> IF loads THEN "loaded" ELSE IF Panics(file) THEN "panic"
                                   ELSE "refused",
                        valid |-> ValidElf(file),
                        canonical |-> \A h \in ToSet(LoadHeaders(file)) :
                                        h.vaddr < CanonicalPages * PageWords,
                        enough |-> nextFrame + FramesFor(file) <= NFrames]
        /\ running' = IF loads THEN <<Loaded>> ELSE <<>>
        /\ allocLock' = loads
  /\ halted' = IF Panics(file) THEN "panic" ELSE halted
  /\ IF Accepted(file) THEN Install(Loaded, FromElf(file), ElfExpected(file))
     ELSE UNCHANGED <<nextFrame, mem, pages, expected>>
  /\ UNCHANGED <<childOf, stores>>

\* The program stores a word on one of its pages.
Store(page, w) ==
  /\ InProgram /\ stores < MaxStores
  /\ page \in DOMAIN pages[Runner]
  /\ stores' = stores + 1
  /\ mem' = [mem EXCEPT ![pages[Runner][page]][w] = 50 + stores']
  /\ expected' = [expected EXCEPT ![Runner][page][w] = 50 + stores']
  /\ UNCHANGED <<nextFrame, pages, childOf, running, allocLock, halted, lastLoad>>

\* exec_process: the code frame is overwritten in place, all else is kept.
Exec(image) ==
  /\ InProgram /\ Len(image) <= PageWords
  /\ mem' = [mem EXCEPT ![pages[Runner][CodePage]] = Padded(image)]
  /\ expected' = [expected EXCEPT ![Runner][CodePage] = Padded(image)]
  /\ UNCHANGED <<nextFrame, pages, childOf, running, allocLock, halted, stores, lastLoad>>

\* The bytes of the stack and of the heap are copied over.
CopyKnown(build, table) ==
  LET Copied == {StackPage} \cup HeapPages
  IN [build EXCEPT !.mem = [f \in DOMAIN @ |->
        IF \E p \in Copied : build.table[p] = f
        THEN mem[table[CHOOSE p \in Copied : build.table[p] = f]] ELSE @[f]]]

\* fork_build_child: from the parent's code frame, stack and heap.
ForkBuild(s) ==
  LET build == FromImage(mem[pages[s][CodePage]])
  IN IF build.ok THEN CopyKnown(build, pages[s]) ELSE build

\* fork of a program that is not a child.  If the table is full the child is built and dropped.
Fork ==
  /\ InProgram /\ Len(running) = 1 /\ ~allocLock
  /\ IF pages[Child] = NoPages
     THEN /\ Install(Child, ForkBuild(Runner), [p \in KnownPages |-> expected[Runner][p]])
          /\ childOf' = IF ForkBuild(Runner).ok THEN Runner ELSE childOf
     ELSE /\ nextFrame' = ForkBuild(Runner).next /\ mem' = ForkBuild(Runner).mem
          /\ UNCHANGED <<pages, expected, childOf>>
  /\ UNCHANGED <<running, allocLock, halted, stores, lastLoad>>

\* with_frame_allocator spins on the lock runelf holds.
ForkUnderRunElf ==
  /\ InProgram /\ Len(running) = 1 /\ allocLock
  /\ halted' = "spinning"
  /\ UNCHANGED <<nextFrame, mem, pages, childOf, running, allocLock, stores, expected, lastLoad>>

\* wait_for_child runs the child.
WaitForChild ==
  /\ InProgram /\ Len(running) = 1 /\ pages[Child] # NoPages /\ childOf = Runner
  /\ running' = Append(running, Child)
  /\ UNCHANGED <<nextFrame, mem, pages, childOf, allocLock, halted, stores, expected, lastLoad>>

\* kill of a child that has not run: its entry is emptied, its frames are lost.
KillChild ==
  /\ InProgram /\ Len(running) = 1 /\ pages[Child] # NoPages /\ childOf = Runner
  /\ pages' = [pages EXCEPT ![Child] = NoPages]
  /\ expected' = [expected EXCEPT ![Child] = NoPages]
  /\ UNCHANGED <<nextFrame, mem, childOf, running, allocLock, halted, stores, lastLoad>>

\* exit, or a page fault: of a child, whose entry is emptied, or of the program the shell ran.
Ends ==
  /\ InProgram
  /\ running' = SubSeq(running, 1, Len(running) - 1)
  /\ allocLock' = FALSE
  /\ IF Runner = Child
     THEN /\ pages' = [pages EXCEPT ![Child] = NoPages]
          /\ expected' = [expected EXCEPT ![Child] = NoPages]
     ELSE UNCHANGED <<pages, expected>>
  /\ UNCHANGED <<nextFrame, mem, childOf, halted, stores, lastLoad>>

SpacesHalted == ~Up /\ UNCHANGED spaceVars

SpacesNext ==
  \/ \E image \in Images : CreateAtBoot(image) \/ RunFile(image) \/ Exec(image)
  \/ \E file \in ElfFiles : RunElf(file)
  \/ RunBoot \/ Fork \/ ForkUnderRunElf \/ WaitForChild \/ KillChild \/ Ends
  \/ \E page \in 0..UserPages - 1, w \in 1..PageWords : Store(page, w)
  \/ SpacesHalted

SpacesSpec == SpacesInit /\ [][SpacesNext]_spaceVars

----------------------------------------------------------------------------
SpacesTypeOK ==
  /\ nextFrame \in 0..NFrames
  /\ \A f \in 1..NFrames : Len(mem[f]) = PageWords
  /\ \A s \in Slots : \A p \in DOMAIN pages[s] : p < UserPages /\ pages[s][p] \in 1..nextFrame
  /\ childOf \in Slots
  /\ Len(running) <= 2 /\ allocLock \in BOOLEAN /\ halted \in {"no", "panic", "spinning"}
  /\ stores \in 0..MaxStores

\* Every process has its memory to itself, and it holds what it should: the image or the segments
\* of its file in their places and zeros elsewhere, for a forked child a copy of its parent's code,
\* stack and heap, and then what the process has stored; whatever processes are loaded, forked,
\* replaced, overwritten by exec or run in between, and also after loads and forks that failed
\* half-way.  (The pages an ELF file has besides that of its entry are not copied; its program
\* cannot fork, see ForkUnderRunElf.)
MemoryIsPrivate ==
  \A s \in Slots :
    /\ DOMAIN pages[s] = DOMAIN expected[s]
    /\ \A p \in DOMAIN pages[s] : mem[pages[s][p]] = expected[s][p]

\* runelf loads a file exactly when it is valid and there are frames for it (process.rs:1656-1688,
\* elf.rs:100-126); it panics only on an address that is not canonical (process.rs:1755).
LoadsExactlyWhatIsValid ==
  /\ lastLoad.result = "loaded" <=> lastLoad.valid /\ lastLoad.enough
  /\ lastLoad.result = "panic" => ~lastLoad.canonical
=============================================================================
