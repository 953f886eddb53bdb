----------------------------- MODULE FileSystem -----------------------------
(***************************************************************************)
(* The file system on the secondary disk: src/kernel/src/fs.rs.  Nothing   *)
(* is cached: a call reads the tables it needs, decides, and then writes   *)
(* its sectors one by one, so a call is an action that leaves a list of    *)
(* sector writes and the writes are actions of their own.  The list is cut *)
(* short by a write that fails (the call returns the error) and by a loss  *)
(* of power.  Calls never overlap: they run in boot code before interrupts *)
(* are enabled, in the keyboard handler and in system calls, the last two  *)
(* with interrupts off.  A call that returns an error before its first     *)
(* write changes nothing and is no step.                                   *)
(***************************************************************************)
EXTENDS Integers, Sequences

CONSTANTS
    Name,             \* the names programs and the shell use: sequences
    NameLen,          \* NAME_LEN
    Data,             \* the contents they write: sequences of bytes
    MaxEntries,       \* MAX_ENTRIES
    SectorSize,       \* SECTOR_SIZE
    MaxFileSectors,   \* MAX_FILE_SECTORS
    PoolSize,         \* NUM_DATA_SECTORS
    MaxDepth,         \* MAX_DEPTH
    PathDepth,        \* most directories a path in use goes through
    ReadErrors        \* whether reading a sector may fail

ASSUME FileSystemAssumption ==
    /\ \A name \in Name : name \in Seq({name[i] : i \in 1 .. Len(name)})
    /\ NameLen \in Nat /\ MaxEntries \in Nat \ {0}
    /\ Data \subseteq Seq(0 .. 255)
    /\ SectorSize \in Nat \ {0} /\ MaxFileSectors \in Nat
    /\ PoolSize \in Nat /\ MaxFileSectors <= PoolSize
    /\ MaxDepth \in Nat \ {0} /\ PathDepth \in 0 .. MaxDepth
    /\ ReadErrors \in BOOLEAN

VARIABLES
    disk,      \* the sectors from DIR_LBA on
    pending,   \* the sector writes the call under way has yet to do
    request    \* that call, or Idle

vars == <<disk, pending, request>>

DIR_LBA == 1
FILE_DATA_START_LBA == 2
Lbas == DIR_LBA .. FILE_DATA_START_LBA + PoolSize - 1
NoTable == 0   \* sector 0 holds the weights
Slots == 1 .. MaxEntries

Smaller(a, b) == IF a < b THEN a ELSE b
Lowest(S) == CHOOSE s \in S : \A t \in S : s <= t

\* DirEntry and the two kinds of sector, told apart by MAGIC.
Empty == [used |-> FALSE, isDir |-> FALSE, name |-> <<>>,
          len |-> 0, start |-> 0, count |-> 0]
EmptyTable == [s \in Slots |-> Empty]
TableSector(entries) == [magic |-> TRUE, entries |-> entries]
DataSector(bytes) == [magic |-> FALSE, bytes |-> bytes]
Blank == DataSector([i \in 1 .. SectorSize |-> 0])

NameBytes(name) == SubSeq(name, 1, Smaller(Len(name), NameLen))

\* A table as a call sees it, bad being the sectors it fails to read.
LoadDir(lba, bad) ==
    IF lba \notin bad /\ disk[lba].magic THEN disk[lba].entries ELSE EmptyTable

Find(table, name) ==
    {s \in Slots : table[s].used /\ table[s].name = NameBytes(name)}
FreeSlots(table) == {s \in Slots : ~table[s].used}

Child(lba, name, bad) ==
    LET table == LoadDir(lba, bad)
        found == Find(table, name)
    IN IF found # {} /\ table[Lowest(found)].isDir
       THEN table[Lowest(found)].start
       ELSE NoTable

ResolveDir(dir, bad) ==
    LET at[i \in 0 .. Len(dir)] ==
            IF i = 0 THEN DIR_LBA
            ELSE IF at[i - 1] = NoTable THEN NoTable
            ELSE Child(at[i - 1], dir[i], bad)
    IN IF Len(dir) <= MaxDepth THEN at[Len(dir)] ELSE NoTable

Parent(path) == SubSeq(path, 1, Len(path) - 1)
Leaf(path) == path[Len(path)]

\* The tables the allocator scans: the root's and those fewer than MAX_DEPTH
\* levels below it.
Tables(depth, bad) ==
    LET at[d \in 0 .. depth] ==
            IF d = 0 THEN {DIR_LBA}
            ELSE {LoadDir(o[1], bad)[o[2]].start :
                    o \in {x \in at[d - 1] \X Slots :
                             LET e == LoadDir(x[1], bad)[x[2]]
                             IN e.used /\ e.isDir /\ e.count # 0}}
    IN UNION {at[d] : d \in 0 .. depth}

Entry(o, bad) == LoadDir(o[1], bad)[o[2]]

\* Entries that own sectors, as pairs of a table and a slot.
Owners(depth, bad) ==
    {o \in Tables(depth, bad) \X Slots :
        Entry(o, bad).used /\ Entry(o, bad).count # 0}

\* (Definitions marked "Mutant" are wrong on purpose: substituted for the one
\* that follows, each breaks a property below.)
\* Mutant: only files count as occupied.
OccupiedFiles(exclude, bad) ==
    {<<Entry(o, bad).start, Entry(o, bad).count>> :
        o \in {x \in Owners(MaxDepth - 1, bad) : ~Entry(x, bad).isDir}} \ {exclude}

\* collect_occupied removes one range equal to exclude, if there is one.
Occupied(exclude, bad) ==
    LET owners == Owners(MaxDepth - 1, bad)
        same == {o \in owners : <<Entry(o, bad).start, Entry(o, bad).count>> = exclude}
        rest == IF same = {} THEN owners ELSE owners \ {CHOOSE o \in same : TRUE}
    IN {<<Entry(o, bad).start, Entry(o, bad).count>> : o \in rest}

Overlap(r, s) == r[1] < s[1] + s[2] /\ s[1] < r[1] + r[2]

\* Mutant: one start too many.
FreeSpansPastEnd(occupied, needed) ==
    {lba \in FILE_DATA_START_LBA .. FILE_DATA_START_LBA + PoolSize - needed + 1 :
        \A r \in occupied : ~Overlap(<<lba, needed>>, r)}

FreeSpans(occupied, needed) ==
    {lba \in FILE_DATA_START_LBA .. FILE_DATA_START_LBA + PoolSize - needed :
        \A r \in occupied : ~Overlap(<<lba, needed>>, r)}

Save(lba, entries) == [lba |-> lba, sector |-> TableSector(entries)]

\* The i-th sector of a file's data, filled up with zeros.
Block(data, i) ==
    DataSector([b \in 1 .. SectorSize |->
                    IF (i - 1) * SectorSize + b <= Len(data)
                    THEN data[(i - 1) * SectorSize + b] ELSE 0])

\* Mutant: the entry first.
EntryFirst(sectors, table) == <<table>> \o sectors

\* The new sectors first, then the table that names them.
SectorsFirst(sectors, table) == Append(sectors, table)

Idle == [op |-> "idle"]

\* Which sectors the two passes over the tables of one call fail to read.
BadSectors == IF ReadErrors THEN SUBSET Lbas ELSE {{}}

Begin(call, writes) ==
    /\ pending = <<>>
    /\ request' = call /\ pending' = writes
    /\ UNCHANGED disk

MakeDir(path, bad, badScan) ==
    LET lba == ResolveDir(Parent(path), bad)
        table == LoadDir(lba, bad)
        spans == FreeSpans(Occupied(<<>>, badScan), 1)
        entry == [used |-> TRUE, isDir |-> TRUE, name |-> NameBytes(Leaf(path)),
                  len |-> 0, start |-> Lowest(spans), count |-> 1]
    IN /\ lba # NoTable
       /\ Find(table, Leaf(path)) = {} /\ FreeSlots(table) # {} /\ spans # {}
       /\ Begin([op |-> "mkdir", path |-> path],
                SectorsFirst(<<Save(entry.start, EmptyTable)>>,
                             Save(lba, [table EXCEPT ![Lowest(FreeSlots(table))] = entry])))

WriteFile(path, data, bad, badScan) ==
    LET lba == ResolveDir(Parent(path), bad)
        table == LoadDir(lba, bad)
        existing == Find(table, Leaf(path))
        candidates == IF existing # {} THEN existing ELSE FreeSlots(table)
        old == table[Lowest(candidates)]
        needed == (Len(data) + SectorSize - 1) \div SectorSize
        exclude == IF old.used THEN <<old.start, old.count>> ELSE <<>>
        spans == IF needed = 0 THEN {0} ELSE FreeSpans(Occupied(exclude, badScan), needed)
        entry == [used |-> TRUE, isDir |-> FALSE, name |-> NameBytes(Leaf(path)),
                  len |-> Len(data), start |-> Lowest(spans), count |-> needed]
    IN /\ Len(data) <= MaxFileSectors * SectorSize
       /\ lba # NoTable
       /\ candidates # {} /\ ~(old.used /\ old.isDir) /\ spans # {}
       /\ Begin([op |-> "write", path |-> path, data |-> data],
                SectorsFirst([i \in 1 .. needed |-> [lba |-> entry.start + i - 1,
                                                     sector |-> Block(data, i)]],
                             Save(lba, [table EXCEPT ![Lowest(candidates)] = entry])))

DeleteFile(path, bad) ==
    LET lba == ResolveDir(Parent(path), bad)
        table == LoadDir(lba, bad)
        found == Find(table, Leaf(path))
    IN /\ lba # NoTable /\ found # {}
       /\ ~table[Lowest(found)].isDir
       /\ Begin([op |-> "rm", path |-> path],
                <<Save(lba, [table EXCEPT ![Lowest(found)] = Empty])>>)

RemoveDir(path, bad) ==
    LET lba == ResolveDir(Parent(path), bad)
        table == LoadDir(lba, bad)
        found == Find(table, Leaf(path))
        entry == table[Lowest(found)]
    IN /\ lba # NoTable /\ found # {}
       /\ entry.isDir
       /\ \A s \in Slots : ~LoadDir(entry.start, bad)[s].used
       /\ Begin([op |-> "rmdir", path |-> path],
                <<Save(lba, [table EXCEPT ![Lowest(found)] = Empty])>>)

\* write_sector of the next sector succeeds.
WriteSector ==
    /\ pending # <<>>
    /\ disk' = [disk EXCEPT ![Head(pending).lba] = Head(pending).sector]
    /\ pending' = Tail(pending)
    /\ request' = IF Tail(pending) = <<>> THEN Idle ELSE request

\* It fails before it transfers data, or the machine stops before it does: what
\* remains is not written.
Interrupted ==
    /\ pending # <<>>
    /\ pending' = <<>> /\ request' = Idle
    /\ UNCHANGED disk

Paths == UNION {[1 .. n -> Name] : n \in 1 .. PathDepth + 1}

Init ==
    /\ disk = [lba \in Lbas |-> Blank]
    /\ pending = <<>> /\ request = Idle

Next ==
    \/ \E path \in Paths, bad \in BadSectors, badScan \in BadSectors :
          \/ MakeDir(path, bad, badScan)
          \/ \E data \in Data : WriteFile(path, data, bad, badScan)
    \/ \E path \in Paths, bad \in BadSectors :
          DeleteFile(path, bad) \/ RemoveDir(path, bad)
    \/ WriteSector
    \/ Interrupted

Spec == Init /\ [][Next]_vars

-----------------------------------------------------------------------------

\* Entries reachable from the root, down to the deepest directory there can be.
Reachable == Owners(PathDepth + 1, {})

EntryOK(e) ==
    /\ e.used => e.count \in 0 .. MaxFileSectors \cup {1}
    /\ e.used /\ e.count # 0 => e.start \in Lbas /\ e.start + e.count - 1 \in Lbas
    /\ e.used /\ e.isDir => e.count = 1
    /\ e.used /\ ~e.isDir => e.len <= e.count * SectorSize

SectorOK(s) == s.magic => \A i \in Slots : EntryOK(s.entries[i])

TypeOK ==
    /\ DOMAIN disk = Lbas
    /\ \A lba \in Lbas : SectorOK(disk[lba])
    /\ \A i \in 1 .. Len(pending) : pending[i].lba \in Lbas /\ SectorOK(pending[i].sector)
    /\ (pending = <<>>) = (request = Idle)

\* No sector is handed out twice: the files and directories reachable from the
\* root are kept in different sectors, none of them the root's own, also after
\* calls that were interrupted and deletions whose sectors were used again
\* (collect_occupied and find_free_span).
SectorsBelongToOne ==
    /\ \A o, p \in Reachable : o # p =>
          ~Overlap(<<Entry(o, {}).start, Entry(o, {}).count>>,
                   <<Entry(p, {}).start, Entry(p, {}).count>>)
    /\ \A o \in Reachable : Entry(o, {}).start > DIR_LBA

\* The refinement mapping: the tree that paths and read_file show.
Key(path) == [i \in 1 .. Len(path) |-> NameBytes(path[i])]

\* read_file on an entry.
Contents(e) ==
    [b \in 1 .. e.len |->
        disk[e.start + (b - 1) \div SectorSize].bytes[((b - 1) % SectorSize) + 1]]

\* What Find finds in a table under each name in use.
Visible(table) ==
    {table[s] : s \in {r \in Slots : /\ table[r].used
                                     /\ r = Lowest(Find(table, table[r].name))}}

Below(path, lba) ==
    {[path |-> Append(path, e.name), entry |-> e] : e \in Visible(LoadDir(lba, {}))}

Found ==
    LET at[d \in 0 .. PathDepth] ==
            IF d = 0 THEN Below(<<>>, DIR_LBA)
            ELSE UNION {Below(f.path, f.entry.start) : f \in {g \in at[d - 1] : g.entry.isDir}}
    IN UNION {at[d] : d \in 0 .. PathDepth}

Tree ==
    {[path |-> f.path, isDir |-> f.entry.isDir,
      data |-> IF f.entry.isDir THEN <<>> ELSE Contents(f.entry)] : f \in Found}

CallOf == IF request = Idle THEN Idle ELSE [request EXCEPT !.path = Key(@)]

Files == INSTANCE FileTree
    WITH tree <- Tree, request <- CallOf, Path <- {Key(path) : path \in Paths}

\* The disk is a tree of named files: a call takes effect when its last sector
\* is written, as a whole, an interrupted one not at all, no call changes a file
\* or directory it does not name, and only a file that is itself being
\* overwritten can be left with a mixture of old and new contents.
ImplementsTree == Files!Spec
=============================================================================
