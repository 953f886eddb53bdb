------------------------- MODULE FileSystemProofs -------------------------
(***************************************************************************)
(* Proofs about FileSystem, for every size of the disk and of its tables:  *)
(* types; and, where directories do not nest as deep as the allocator      *)
(* scans and no read fails, that no sector is handed out twice and that    *)
(* the disk implements the tree of named files of FileTree.                *)
(***************************************************************************)
EXTENDS FileSystem, FiniteSetTheorems, WellFoundedInduction, SequenceTheorems, TLAPS

(* Numbers and recursion.                                                  *)

LEMMA LowestIsLeast ==
    ASSUME NEW S \in SUBSET Nat, S # {}
    PROVE  Lowest(S) \in S /\ \A y \in S : Lowest(S) <= y
<1> DEFINE UpTo(x) == 0 .. x - 1
           T == {UpTo(x) : x \in S}
<1>1. T \subseteq FiniteSubsetsOf(Nat)
  <2>1. ASSUME NEW x \in S PROVE UpTo(x) \subseteq Nat /\ IsFiniteSet(UpTo(x))
    BY FS_Interval
  <2>2. QED
    BY <2>1 DEF FiniteSubsetsOf
<1>2. PICK t \in T : \A u \in T : <<u, t>> \notin StrictSubsetOrdering(Nat)
  <2>1. T # {}
    OBVIOUS
  <2>2. IsWellFoundedOn(StrictSubsetOrdering(Nat), FiniteSubsetsOf(Nat))
    BY FS_StrictSubsetOrderingWellFounded
  <2>3. QED
    BY <1>1, <2>1, <2>2, WFMin
<1>3. PICK x \in S : t = UpTo(x)
  OBVIOUS
<1>4. ASSUME NEW y \in S PROVE x <= y
  <2>1. SUFFICES ASSUME y < x PROVE FALSE
    OBVIOUS
  <2>2. UpTo(y) \subseteq UpTo(x) /\ y \in UpTo(x) /\ y \notin UpTo(y)
    BY <2>1
  <2>3. <<UpTo(y), UpTo(x)>> \in StrictSubsetOrdering(Nat)
    BY <2>2 DEF StrictSubsetOrdering
  <2>4. QED
    BY <1>2, <1>3, <2>3
<1>5. QED
  BY <1>4 DEF Lowest

\* Induction on a number, for a property given as a set.
LEMMA SetInduction ==
    ASSUME NEW S, 0 \in S, \A n \in Nat : n \in S => n + 1 \in S
    PROVE  Nat \subseteq S
<1> DEFINE Bad == Nat \ S
           m == Lowest(Bad)
<1>1. SUFFICES ASSUME Bad # {} PROVE FALSE
  OBVIOUS
<1>2. m \in Bad /\ \A y \in Bad : m <= y
  BY <1>1, LowestIsLeast
<1> HIDE DEF m
<1>3. m - 1 \in Nat /\ m - 1 \notin Bad
  BY <1>2
<1>4. QED
  BY <1>2, <1>3

\* f follows the rule G from a for n steps.
Follows(f, a, G, n, R) ==
    f \in [0 .. n -> R] /\ f[0] = a /\ \A i \in 1 .. n : f[i] = G[<<i, f[i - 1]>>]

LEMMA StepwiseFunction ==
    ASSUME NEW R, NEW a \in R, NEW G \in [Nat \X R -> R], NEW n \in Nat
    PROVE  \E f : Follows(f, a, G, n, R)
<1> DEFINE S == {m \in Nat : \E f : Follows(f, a, G, m, R)}
<1>1. 0 \in S
  <2>1. Follows([i \in 0 .. 0 |-> a], a, G, 0, R)
    BY DEF Follows
  <2>2. QED
    BY <2>1
<1>2. ASSUME NEW m \in Nat, m \in S PROVE m + 1 \in S
  <2>1. PICK f : Follows(f, a, G, m, R)
    BY <1>2
  <2> DEFINE g == [i \in 0 .. m + 1 |-> IF i = m + 1 THEN G[<<m + 1, f[m]>>] ELSE f[i]]
  <2>2. G[<<m + 1, f[m]>>] \in R
    BY <2>1 DEF Follows
  <2>3. g \in [0 .. m + 1 -> R]
    BY <2>1, <2>2 DEF Follows
  <2>4. g[m + 1] = G[<<m + 1, f[m]>>] /\ \A j \in 0 .. m : g[j] = f[j]
    OBVIOUS
  <2> HIDE DEF g
  <2>5. ASSUME NEW i \in 1 .. m + 1 PROVE g[i] = G[<<i, g[i - 1]>>]
    <3>1. CASE i = m + 1
      <4>1. i - 1 = m /\ g[m] = f[m]
        BY <2>4, <3>1
      <4>2. QED
        BY <2>4, <3>1, <4>1
    <3>2. CASE i # m + 1
      <4>1. i \in 1 .. m /\ i \in 0 .. m /\ i - 1 \in 0 .. m
        BY <3>2
      <4>2. g[i] = f[i] /\ g[i - 1] = f[i - 1]
        BY <2>4, <4>1
      <4>3. QED
        BY <2>1, <4>1, <4>2 DEF Follows
    <3>3. QED
      BY <3>1, <3>2
  <2>6. Follows(g, a, G, m + 1, R)
    <3>1. g[0] = a
      BY <2>1, <2>4 DEF Follows
    <3>2. QED
      BY <2>3, <2>5, <3>1 DEF Follows
  <2>7. QED
    BY <2>6
<1>3. Nat \subseteq S
  BY <1>1, <1>2, SetInduction
<1>4. QED
  BY <1>3

\* How many sectors of k bytes hold n bytes.
LEMMA SectorsFor ==
    ASSUME NEW n \in Nat, NEW k \in Nat \ {0}, NEW m \in Nat, n <= m * k
    PROVE  LET q == (n + k - 1) \div k IN q \in 0 .. m /\ n <= q * k
<1> DEFINE q == (n + k - 1) \div k
           r == (n + k - 1) % k
<1>1. q \in Int /\ r \in 0 .. k - 1 /\ n + k - 1 = k * q + r
  OBVIOUS
<1> HIDE DEF q, r
<1>2. n <= q * k
  BY <1>1
<1>3. q >= 0
  <2>1. SUFFICES ASSUME q <= -1 PROVE FALSE
    BY <1>1
  <2>2. k * q <= k * (-1)
    BY <1>1, <2>1
  <2>3. QED
    BY <1>1, <2>2
<1>4. q <= m
  <2>1. SUFFICES ASSUME q >= m + 1 PROVE FALSE
    BY <1>1
  <2>2. k * q >= k * (m + 1) /\ k * (m + 1) = m * k + k
    BY <1>1, <2>1
  <2>3. QED
    BY <1>1, <2>2
<1>5. QED
  BY <1>1, <1>2, <1>3, <1>4 DEF q

-----------------------------------------------------------------------------
(* Types.                                                                  *)

\* The names that entries hold.
NameSet == {NameBytes(n) : n \in Name} \cup {<<>>}

EntryType ==
    [used : BOOLEAN, isDir : BOOLEAN, name : NameSet,
     len : Nat, start : Nat, count : Nat]
GoodEntry == {e \in EntryType : EntryOK(e)}
GoodTables == [Slots -> GoodEntry]
TableSectors == {TableSector(t) : t \in GoodTables}
DataSectors == {DataSector(b) : b \in [1 .. SectorSize -> 0 .. 255]}
Writes == [lba : Lbas, sector : TableSectors \cup DataSectors]

TypeInv ==
    /\ disk \in [Lbas -> TableSectors \cup DataSectors]
    /\ pending \in Seq(Writes)
    /\ (pending = <<>>) = (request = Idle)

LEMMA EmptyIsGood == Empty \in GoodEntry /\ ~Empty.used /\ EmptyTable \in GoodTables
<1>1. Empty \in EntryType
  BY DEF Empty, EntryType, NameSet
<1>2. EntryOK(Empty) /\ ~Empty.used
  BY DEF Empty, EntryOK
<1>3. QED
  BY <1>1, <1>2 DEF GoodEntry, GoodTables, EmptyTable

LEMMA SectorsAreOK ==
    /\ \A t \in GoodTables : /\ TableSector(t).magic /\ TableSector(t).entries = t
                             /\ SectorOK(TableSector(t))
    /\ \A s \in DataSectors : ~s.magic /\ SectorOK(s)
    /\ \A s \in TableSectors : s.magic /\ s.entries \in GoodTables /\ SectorOK(s)
<1>1. \A t \in GoodTables : /\ TableSector(t).magic /\ TableSector(t).entries = t
                            /\ SectorOK(TableSector(t))
  BY DEF TableSector, SectorOK, GoodTables, GoodEntry
<1>2. \A s \in DataSectors : ~s.magic /\ SectorOK(s)
  BY DEF DataSectors, DataSector, SectorOK
<1>3. QED
  BY <1>1, <1>2 DEF TableSectors

LEMMA LoadDirIsTable ==
    ASSUME TypeInv, NEW lba \in Lbas, NEW bad
    PROVE  LoadDir(lba, bad) \in GoodTables
<1>1. disk[lba] \in TableSectors \cup DataSectors
  BY DEF TypeInv
<1>2. QED
  BY <1>1, SectorsAreOK, EmptyIsGood DEF LoadDir

LEMMA LbasAreNumbers ==
    /\ Lbas \subseteq Nat \ {0} /\ DIR_LBA \in Lbas /\ NoTable \notin Lbas
    /\ \A x \in Lbas : x >= DIR_LBA
BY FileSystemAssumption DEF Lbas, DIR_LBA, FILE_DATA_START_LBA, NoTable

LEMMA FoundIsSlot ==
    ASSUME NEW T \in SUBSET Slots, T # {}
    PROVE  Lowest(T) \in T /\ Lowest(T) \in Slots
<1>1. Slots \subseteq Nat
  BY FileSystemAssumption DEF Slots
<1>2. QED
  BY <1>1, LowestIsLeast

\* The sector a directory entry leads to.
LEMMA ChildIsTable ==
    ASSUME TypeInv, NEW lba \in Lbas, NEW name, NEW bad
    PROVE  /\ Child(lba, name, bad) \in Lbas \cup {NoTable}
           /\ Child(lba, name, bad) # NoTable =>
                \E s \in Slots : LET e == LoadDir(lba, bad)[s]
                                 IN /\ e.used /\ e.isDir /\ e.name = NameBytes(name)
                                    /\ Child(lba, name, bad) = e.start
<1> DEFINE table == LoadDir(lba, bad)
           found == Find(table, name)
           s == Lowest(found)
<1>1. CASE found # {} /\ table[s].isDir
  <2>1. s \in Slots /\ table[s].used /\ table[s].name = NameBytes(name)
    BY <1>1, FoundIsSlot DEF Find
  <2>2. table[s] \in GoodEntry
    BY <2>1, LoadDirIsTable DEF GoodTables
  <2>3. table[s].start \in Lbas
    BY <1>1, <2>1, <2>2 DEF GoodEntry, EntryOK
  <2>4. Child(lba, name, bad) = table[s].start
    BY <1>1 DEF Child
  <2>5. QED
    BY <1>1, <2>1, <2>3, <2>4
<1>2. CASE ~(found # {} /\ table[s].isDir)
  BY <1>2 DEF Child
<1>3. QED
  BY <1>1, <1>2

\* The tables a path goes through, one after the other.
LEMMA ResolvedStepwise ==
    ASSUME TypeInv, NEW dir, Len(dir) \in Nat, NEW bad
    PROVE  \E f \in [0 .. Len(dir) -> Lbas \cup {NoTable}] :
             /\ f[0] = DIR_LBA
             /\ \A i \in 1 .. Len(dir) : f[i] = IF f[i - 1] = NoTable THEN NoTable
                                                ELSE Child(f[i - 1], dir[i], bad)
             /\ ResolveDir(dir, bad) = IF Len(dir) <= MaxDepth THEN f[Len(dir)] ELSE NoTable
<1> DEFINE n == Len(dir)
           R == Lbas \cup {NoTable}
           G == [x \in Nat \X R |-> IF x[2] = NoTable THEN NoTable
                                    ELSE Child(x[2], dir[x[1]], bad)]
           at[i \in 0 .. Len(dir)] ==
             IF i = 0 THEN DIR_LBA
             ELSE IF at[i - 1] = NoTable THEN NoTable
             ELSE Child(at[i - 1], dir[i], bad)
<1>1. ResolveDir(dir, bad) = IF n <= MaxDepth THEN at[n] ELSE NoTable
  BY DEF ResolveDir
<1>2. G \in [Nat \X R -> R] /\ DIR_LBA \in R
  <2>1. ASSUME NEW x \in Nat \X R
        PROVE  (IF x[2] = NoTable THEN NoTable ELSE Child(x[2], dir[x[1]], bad)) \in R
    BY ChildIsTable
  <2>2. QED
    BY <2>1, LbasAreNumbers
<1>3. PICK f : Follows(f, DIR_LBA, G, n, R)
  <2>1. n \in Nat
    OBVIOUS
  <2> HIDE DEF G, R, n
  <2>2. QED
    BY <1>2, <2>1, StepwiseFunction
<1>4. /\ f[0] = DIR_LBA
      /\ \A i \in 1 .. n : f[i] = IF f[i - 1] = NoTable THEN NoTable
                              ELSE Child(f[i - 1], dir[i], bad)
  <2>1. ASSUME NEW i \in 1 .. n
        PROVE  f[i] = IF f[i - 1] = NoTable THEN NoTable ELSE Child(f[i - 1], dir[i], bad)
    <3>1. i \in Nat /\ i - 1 \in 0 .. n
      OBVIOUS
    <3>2. f[i] = G[<<i, f[i - 1]>>] /\ f[i - 1] \in R
      BY <1>3, <3>1 DEF Follows
    <3>3. QED
      BY <3>1, <3>2
  <2>2. QED
    BY <1>3, <2>1 DEF Follows
<1>5. f = [i \in 0 .. Len(dir) |->
             IF i = 0 THEN DIR_LBA
             ELSE IF f[i - 1] = NoTable THEN NoTable
             ELSE Child(f[i - 1], dir[i], bad)]
  BY <1>3, <1>4 DEF Follows
<1>6. at = [i \in 0 .. Len(dir) |->
              IF i = 0 THEN DIR_LBA
              ELSE IF at[i - 1] = NoTable THEN NoTable
              ELSE Child(at[i - 1], dir[i], bad)]
  BY <1>5
<1> HIDE DEF at
<1>7. at[n] = f[n]
  <2> DEFINE S == {i \in Nat : i <= n => at[i] = f[i]}
  <2>1. 0 \in S
    BY <1>4, <1>6
  <2>2. ASSUME NEW i \in Nat, i \in S PROVE i + 1 \in S
    <3>1. CASE i + 1 <= n
      <4>1. i + 1 \in 0 .. Len(dir) /\ i + 1 # 0 /\ (i + 1) - 1 = i /\ i + 1 \in 1 .. n
        BY <3>1
      <4>2. at[i] = f[i]
        BY <2>2, <3>1
      <4>3. at[i + 1] = IF at[i] = NoTable THEN NoTable ELSE Child(at[i], dir[i + 1], bad)
        BY <1>6, <4>1
      <4>4. f[i + 1] = IF f[i] = NoTable THEN NoTable ELSE Child(f[i], dir[i + 1], bad)
        BY <1>4, <4>1
      <4>5. QED
        BY <4>2, <4>3, <4>4
    <3>2. CASE ~(i + 1 <= n)
      BY <3>2
    <3>3. QED
      BY <3>1, <3>2
  <2>3. Nat \subseteq S
    <3> HIDE DEF S
    <3>1. QED
      BY <2>1, <2>2, SetInduction
  <2>4. QED
    BY <2>3
<1>8. QED
  BY <1>1, <1>3, <1>4, <1>7 DEF Follows

LEMMA ResolvedIsTable ==
    ASSUME TypeInv, NEW dir, Len(dir) \in Nat, NEW bad
    PROVE  ResolveDir(dir, bad) \in Lbas \cup {NoTable}
BY ResolvedStepwise

\* Paths and their parts.
LEMMA PathParts ==
    ASSUME NEW path \in Paths
    PROVE  /\ Len(Parent(path)) \in 0 .. PathDepth
           /\ Leaf(path) \in Name
<1>1. PICK n \in 1 .. PathDepth + 1 : path \in [1 .. n -> Name]
  BY DEF Paths
<1>2. path \in Seq(Name) /\ Len(path) = n /\ n \in Nat /\ PathDepth \in Nat
  BY <1>1, FileSystemAssumption
<1>3. Len(Parent(path)) = n - 1
  BY <1>2 DEF Parent
<1>4. QED
  BY <1>1, <1>2, <1>3 DEF Leaf

-----------------------------------------------------------------------------
(* Names and paths.                                                        *)

LEMMA CutTwice == \A x \in NameSet : NameBytes(x) = x
<1>1. ASSUME NEW n \in Name PROVE NameBytes(NameBytes(n)) = NameBytes(n)
  <2> DEFINE S == {n[i] : i \in 1 .. Len(n)}
             m == Smaller(Len(n), NameLen)
             c == SubSeq(n, 1, m)
  <2>1. n \in Seq(S) /\ Len(n) \in Nat /\ NameLen \in Nat
    BY FileSystemAssumption
  <2>2. m \in Nat /\ m <= Len(n) /\ m <= NameLen
    BY <2>1 DEF Smaller
  <2>3. \A i \in 1 .. m : n[i] \in S
    BY <2>2
  <2> HIDE DEF S, m
  <2>4. c \in Seq(S) /\ Len(c) = m
    BY <2>2, <2>3, SubSeqProperties
  <2>5. Smaller(Len(c), NameLen) = Len(c)
    BY <2>1, <2>2, <2>4 DEF Smaller
  <2> HIDE DEF c
  <2>6. SubSeq(c, 1, Len(c)) = c
    BY <2>4, SubSeqFull
  <2>7. NameBytes(n) = c
    BY DEF NameBytes, c, m
  <2>8. QED
    BY <2>5, <2>6, <2>7 DEF NameBytes
<1>2. NameBytes(<<>>) = <<>>
  <2>1. Len(<<>>) = 0 /\ NameLen \in Nat
    BY FileSystemAssumption
  <2>2. Smaller(Len(<<>>), NameLen) = 0
    BY <2>1 DEF Smaller
  <2>3. SubSeq(<<>>, 1, 0) = <<>>
    BY SubSeqEmpty
  <2>4. QED
    BY <2>2, <2>3 DEF NameBytes
<1>3. QED
  BY <1>1, <1>2 DEF NameSet

\* The parts of a path of entries' names.
LEMMA LongerPath ==
    ASSUME NEW p \in Seq(NameSet), NEW a \in NameSet
    PROVE  /\ Append(p, a) \in Seq(NameSet) /\ Append(p, a) # <<>>
           /\ Len(Append(p, a)) = Len(p) + 1 /\ Len(p) \in Nat
           /\ Parent(Append(p, a)) = p
<1> DEFINE q == Append(p, a)
<1>1. /\ q \in Seq(NameSet) /\ q # <<>> /\ Len(q) = Len(p) + 1 /\ Len(p) \in Nat
      /\ \A i \in 1 .. Len(p) : q[i] = p[i]
  BY AppendProperties, LenProperties
<1> HIDE DEF q
<1>2. \A i \in 1 .. Len(p) : q[i] \in NameSet
  BY <1>1, ElementOfSeq
<1> DEFINE n == Len(p)
           c == SubSeq(q, 1, n)
<1>3. c \in Seq(NameSet) /\ Len(c) = n /\ \A i \in 1 .. n : c[i] = q[i]
  <2>1. n \in Int /\ (1 <= n => n - 1 + 1 = n) /\ (~(1 <= n) => n = 0) /\ n - 1 + 1 = n
    BY <1>1
  <2>2. \A i \in 1 .. n : 1 + i - 1 = i
    BY <2>1
  <2> HIDE DEF n
  <2>3. QED
    BY <1>2, <2>1, <2>2, SubSeqProperties DEF n
<1>4. c = p
  <2>1. Len(c) = Len(p) /\ \A i \in 1 .. Len(c) : c[i] = p[i]
    BY <1>1, <1>3
  <2> HIDE DEF c
  <2>2. QED
    BY <1>3, <2>1, SeqEqual
<1>5. Parent(q) = c
  BY <1>1 DEF Parent
<1>6. QED
  BY <1>1, <1>4, <1>5 DEF q

LEMMA KeyParts ==
    ASSUME NEW path \in Paths
    PROVE  /\ Key(Parent(path)) \in Seq(NameSet) /\ NameBytes(Leaf(path)) \in NameSet
           /\ Key(path) = Append(Key(Parent(path)), NameBytes(Leaf(path)))
           /\ Parent(Key(path)) = Key(Parent(path))
           /\ Len(Key(path)) = Len(Key(Parent(path))) + 1
           /\ Len(Key(Parent(path))) = Len(Parent(path)) /\ Len(Parent(path)) \in Nat
           /\ Parent(path) \in Seq(Name)
<1>1. PICK n \in 1 .. PathDepth + 1 : path \in [1 .. n -> Name]
  BY DEF Paths
<1>2. n \in Nat \ {0} /\ path \in Seq(Name) /\ Len(path) = n
  BY <1>1, FileSystemAssumption
<1> DEFINE m == n - 1
           dir == Parent(path)
<1>3. m \in Nat /\ m + 1 = n /\ m <= n /\ m - 1 + 1 = m /\ (~(1 <= m) => m = 0)
  BY <1>2
<1> HIDE DEF m
<1>4. dir \in Seq(Name) /\ Len(dir) = m /\ \A i \in 1 .. m : dir[i] = path[i]
  <2>1. \A i \in 1 .. m : path[i] \in Name
    BY <1>1, <1>3
  <2>2. \A i \in 1 .. m : 1 + i - 1 = i
    BY <1>3
  <2>3. dir = SubSeq(path, 1, m)
    BY <1>2 DEF Parent, m
  <2> HIDE DEF dir
  <2>4. QED
    BY <1>3, <2>1, <2>2, <2>3, SubSeqProperties
<1> HIDE DEF dir
<1>5. \A i \in 1 .. n : path[i] \in Name /\ NameBytes(path[i]) \in NameSet
  BY <1>1 DEF NameSet
<1>6. /\ Key(path) = [i \in 1 .. n |-> NameBytes(path[i])]
      /\ Key(dir) = [i \in 1 .. m |-> NameBytes(dir[i])]
  BY <1>2, <1>4 DEF Key
<1>7. Key(path) \in Seq(NameSet) /\ Len(Key(path)) = n
  BY <1>2, <1>5, <1>6
<1>8. Key(dir) \in Seq(NameSet) /\ Len(Key(dir)) = m
  <2>1. \A i \in 1 .. m : NameBytes(dir[i]) \in NameSet
    BY <1>3, <1>4, <1>5
  <2>2. QED
    BY <1>3, <1>6, <2>1
<1>9. NameBytes(Leaf(path)) \in NameSet /\ Leaf(path) = path[n]
  BY <1>2, <1>5 DEF Leaf
<1> DEFINE q == Append(Key(dir), NameBytes(Leaf(path)))
<1>10. q \in Seq(NameSet) /\ Len(q) = n /\ q[n] = NameBytes(path[n])
       /\ \A i \in 1 .. m : q[i] = NameBytes(path[i])
  <2>1. /\ q \in Seq(NameSet) /\ Len(q) = Len(Key(dir)) + 1
        /\ \A i \in 1 .. Len(Key(dir)) : q[i] = Key(dir)[i]
        /\ q[Len(Key(dir)) + 1] = NameBytes(Leaf(path))
    BY <1>8, <1>9, AppendProperties
  <2>2. \A i \in 1 .. m : Key(dir)[i] = NameBytes(path[i])
    BY <1>4, <1>6
  <2> HIDE DEF q
  <2>3. QED
    BY <1>3, <1>8, <1>9, <2>1, <2>2
<1>11. Key(path) = q
  <2> HIDE DEF q
  <2>1. \A i \in 1 .. n : Key(path)[i] = NameBytes(path[i])
    BY <1>6
  <2>2. \A i \in 1 .. n : i \in 1 .. m \/ i = n
    BY <1>3
  <2>3. \A i \in 1 .. n : q[i] = NameBytes(path[i])
    BY <1>10, <2>2
  <2>4. QED
    BY <1>7, <1>10, <2>1, <2>3, SeqEqual
<1>12. Parent(q) = Key(dir)
  BY <1>8, <1>9, LongerPath
<1>13. QED
  BY <1>3, <1>4, <1>8, <1>9, <1>7, <1>11, <1>12 DEF dir


-----------------------------------------------------------------------------
(* What the calls leave to be written.                                     *)

LEMMA ReplacedEntry ==
    ASSUME NEW lba \in Lbas, NEW table \in GoodTables, NEW k \in Slots, NEW e \in GoodEntry
    PROVE  /\ [table EXCEPT ![k] = e] \in GoodTables
           /\ Save(lba, [table EXCEPT ![k] = e]) \in Writes
BY DEF GoodTables, Save, Writes, TableSectors

LEMMA BlocksAreData ==
    ASSUME NEW data \in Data, NEW i \in Nat \ {0}
    PROVE  Block(data, i) \in DataSectors
<1> DEFINE Byte(b) == IF (i - 1) * SectorSize + b <= Len(data)
                      THEN data[(i - 1) * SectorSize + b] ELSE 0
<1>1. data \in Seq(0 .. 255) /\ Len(data) \in Nat /\ SectorSize \in Nat
  BY FileSystemAssumption
<1>2. ASSUME NEW b \in 1 .. SectorSize PROVE Byte(b) \in 0 .. 255
  <2>1. (i - 1) * SectorSize \in Nat
    BY <1>1
  <2> DEFINE j == (i - 1) * SectorSize + b
  <2>2. j \in Nat \ {0}
    BY <1>1, <2>1
  <2> HIDE DEF j
  <2>3. j <= Len(data) => data[j] \in 0 .. 255
    <3>1. ASSUME j <= Len(data) PROVE j \in 1 .. Len(data)
      BY <1>1, <2>2, <3>1
    <3>2. QED
      BY <1>1, <3>1, ElementOfSeq
  <2>4. QED
    BY <2>3 DEF j
<1>3. [b \in 1 .. SectorSize |-> Byte(b)] \in [1 .. SectorSize -> 0 .. 255]
  BY <1>2
<1>4. QED
  BY <1>3 DEF Block, DataSectors

LEMMA SpansAreLbas ==
    ASSUME NEW occupied, NEW n \in Nat, NEW x \in FreeSpans(occupied, n)
    PROVE  /\ x \in Nat /\ x > DIR_LBA
           /\ \A i \in 1 .. n : x + i - 1 \in Lbas
           /\ n # 0 => x \in Lbas /\ x + n - 1 \in Lbas
           /\ \A r \in occupied : ~Overlap(<<x, n>>, r)
BY FileSystemAssumption DEF FreeSpans, Lbas, DIR_LBA, FILE_DATA_START_LBA

LEMMA LowestSpan ==
    ASSUME NEW occupied, NEW n \in Nat, FreeSpans(occupied, n) # {}
    PROVE  Lowest(FreeSpans(occupied, n)) \in FreeSpans(occupied, n)
<1>1. FreeSpans(occupied, n) \subseteq Nat
  BY SpansAreLbas
<1>2. QED
  BY <1>1, LowestIsLeast

\* What each call leaves, e being the entry and k the slot it is going to have.
MakeDirLeft(path, bad, badScan, lba, k, e) ==
    /\ lba = ResolveDir(Parent(path), bad)
    /\ ~LoadDir(lba, bad)[k].used
    /\ \A s \in Slots : LoadDir(lba, bad)[s].used =>
                          LoadDir(lba, bad)[s].name # NameBytes(Leaf(path))
    /\ e.used /\ e.isDir /\ e.count = 1 /\ e.name = NameBytes(Leaf(path))
    /\ e.start \in FreeSpans(Occupied(<<>>, badScan), 1)
    /\ pending = <<>> /\ UNCHANGED disk /\ request' = [op |-> "mkdir", path |-> path]
    /\ pending' = <<Save(e.start, EmptyTable),
                    Save(lba, [LoadDir(lba, bad) EXCEPT ![k] = e])>>

WriteFileLeft(path, data, bad, badScan, lba, k, e) ==
    LET old == LoadDir(lba, bad)[k]
        exclude == IF old.used THEN <<old.start, old.count>> ELSE <<>>
    IN /\ lba = ResolveDir(Parent(path), bad)
       /\ ~(old.used /\ old.isDir)
       /\ IF old.used THEN old.name = NameBytes(Leaf(path))
          ELSE \A s \in Slots : LoadDir(lba, bad)[s].used =>
                                 LoadDir(lba, bad)[s].name # NameBytes(Leaf(path))
       /\ e.used /\ ~e.isDir /\ e.name = NameBytes(Leaf(path)) /\ e.len = Len(data)
       /\ e.count # 0 => e.start \in FreeSpans(Occupied(exclude, badScan), e.count)
       /\ pending = <<>> /\ UNCHANGED disk
       /\ request' = [op |-> "write", path |-> path, data |-> data]
       /\ pending' = Append([i \in 1 .. e.count |-> [lba |-> e.start + i - 1,
                                                     sector |-> Block(data, i)]],
                            Save(lba, [LoadDir(lba, bad) EXCEPT ![k] = e]))

DeletionLeft(path, bad, lba, k) ==
    LET old == LoadDir(lba, bad)[k]
    IN /\ lba = ResolveDir(Parent(path), bad)
       /\ old.used /\ old.name = NameBytes(Leaf(path))
       /\ old.isDir => \A s \in Slots : ~LoadDir(old.start, bad)[s].used
       /\ pending = <<>> /\ UNCHANGED disk
       /\ request' = [op |-> IF old.isDir THEN "rmdir" ELSE "rm", path |-> path]
       /\ pending' = <<Save(lba, [LoadDir(lba, bad) EXCEPT ![k] = Empty])>>

LEMMA MakeDirLeaves ==
    ASSUME TypeInv, NEW path \in Paths, NEW bad, NEW badScan, MakeDir(path, bad, badScan)
    PROVE  \E lba \in Lbas, k \in Slots, e \in GoodEntry :
             MakeDirLeft(path, bad, badScan, lba, k, e)
<1> DEFINE lba == ResolveDir(Parent(path), bad)
           table == LoadDir(lba, bad)
           spans == FreeSpans(Occupied(<<>>, badScan), 1)
           k == Lowest(FreeSlots(table))
           e == [used |-> TRUE, isDir |-> TRUE, name |-> NameBytes(Leaf(path)),
                 len |-> 0, start |-> Lowest(spans), count |-> 1]
<1>1. /\ lba # NoTable /\ FreeSlots(table) # {} /\ spans # {}
      /\ Find(table, Leaf(path)) = {}
      /\ Begin([op |-> "mkdir", path |-> path],
               SectorsFirst(<<Save(e.start, EmptyTable)>>, Save(lba, [table EXCEPT ![k] = e])))
  BY DEF MakeDir
<1>2. lba \in Lbas /\ Leaf(path) \in Name
  BY <1>1, PathParts, ResolvedIsTable
<1>3. k \in Slots /\ ~table[k].used
  BY <1>1, FoundIsSlot DEF FreeSlots
<1>4. Lowest(spans) \in spans
  BY <1>1, LowestSpan
<1>5. e \in GoodEntry
  <2>1. Lowest(spans) \in Nat /\ Lowest(spans) \in Lbas /\ Lowest(spans) + 1 - 1 \in Lbas
    <3>1. 1 \in Nat /\ 1 # 0
      OBVIOUS
    <3>2. \A y \in spans : y \in Nat /\ y \in Lbas /\ y + 1 - 1 \in Lbas
      BY <3>1, SpansAreLbas
    <3>3. QED
      BY <1>4, <3>2
  <2> DEFINE x == Lowest(spans)
  <2> HIDE DEF x
  <2>2. [used |-> TRUE, isDir |-> TRUE, name |-> NameBytes(Leaf(path)),
         len |-> 0, start |-> x, count |-> 1] \in EntryType
    BY <1>2, <2>1 DEF EntryType, NameSet, x
  <2>3. EntryOK([used |-> TRUE, isDir |-> TRUE, name |-> NameBytes(Leaf(path)),
                 len |-> 0, start |-> x, count |-> 1])
    BY <2>1 DEF EntryOK, x
  <2>4. QED
    BY <2>2, <2>3 DEF GoodEntry, x
<1>6. /\ pending = <<>> /\ UNCHANGED disk /\ request' = [op |-> "mkdir", path |-> path]
      /\ pending' = <<Save(e.start, EmptyTable), Save(lba, [table EXCEPT ![k] = e])>>
  <2>1. \A a, b : Append(<<a>>, b) = <<a, b>>
    <3>1. ASSUME NEW a, NEW b PROVE Append(<<a>>, b) = <<a, b>>
      <4> DEFINE s == Append(<<a>>, b)
                 t == <<a, b>>
      <4>1. <<a>> \in Seq({a, b}) /\ Len(<<a>>) = 1 /\ <<a>>[1] = a
        OBVIOUS
      <4>2. s \in Seq({a, b}) /\ Len(s) = 2 /\ s[1] = a /\ s[2] = b
        BY <4>1, AppendProperties
      <4>3. t \in Seq({a, b}) /\ Len(t) = 2 /\ t[1] = a /\ t[2] = b
        OBVIOUS
      <4> HIDE DEF s, t
      <4>4. \A i \in 1 .. Len(s) : s[i] = t[i]
        <5>1. \A i \in 1 .. 2 : i = 1 \/ i = 2
          OBVIOUS
        <5>2. QED
          BY <4>2, <4>3, <5>1
      <4>5. s = t
        BY <4>2, <4>3, <4>4, SeqEqual
      <4>6. QED
        BY <4>5 DEF s, t
    <3>2. QED
      BY <3>1
  <2> HIDE DEF e, k, lba
  <2>2. QED
    BY <1>1, <2>1 DEF Begin, SectorsFirst
<1>7. /\ e.used /\ e.isDir /\ e.count = 1 /\ e.start \in spans
      /\ e.name = NameBytes(Leaf(path))
  BY <1>4
<1>10. \A s \in Slots : table[s].used => table[s].name # NameBytes(Leaf(path))
  BY <1>1 DEF Find
<1> HIDE DEF e, k, lba
<1>8. MakeDirLeft(path, bad, badScan, lba, k, e)
  BY <1>3, <1>6, <1>7, <1>10 DEF lba, MakeDirLeft
<1>9. QED
  BY <1>2, <1>3, <1>5, <1>8

LEMMA WriteFileLeaves ==
    ASSUME TypeInv, NEW path \in Paths, NEW data \in Data, NEW bad, NEW badScan,
           WriteFile(path, data, bad, badScan)
    PROVE  \E lba \in Lbas, k \in Slots, e \in GoodEntry :
             WriteFileLeft(path, data, bad, badScan, lba, k, e)
<1> DEFINE lba == ResolveDir(Parent(path), bad)
           table == LoadDir(lba, bad)
           existing == Find(table, Leaf(path))
           candidates == IF existing # {} THEN existing ELSE FreeSlots(table)
           k == Lowest(candidates)
           old == table[k]
           needed == (Len(data) + SectorSize - 1) \div SectorSize
           exclude == IF old.used THEN <<old.start, old.count>> ELSE <<>>
           spans == IF needed = 0 THEN {0} ELSE FreeSpans(Occupied(exclude, badScan), needed)
           e == [used |-> TRUE, isDir |-> FALSE, name |-> NameBytes(Leaf(path)),
                 len |-> Len(data), start |-> Lowest(spans), count |-> needed]
<1>1. /\ Len(data) <= MaxFileSectors * SectorSize
      /\ lba # NoTable
      /\ candidates # {} /\ ~(old.used /\ old.isDir) /\ spans # {}
      /\ Begin([op |-> "write", path |-> path, data |-> data],
               SectorsFirst([i \in 1 .. needed |-> [lba |-> e.start + i - 1,
                                                    sector |-> Block(data, i)]],
                            Save(lba, [table EXCEPT ![k] = e])))
  BY DEF WriteFile
<1>2. lba \in Lbas /\ Leaf(path) \in Name
  <2>1. Len(Parent(path)) \in Nat /\ Leaf(path) \in Name
    BY PathParts, FileSystemAssumption
  <2>2. lba \in Lbas \cup {NoTable}
    BY <2>1, ResolvedIsTable
  <2>3. QED
    BY <1>1, <2>1, <2>2
<1>3. k \in Slots
  <2>1. candidates \subseteq Slots
    BY DEF Find, FreeSlots
  <2> HIDE DEF candidates
  <2>2. QED
    BY <1>1, <2>1, FoundIsSlot
<1>4. Len(data) \in Nat /\ needed \in 0 .. MaxFileSectors /\ Len(data) <= needed * SectorSize
  <2>1. Len(data) \in Nat
    BY FileSystemAssumption
  <2>2. QED
    BY <1>1, <2>1, SectorsFor, FileSystemAssumption
<1> DEFINE x == Lowest(spans)
<1> HIDE DEF needed, lba, k, candidates
<1>5. /\ x \in Nat
      /\ needed # 0 => x \in spans /\ x \in Lbas /\ x + needed - 1 \in Lbas
  <2>0. needed \in Nat
    BY <1>4, FileSystemAssumption
  <2>1. CASE needed = 0
    <3>1. x \in {0}
      BY <2>1, LowestIsLeast
    <3>2. QED
      BY <2>1, <3>1
  <2>2. CASE needed # 0
    <3>1. spans = FreeSpans(Occupied(exclude, badScan), needed)
      BY <2>2
    <3>2. x \in FreeSpans(Occupied(exclude, badScan), needed)
      BY <1>1, <2>0, <3>1, LowestSpan
    <3>3. QED
      BY <2>0, <2>2, <3>1, <3>2, SpansAreLbas
  <2>3. QED
    BY <2>1, <2>2
<1>6. e \in GoodEntry
  <2>1. e = [used |-> TRUE, isDir |-> FALSE, name |-> NameBytes(Leaf(path)),
             len |-> Len(data), start |-> x, count |-> needed]
    OBVIOUS
  <2> HIDE DEF x, e
  <2>2. needed \in Nat
    BY <1>4, FileSystemAssumption
  <2>3. e \in EntryType
    BY <1>2, <1>4, <1>5, <2>1, <2>2 DEF EntryType, NameSet
  <2>4. EntryOK(e)
    BY <1>4, <1>5, <2>1, <2>2 DEF EntryOK
  <2>5. QED
    BY <2>3, <2>4 DEF GoodEntry
<1>7. /\ e.used /\ ~e.isDir /\ e.count = needed
      /\ e.name = NameBytes(Leaf(path)) /\ e.len = Len(data)
      /\ e.count # 0 => e.start \in FreeSpans(Occupied(exclude, badScan), e.count)
  BY <1>5
<1>8. /\ pending = <<>> /\ UNCHANGED disk
      /\ request' = [op |-> "write", path |-> path, data |-> data]
      /\ pending' = Append([i \in 1 .. e.count |-> [lba |-> e.start + i - 1,
                                                    sector |-> Block(data, i)]],
                           Save(lba, [table EXCEPT ![k] = e]))
  BY <1>1, <1>7 DEF Begin, SectorsFirst
<1>9. lba = ResolveDir(Parent(path), bad)
  BY DEF lba
<1>12. IF old.used THEN old.name = NameBytes(Leaf(path))
       ELSE \A s \in Slots : table[s].used => table[s].name # NameBytes(Leaf(path))
  <2>1. k \in candidates
    <3>1. candidates \subseteq Slots
      BY DEF candidates, Find, FreeSlots
    <3>2. QED
      BY <1>1, <3>1, FoundIsSlot DEF k
  <2>2. CASE existing # {}
    BY <2>1, <2>2 DEF candidates, Find
  <2>3. CASE existing = {}
    BY <2>1, <2>3 DEF candidates, Find, FreeSlots
  <2>4. QED
    BY <2>2, <2>3
<1> HIDE DEF e
<1>10. WriteFileLeft(path, data, bad, badScan, lba, k, e)
  BY <1>1, <1>7, <1>8, <1>9, <1>12 DEF WriteFileLeft
<1>11. QED
  BY <1>2, <1>3, <1>6, <1>10

LEMMA DeletionLeaves ==
    ASSUME TypeInv, NEW path \in Paths, NEW bad, DeleteFile(path, bad) \/ RemoveDir(path, bad)
    PROVE  \E lba \in Lbas, k \in Slots :
             DeletionLeft(path, bad, lba, k)
<1> DEFINE lba == ResolveDir(Parent(path), bad)
           table == LoadDir(lba, bad)
           found == Find(table, Leaf(path))
           k == Lowest(found)
           call == [op |-> IF table[k].isDir THEN "rmdir" ELSE "rm", path |-> path]
<1>1. /\ lba # NoTable /\ found # {}
      /\ table[k].isDir => \A s \in Slots : ~LoadDir(table[k].start, bad)[s].used
      /\ Begin(call, <<Save(lba, [table EXCEPT ![k] = Empty])>>)
  <2>1. CASE DeleteFile(path, bad)
    BY <2>1 DEF DeleteFile
  <2>2. CASE RemoveDir(path, bad)
    BY <2>2 DEF RemoveDir
  <2>3. QED
    BY <2>1, <2>2
<1>2. lba \in Lbas
  BY <1>1, PathParts, ResolvedIsTable
<1>3. k \in Slots /\ table[k].used /\ table[k].name = NameBytes(Leaf(path))
  <2>1. /\ found \in SUBSET Slots
        /\ \A s \in found : table[s].used /\ table[s].name = NameBytes(Leaf(path))
    BY DEF Find
  <2> HIDE DEF found, table
  <2>2. QED
    BY <1>1, <2>1, FoundIsSlot
<1>4. /\ pending = <<>> /\ UNCHANGED disk /\ request' = call
      /\ pending' = <<Save(lba, [table EXCEPT ![k] = Empty])>>
  BY <1>1 DEF Begin
<1>5. lba = ResolveDir(Parent(path), bad)
  OBVIOUS
<1> HIDE DEF lba, k
<1>6. DeletionLeft(path, bad, lba, k)
  BY <1>1, <1>3, <1>4, <1>5 DEF DeletionLeft
<1>7. QED
  BY <1>2, <1>3, <1>6

-----------------------------------------------------------------------------
(* Types are kept, whatever fails.                                         *)

LEMMA TypesAtFirst == Init => TypeInv
<1> SUFFICES ASSUME Init PROVE TypeInv
  OBVIOUS
<1>1. Blank \in DataSectors
  BY FileSystemAssumption DEF Blank, DataSectors
<1>2. QED
  BY <1>1 DEF Init, TypeInv

LEMMA WriteSectorKeepsTypes ==
    ASSUME TypeInv, WriteSector
    PROVE  /\ TypeInv'
           /\ Head(pending) \in Writes /\ Len(pending) \in Nat \ {0}
           /\ Len(Tail(pending)) = Len(pending) - 1
           /\ \A i \in 1 .. Len(pending) - 1 : Tail(pending)[i] = pending[i + 1]
<1>1. /\ pending # <<>> /\ pending \in Seq(Writes)
      /\ disk' = [disk EXCEPT ![Head(pending).lba] = Head(pending).sector]
      /\ pending' = Tail(pending)
      /\ request' = IF Tail(pending) = <<>> THEN Idle ELSE request
  BY DEF WriteSector, TypeInv
<1>2. /\ Head(pending) \in Writes /\ Tail(pending) \in Seq(Writes)
      /\ Len(pending) \in Nat \ {0} /\ Len(Tail(pending)) = Len(pending) - 1
      /\ \A i \in 1 .. Len(pending) - 1 : Tail(pending)[i] = pending[i + 1]
  BY <1>1, HeadTailProperties, EmptySeq, LenProperties
<1>3. disk' \in [Lbas -> TableSectors \cup DataSectors]
  BY <1>1, <1>2 DEF Writes, TypeInv
<1>4. QED
  BY <1>1, <1>2, <1>3 DEF TypeInv

LEMMA TypesKept == TypeInv /\ [Next]_vars => TypeInv'
<1> SUFFICES ASSUME TypeInv, [Next]_vars PROVE TypeInv'
  OBVIOUS
<1>1. ASSUME NEW path \in Paths, NEW bad, NEW badScan, MakeDir(path, bad, badScan)
      PROVE  TypeInv'
  <2>1. PICK lba \in Lbas, k \in Slots, e \in GoodEntry :
          MakeDirLeft(path, bad, badScan, lba, k, e)
    BY <1>1, MakeDirLeaves
  <2>2. e.start \in Lbas
    <3>1. 1 \in Nat /\ 1 # 0
      OBVIOUS
    <3>2. QED
      BY <2>1, <3>1, SpansAreLbas DEF MakeDirLeft
  <2>3. Save(e.start, EmptyTable) \in Writes
    BY <2>2, EmptyIsGood DEF Save, Writes, TableSectors
  <2>4. Save(lba, [LoadDir(lba, bad) EXCEPT ![k] = e]) \in Writes
    BY LoadDirIsTable, ReplacedEntry
  <2>5. request' # Idle
    <3>1. request'.op # Idle.op
      BY <2>1 DEF Idle, MakeDirLeft
    <3>2. QED
      BY <3>1
  <2>6. pending' \in Seq(Writes) /\ pending' # <<>>
    BY <2>1, <2>3, <2>4 DEF MakeDirLeft
  <2>7. QED
    BY <2>1, <2>5, <2>6 DEF TypeInv, MakeDirLeft
<1>2. ASSUME NEW path \in Paths, NEW data \in Data, NEW bad, NEW badScan,
             WriteFile(path, data, bad, badScan)
      PROVE  TypeInv'
  <2>1. PICK lba \in Lbas, k \in Slots, e \in GoodEntry :
          WriteFileLeft(path, data, bad, badScan, lba, k, e)
    BY <1>2, WriteFileLeaves
  <2> DEFINE blocks == [i \in 1 .. e.count |-> [lba |-> e.start + i - 1,
                                                sector |-> Block(data, i)]]
             last == Save(lba, [LoadDir(lba, bad) EXCEPT ![k] = e])
  <2>2. e.count \in Nat
    BY DEF GoodEntry, EntryType
  <2>3. blocks \in Seq(Writes)
    <3>1. ASSUME NEW i \in 1 .. e.count
          PROVE  [lba |-> e.start + i - 1, sector |-> Block(data, i)] \in Writes
      <4>1. e.count # 0 /\ i \in Nat \ {0}
        BY <2>2
      <4>2. e.start + i - 1 \in Lbas
        BY <2>1, <2>2, <4>1, SpansAreLbas DEF WriteFileLeft
      <4>3. QED
        BY <4>1, <4>2, BlocksAreData DEF Writes
    <3>2. blocks \in [1 .. e.count -> Writes]
      BY <3>1
    <3>3. QED
      BY <2>2, <3>2, SeqDef
  <2>4. last \in Writes
    BY LoadDirIsTable, ReplacedEntry
  <2>5. request' # Idle
    <3>1. request'.op # Idle.op
      BY <2>1 DEF Idle, WriteFileLeft
    <3>2. QED
      BY <3>1
  <2>6. pending' = Append(blocks, last)
    BY <2>1 DEF WriteFileLeft
  <2> HIDE DEF blocks, last
  <2>7. pending' \in Seq(Writes) /\ pending' # <<>>
    BY <2>3, <2>4, <2>6, AppendProperties
  <2>8. QED
    BY <2>1, <2>5, <2>7 DEF TypeInv, WriteFileLeft
<1>3. ASSUME NEW path \in Paths, NEW bad, DeleteFile(path, bad) \/ RemoveDir(path, bad)
      PROVE  TypeInv'
  <2>1. PICK lba \in Lbas, k \in Slots : DeletionLeft(path, bad, lba, k)
    BY <1>3, DeletionLeaves
  <2>2. Save(lba, [LoadDir(lba, bad) EXCEPT ![k] = Empty]) \in Writes
    BY LoadDirIsTable, ReplacedEntry, EmptyIsGood
  <2>3. pending' \in Seq(Writes) /\ pending' # <<>>
    BY <2>1, <2>2 DEF DeletionLeft
  <2>4. request' # Idle
    <3>1. request'.op # Idle.op
      BY <2>1 DEF Idle, DeletionLeft
    <3>2. QED
      BY <3>1
  <2>5. QED
    BY <2>1, <2>3, <2>4 DEF TypeInv, DeletionLeft
<1>4. CASE WriteSector
  BY <1>4, WriteSectorKeepsTypes
<1>5. CASE Interrupted
  BY <1>5 DEF Interrupted, TypeInv
<1>6. CASE UNCHANGED vars
  BY <1>6 DEF vars, TypeInv
<1>7. QED
  BY <1>1, <1>2, <1>3, <1>4, <1>5, <1>6 DEF Next

\* Every sector that is or will be written as a table holds entries whose ranges lie on the disk,
\* with a length that their sectors hold: also with reads that fail, calls cut short by a failing
\* write or a loss of power, and tables taken for empty ones.
THEOREM DiskIsWellFormed == Spec => []TypeOK
<1>1. TypeInv => TypeOK
  <2> SUFFICES ASSUME TypeInv PROVE TypeOK
    OBVIOUS
  <2>1. DOMAIN disk = Lbas /\ \A lba \in Lbas : SectorOK(disk[lba])
    BY SectorsAreOK DEF TypeInv
  <2>2. ASSUME NEW i \in 1 .. Len(pending)
        PROVE  pending[i].lba \in Lbas /\ SectorOK(pending[i].sector)
    <3>1. pending[i] \in Writes
      BY ElementOfSeq DEF TypeInv
    <3>2. QED
      BY <3>1, SectorsAreOK DEF Writes
  <2>3. QED
    BY <2>1, <2>2 DEF TypeOK, TypeInv
<1>2. QED
  BY <1>1, TypesAtFirst, TypesKept, PTL DEF Spec

-----------------------------------------------------------------------------
(* The tree of directories on the disk.                                    *)

\* What the disk shows, sector by sector, as tables.
View == [t \in Lbas |-> LoadDir(t, {})]

Owns(e) == e.used /\ e.count # 0
NamesDir(e) == e.used /\ e.isDir
Span(e) == <<e.start, e.count>>

\* D are the tables of the directories, lev how deep each is.  A directory of D is named by an entry
\* of the level above, what it names is a level below, the deepest are empty, and no two entries
\* own a sector together.
TreeOK(v, D, lev) ==
    /\ DIR_LBA \in D /\ lev[DIR_LBA] = 0
    /\ \A t \in D, s \in Slots :
         NamesDir(v[t][s]) => v[t][s].start \in D /\ lev[v[t][s].start] = lev[t] + 1
    /\ \A u \in D \ {DIR_LBA} : \E t \in D, s \in Slots : NamesDir(v[t][s]) /\ v[t][s].start = u
    /\ \A t \in D, s \in Slots : v[t][s].used => lev[t] <= PathDepth
    /\ \A t, u \in D, s, r \in Slots :
         <<t, s>> # <<u, r>> /\ Owns(v[t][s]) /\ Owns(v[u][r]) =>
           ~Overlap(Span(v[t][s]), Span(v[u][r]))
    /\ \A t \in D, s \in Slots : Owns(v[t][s]) => v[t][s].start > DIR_LBA

Levels(D) == [D -> 0 .. PathDepth + 1]

LEMMA ViewIsTables ==
    ASSUME TypeInv
    PROVE  /\ View \in [Lbas -> GoodTables]
           /\ \A t \in Lbas : View[t] = LoadDir(t, {})
           /\ \A t \in Lbas, s \in Slots :
                /\ View[t][s] \in GoodEntry
                /\ View[t][s].start \in Nat /\ View[t][s].count \in Nat
                /\ NamesDir(View[t][s]) => Owns(View[t][s]) /\ View[t][s].count = 1
                                           /\ View[t][s].start \in Lbas
<1>1. View \in [Lbas -> GoodTables]
  BY LoadDirIsTable DEF View
<1>2. \A t \in Lbas, s \in Slots : View[t][s] \in GoodEntry
  BY <1>1 DEF GoodTables
<1>3. \A e \in GoodEntry : e.start \in Nat /\ e.count \in Nat
                           /\ (NamesDir(e) => Owns(e) /\ e.count = 1 /\ e.start \in Lbas)
  BY DEF GoodEntry, EntryType, EntryOK, NamesDir, Owns
<1>4. QED
  BY <1>1, <1>2, <1>3 DEF View

\* One level of the recursion in Tables.
NextLevel(S, bad) ==
    {LoadDir(o[1], bad)[o[2]].start :
        o \in {x \in S \X Slots : LET e == LoadDir(x[1], bad)[x[2]]
                                  IN e.used /\ e.isDir /\ e.count # 0}}

LEMMA LevelBelow ==
    ASSUME TypeInv, NEW D \in SUBSET Lbas, NEW lev \in Levels(D), TreeOK(View, D, lev),
           NEW d \in Nat
    PROVE  NextLevel({t \in D : lev[t] = d}, {}) = {t \in D : lev[t] = d + 1}
<1> DEFINE S == {t \in D : lev[t] = d}
<1>1. ASSUME NEW u \in NextLevel(S, {}) PROVE u \in D /\ lev[u] = d + 1
  <2>1. PICK o \in S \X Slots : /\ u = LoadDir(o[1], {})[o[2]].start
                                /\ NamesDir(LoadDir(o[1], {})[o[2]])
    BY <1>1 DEF NextLevel, NamesDir
  <2>2. o[1] \in D /\ o[2] \in Slots /\ lev[o[1]] = d /\ LoadDir(o[1], {}) = View[o[1]]
    BY ViewIsTables
  <2>3. QED
    BY <2>1, <2>2 DEF TreeOK
<1>2. ASSUME NEW u \in D, lev[u] = d + 1 PROVE u \in NextLevel(S, {})
  <2>1. u # DIR_LBA
    BY <1>2 DEF TreeOK
  <2>2. PICK t \in D, s \in Slots : NamesDir(View[t][s]) /\ View[t][s].start = u
    BY <2>1 DEF TreeOK
  <2>3. lev[u] = lev[t] + 1 /\ lev[t] \in Int
    BY <2>2 DEF TreeOK, Levels
  <2>4. t \in S
    BY <1>2, <2>3
  <2>5. LoadDir(t, {}) = View[t] /\ View[t][s].count # 0
    BY <2>2, ViewIsTables DEF Owns
  <2> DEFINE o == <<t, s>>
  <2>6. o \in S \X Slots /\ o[1] = t /\ o[2] = s
    BY <2>4
  <2>7. QED
    BY <2>2, <2>5, <2>6 DEF NextLevel, NamesDir
<1>3. QED
  BY <1>1, <1>2

LEMMA TablesByLevel ==
    ASSUME TypeInv, NEW D \in SUBSET Lbas, NEW lev \in Levels(D), TreeOK(View, D, lev),
           NEW depth \in Nat
    PROVE  Tables(depth, {}) = {t \in D : lev[t] <= depth}
<1> DEFINE at[d \in 0 .. depth] ==
             IF d = 0 THEN {DIR_LBA}
             ELSE {LoadDir(o[1], {})[o[2]].start :
                     o \in {x \in at[d - 1] \X Slots :
                              LET e == LoadDir(x[1], {})[x[2]]
                              IN e.used /\ e.isDir /\ e.count # 0}}
           f == [d \in 0 .. depth |-> {t \in D : lev[t] = d}]
<1>1. Tables(depth, {}) = UNION {at[d] : d \in 0 .. depth}
  BY DEF Tables
<1>2. f = [d \in 0 .. depth |-> IF d = 0 THEN {DIR_LBA} ELSE NextLevel(f[d - 1], {})]
  <2>1. ASSUME NEW d \in 0 .. depth
        PROVE  f[d] = IF d = 0 THEN {DIR_LBA} ELSE NextLevel(f[d - 1], {})
    <3>1. CASE d = 0
      <4>1. ASSUME NEW t \in D, lev[t] = 0, t # DIR_LBA PROVE FALSE
        <5>1. PICK u \in D, s \in Slots : NamesDir(View[u][s]) /\ View[u][s].start = t
          BY <4>1 DEF TreeOK
        <5>2. lev[t] = lev[u] + 1 /\ lev[u] \in Nat
          BY <5>1, FileSystemAssumption DEF TreeOK, Levels
        <5>3. QED
          BY <4>1, <5>2
      <4>2. QED
        BY <3>1, <4>1 DEF TreeOK
    <3>2. CASE d # 0
      <4>1. d - 1 \in Nat /\ d - 1 \in 0 .. depth /\ (d - 1) + 1 = d
        BY <3>2
      <4>2. NextLevel({t \in D : lev[t] = d - 1}, {}) = {t \in D : lev[t] = d}
        BY <4>1, LevelBelow
      <4>3. QED
        BY <3>2, <4>1, <4>2
    <3>3. QED
      BY <3>1, <3>2
  <2>2. QED
    BY <2>1
<1>3. at = [d \in 0 .. depth |-> IF d = 0 THEN {DIR_LBA} ELSE NextLevel(at[d - 1], {})]
  <2> HIDE DEF f
  <2>1. f = [d \in 0 .. depth |->
               IF d = 0 THEN {DIR_LBA}
               ELSE {LoadDir(o[1], {})[o[2]].start :
                       o \in {x \in f[d - 1] \X Slots :
                                LET e == LoadDir(x[1], {})[x[2]]
                                IN e.used /\ e.isDir /\ e.count # 0}}]
    BY <1>2 DEF NextLevel
  <2>2. at = [d \in 0 .. depth |->
                IF d = 0 THEN {DIR_LBA}
                ELSE {LoadDir(o[1], {})[o[2]].start :
                        o \in {x \in at[d - 1] \X Slots :
                                 LET e == LoadDir(x[1], {})[x[2]]
                                 IN e.used /\ e.isDir /\ e.count # 0}}]
    BY <2>1
  <2> HIDE DEF at
  <2>3. QED
    BY <2>2 DEF NextLevel
<1> HIDE DEF at
<1>4. \A d \in 0 .. depth : at[d] = f[d]
  <2> HIDE DEF f
  <2> DEFINE S == {d \in Nat : d <= depth => at[d] = f[d]}
  <2>1. 0 \in S
    BY <1>2, <1>3
  <2>2. ASSUME NEW d \in Nat, d \in S PROVE d + 1 \in S
    <3>1. CASE d + 1 <= depth
      <4>1. d + 1 \in 0 .. depth /\ d + 1 # 0 /\ (d + 1) - 1 = d /\ at[d] = f[d]
        BY <2>2, <3>1
      <4>2. at[d + 1] = NextLevel(at[d], {}) /\ f[d + 1] = NextLevel(f[d], {})
        BY <1>2, <1>3, <4>1
      <4>3. QED
        BY <4>1, <4>2
    <3>2. CASE ~(d + 1 <= depth)
      BY <3>2
    <3>3. QED
      BY <3>1, <3>2
  <2>3. Nat \subseteq S
    <3> HIDE DEF S
    <3>1. QED
      BY <2>1, <2>2, SetInduction
  <2>4. QED
    BY <2>3
<1>5. \A t \in D : lev[t] \in Nat
  BY FileSystemAssumption DEF Levels
<1>6. QED
  BY <1>1, <1>4, <1>5

\* A path that resolves leads to a directory of the tree, as deep as the path is long.
LEMMA ResolvedIsInTree ==
    ASSUME TypeInv, NEW D \in SUBSET Lbas, NEW lev \in Levels(D), TreeOK(View, D, lev),
           NEW dir, Len(dir) \in Nat, ResolveDir(dir, {}) # NoTable
    PROVE  ResolveDir(dir, {}) \in D /\ lev[ResolveDir(dir, {})] = Len(dir)
<1> DEFINE n == Len(dir)
<1>1. PICK f \in [0 .. n -> Lbas \cup {NoTable}] :
        /\ f[0] = DIR_LBA
        /\ \A i \in 1 .. n : f[i] = IF f[i - 1] = NoTable THEN NoTable
                                    ELSE Child(f[i - 1], dir[i], {})
        /\ ResolveDir(dir, {}) = IF n <= MaxDepth THEN f[n] ELSE NoTable
  BY ResolvedStepwise
<1> DEFINE S == {i \in Nat : i <= n /\ f[i] # NoTable => f[i] \in D /\ lev[f[i]] = i}
<1>2. 0 \in S
  BY <1>1 DEF TreeOK
<1>3. ASSUME NEW i \in Nat, i \in S PROVE i + 1 \in S
  <2>1. SUFFICES ASSUME i + 1 <= n, f[i + 1] # NoTable
                 PROVE  f[i + 1] \in D /\ lev[f[i + 1]] = i + 1
    OBVIOUS
  <2>2. i + 1 \in 1 .. n /\ (i + 1) - 1 = i /\ i <= n
    BY <2>1
  <2>3. f[i] # NoTable /\ f[i + 1] = Child(f[i], dir[i + 1], {})
    BY <1>1, <2>1, <2>2
  <2>4. f[i] \in D /\ lev[f[i]] = i
    BY <1>3, <2>2, <2>3
  <2>5. PICK s \in Slots : LET e == LoadDir(f[i], {})[s]
                           IN e.used /\ e.isDir /\ Child(f[i], dir[i + 1], {}) = e.start
    BY <2>1, <2>3, <2>4, ChildIsTable
  <2>6. NamesDir(View[f[i]][s]) /\ View[f[i]][s].start = f[i + 1]
    BY <2>3, <2>4, <2>5, ViewIsTables DEF NamesDir
  <2>7. QED
    BY <2>4, <2>6 DEF TreeOK
<1>4. Nat \subseteq S
  <2> HIDE DEF S
  <2>1. QED
    BY <1>2, <1>3, SetInduction
<1>5. QED
  BY <1>1, <1>4

\* The entries that own sectors, once the scan goes at least to the deepest table with entries.
LEMMA OwnersAreAll ==
    ASSUME TypeInv, NEW D \in SUBSET Lbas, NEW lev \in Levels(D), TreeOK(View, D, lev),
           NEW depth \in Nat, PathDepth <= depth
    PROVE  /\ Owners(depth, {}) = {o \in D \X Slots : Owns(View[o[1]][o[2]])}
           /\ \A o \in D \X Slots : Entry(o, {}) = View[o[1]][o[2]]
<1>1. Tables(depth, {}) = {t \in D : lev[t] <= depth}
  BY TablesByLevel
<1>2. \A o \in D \X Slots : Entry(o, {}) = View[o[1]][o[2]]
  BY ViewIsTables DEF Entry
<1>3. ASSUME NEW t \in D, NEW s \in Slots, Owns(View[t][s]) PROVE t \in Tables(depth, {})
  <2>1. lev[t] <= PathDepth /\ lev[t] \in Int /\ PathDepth \in Int
    BY <1>3, FileSystemAssumption DEF TreeOK, Owns, Levels
  <2>2. QED
    BY <1>1, <2>1
<1>4. ASSUME NEW o \in Owners(depth, {}) PROVE o \in D \X Slots /\ Owns(View[o[1]][o[2]])
  <2>1. o \in D \X Slots /\ Entry(o, {}).used /\ Entry(o, {}).count # 0
    BY <1>1 DEF Owners
  <2>2. QED
    BY <1>2, <2>1 DEF Owns
<1>5. ASSUME NEW o \in D \X Slots, Owns(View[o[1]][o[2]]) PROVE o \in Owners(depth, {})
  <2>1. o \in Tables(depth, {}) \X Slots
    BY <1>3, <1>5
  <2>2. QED
    BY <1>2, <1>5, <2>1 DEF Owners, Owns
<1>6. QED
  BY <1>2, <1>4, <1>5

LEMMA SameSpansOverlap ==
    ASSUME NEW a \in Nat, NEW n \in Nat \ {0}
    PROVE  Overlap(<<a, n>>, <<a, n>>)
BY DEF Overlap

\* What collect_occupied leaves out: nothing, or the one entry that is being overwritten.
LEMMA OccupiedByOthers ==
    ASSUME TypeInv, NEW D \in SUBSET Lbas, NEW lev \in Levels(D), TreeOK(View, D, lev),
           PathDepth < MaxDepth, NEW lba \in D, NEW k \in Slots,
           NEW t \in D, NEW s \in Slots, <<t, s>> # <<lba, k>>, Owns(View[t][s])
    PROVE  LET old == View[lba][k]
               exclude == IF old.used THEN <<old.start, old.count>> ELSE <<>>
           IN /\ Span(View[t][s]) \in Occupied(exclude, {})
              /\ Span(View[t][s]) \in Occupied(<<>>, {})
<1> DEFINE old == View[lba][k]
           exclude == IF old.used THEN <<old.start, old.count>> ELSE <<>>
           all == Owners(MaxDepth - 1, {})
           same(x) == {o \in all : <<Entry(o, {}).start, Entry(o, {}).count>> = x}
           o1 == <<t, s>>
<1>1. /\ all = {o \in D \X Slots : Owns(View[o[1]][o[2]])}
      /\ \A o \in D \X Slots : Entry(o, {}) = View[o[1]][o[2]]
  <2>1. MaxDepth - 1 \in Nat /\ PathDepth <= MaxDepth - 1
    BY FileSystemAssumption
  <2>2. QED
    BY <2>1, OwnersAreAll
<1>2. o1 \in all /\ Entry(o1, {}) = View[t][s]
  BY <1>1
<1> HIDE DEF all
<1>3. same(<<>>) = {}
  OBVIOUS
<1>4. \A o \in same(exclude) : o = <<lba, k>>
  <2> SUFFICES ASSUME NEW o \in same(exclude), o # <<lba, k>> PROVE FALSE
    OBVIOUS
  <2>1. /\ o[1] \in D /\ o[2] \in Slots /\ o = <<o[1], o[2]>> /\ Owns(View[o[1]][o[2]])
        /\ <<View[o[1]][o[2]].start, View[o[1]][o[2]].count>> = exclude
    BY <1>1
  <2>2. old.used /\ View[o[1]][o[2]].start = old.start /\ View[o[1]][o[2]].count = old.count
    BY <2>1
  <2>3. old.count # 0 /\ Owns(old) /\ old.start \in Nat /\ old.count \in Nat \ {0}
    BY <2>1, <2>2, ViewIsTables DEF Owns
  <2>4. ~Overlap(Span(View[o[1]][o[2]]), Span(old))
    BY <2>1, <2>3 DEF TreeOK
  <2>5. QED
    BY <2>2, <2>3, <2>4, SameSpansOverlap DEF Span
<1>5. \A x : Occupied(x, {}) =
               {<<Entry(o, {}).start, Entry(o, {}).count>> :
                  o \in IF same(x) = {} THEN all ELSE all \ {CHOOSE o \in same(x) : TRUE}}
  BY DEF Occupied, all
<1>6. ASSUME NEW x, \A o \in same(x) : o # o1
      PROVE  Span(View[t][s]) \in Occupied(x, {})
  <2>1. same(x) # {} => (CHOOSE o \in same(x) : TRUE) # o1
    BY <1>6
  <2>2. o1 \in IF same(x) = {} THEN all ELSE all \ {CHOOSE o \in same(x) : TRUE}
    BY <1>2, <2>1
  <2>3. QED
    BY <1>2, <1>5, <2>2 DEF Span
<1>7. QED
  BY <1>3, <1>4, <1>6

-----------------------------------------------------------------------------
(* What the directories are called, and what they show.                    *)

\* pth is the path of each directory of D; no two have the same, and no two entries of one.
Named(v, D, pth) ==
    /\ pth \in [D -> Seq(NameSet)] /\ pth[DIR_LBA] = <<>>
    /\ \A t \in D, s \in Slots :
         NamesDir(v[t][s]) => pth[v[t][s].start] = Append(pth[t], v[t][s].name)
    /\ \A t, u \in D : pth[t] = pth[u] => t = u
    /\ \A t \in D, s, r \in Slots :
         v[t][s].used /\ v[t][r].used /\ v[t][s].name = v[t][r].name => s = r

\* A path that resolves leads to the directory of that path.
LEMMA ResolvedIsNamed ==
    ASSUME TypeInv, NEW D \in SUBSET Lbas, NEW lev \in Levels(D), TreeOK(View, D, lev),
           NEW pth, Named(View, D, pth),
           NEW dir \in Seq(Name), ResolveDir(dir, {}) # NoTable
    PROVE  ResolveDir(dir, {}) \in D /\ pth[ResolveDir(dir, {})] = Key(dir)
<1> DEFINE n == Len(dir)
           Cut(i) == [j \in 1 .. i |-> NameBytes(dir[j])]
<1>0. n \in Nat
  OBVIOUS
<1>1. PICK f \in [0 .. n -> Lbas \cup {NoTable}] :
        /\ f[0] = DIR_LBA
        /\ \A i \in 1 .. n : f[i] = IF f[i - 1] = NoTable THEN NoTable
                                    ELSE Child(f[i - 1], dir[i], {})
        /\ ResolveDir(dir, {}) = IF n <= MaxDepth THEN f[n] ELSE NoTable
  BY <1>0, ResolvedStepwise
<1> DEFINE S == {i \in Nat : i <= n /\ f[i] # NoTable => f[i] \in D /\ pth[f[i]] = Cut(i)}
<1>2. 0 \in S
  <2>1. Cut(0) = <<>>
    OBVIOUS
  <2> HIDE DEF Cut
  <2>2. QED
    BY <1>1, <2>1 DEF TreeOK, Named
<1>3. ASSUME NEW i \in Nat, i \in S PROVE i + 1 \in S
  <2>1. SUFFICES ASSUME i + 1 <= n, f[i + 1] # NoTable
                 PROVE  f[i + 1] \in D /\ pth[f[i + 1]] = Cut(i + 1)
    OBVIOUS
  <2>2. i + 1 \in 1 .. n /\ (i + 1) - 1 = i /\ i <= n
    BY <2>1
  <2>3. f[i] # NoTable /\ f[i + 1] = Child(f[i], dir[i + 1], {})
    BY <1>1, <2>1, <2>2
  <2>4. f[i] \in D /\ pth[f[i]] = Cut(i)
    BY <1>3, <2>2, <2>3
  <2>5. PICK s \in Slots : LET e == LoadDir(f[i], {})[s]
                           IN /\ e.used /\ e.isDir /\ e.name = NameBytes(dir[i + 1])
                              /\ Child(f[i], dir[i + 1], {}) = e.start
    BY <2>1, <2>3, <2>4, ChildIsTable
  <2>6. /\ NamesDir(View[f[i]][s]) /\ View[f[i]][s].start = f[i + 1]
        /\ View[f[i]][s].name = NameBytes(dir[i + 1])
    BY <2>3, <2>4, <2>5, ViewIsTables DEF NamesDir
  <2>7. f[i + 1] \in D /\ pth[f[i + 1]] = Append(Cut(i), NameBytes(dir[i + 1]))
    <3> DEFINE t == f[i]
               u == f[i + 1]
    <3>1. t \in D /\ NamesDir(View[t][s]) /\ View[t][s].start = u
      BY <2>4, <2>6
    <3> HIDE DEF t, u, Cut, S
    <3>2. u \in D
      BY <3>1 DEF TreeOK
    <3>3. pth[u] = Append(pth[t], View[t][s].name)
      BY <3>1 DEF Named
    <3> USE DEF t, u
    <3>4. QED
      BY <2>4, <2>6, <3>2, <3>3
  <2>8. Append(Cut(i), NameBytes(dir[i + 1])) = Cut(i + 1)
    <3>1. \A j \in 1 .. i + 1 : dir[j] \in Name /\ NameBytes(dir[j]) \in NameSet
      BY <1>0, <2>1, ElementOfSeq DEF NameSet
    <3>2. /\ Cut(i) \in Seq(NameSet) /\ Len(Cut(i)) = i
          /\ \A j \in 1 .. i : Cut(i)[j] = NameBytes(dir[j])
      BY <3>1
    <3>3. /\ Cut(i + 1) \in Seq(NameSet) /\ Len(Cut(i + 1)) = i + 1
          /\ \A j \in 1 .. i + 1 : Cut(i + 1)[j] = NameBytes(dir[j])
      BY <3>1
    <3> HIDE DEF Cut
    <3> DEFINE q == Append(Cut(i), NameBytes(dir[i + 1]))
    <3>4. /\ q \in Seq(NameSet) /\ Len(q) = i + 1 /\ q[i + 1] = NameBytes(dir[i + 1])
          /\ \A j \in 1 .. i : q[j] = NameBytes(dir[j])
      <4>1. NameBytes(dir[i + 1]) \in NameSet
        BY <3>1
      <4>2. QED
        BY <3>2, <4>1, AppendProperties
    <3> HIDE DEF q
    <3>5. \A j \in 1 .. i + 1 : j \in 1 .. i \/ j = i + 1
      OBVIOUS
    <3>6. \A j \in 1 .. Len(q) : q[j] = Cut(i + 1)[j]
      BY <3>3, <3>4, <3>5
    <3>7. q = Cut(i + 1)
      BY <3>3, <3>4, <3>6, SeqEqual
    <3>8. QED
      BY <3>7 DEF q
  <2>9. QED
    BY <2>7, <2>8
<1>4. Nat \subseteq S
  <2> HIDE DEF S
  <2>1. QED
    BY <1>2, <1>3, SetInduction
<1>5. ResolveDir(dir, {}) = f[n] /\ f[n] # NoTable
  BY <1>1
<1>6. n \in S
  <2> HIDE DEF S
  <2>1. QED
    BY <1>0, <1>4
<1>7. f[n] \in D /\ pth[f[n]] = Cut(n)
  BY <1>0, <1>5, <1>6
<1>8. QED
  BY <1>5, <1>7 DEF Key

\* read_file on an entry of the disk d, and the node of the tree that an entry shows.
ContentsOn(d, e) ==
    [b \in 1 .. e.len |->
        d[e.start + (b - 1) \div SectorSize].bytes[((b - 1) % SectorSize) + 1]]
NodeOf(p, e, d) ==
    [path |-> Append(p, e.name), isDir |-> e.isDir,
     data |-> IF e.isDir THEN <<>> ELSE ContentsOn(d, e)]
UsedSlots(v, D) == {o \in D \X Slots : v[o[1]][o[2]].used}
Shown(v, d, D, pth) == {NodeOf(pth[o[1]], v[o[1]][o[2]], d) : o \in UsedSlots(v, D)}

\* Names are found where they are, so every entry of a table is visible.
LEMMA AllAreVisible ==
    ASSUME TypeInv, NEW D \in SUBSET Lbas, NEW pth, Named(View, D, pth), NEW t \in D
    PROVE  Visible(LoadDir(t, {})) = {View[t][s] : s \in {r \in Slots : View[t][r].used}}
<1> DEFINE table == LoadDir(t, {})
<1>1. table = View[t] /\ \A s \in Slots : View[t][s] \in GoodEntry
  BY ViewIsTables
<1>2. ASSUME NEW r \in Slots, table[r].used
      PROVE  Lowest(Find(table, table[r].name)) = r
  <2>1. table[r].name \in NameSet
    BY <1>1 DEF GoodEntry, EntryType, NameSet
  <2>2. NameBytes(table[r].name) = table[r].name
    BY <2>1, CutTwice
  <2>3. Find(table, table[r].name) = {r}
    BY <1>1, <1>2, <2>2 DEF Find, Named
  <2>4. Lowest({r}) \in {r}
    BY FoundIsSlot
  <2>5. QED
    BY <2>3, <2>4
<1>3. {r \in Slots : table[r].used /\ r = Lowest(Find(table, table[r].name))}
        = {r \in Slots : table[r].used}
  BY <1>2
<1>4. Visible(table) = {table[s] : s \in {r \in Slots : table[r].used}}
  <2>1. Visible(table) = {table[s] : s \in {r \in Slots :
                            table[r].used /\ r = Lowest(Find(table, table[r].name))}}
    BY DEF Visible
  <2>2. QED
    BY <1>3, <2>1
<1>5. QED
  BY <1>1, <1>4

\* What one table shows under the path of its directory.
Row(v, pth, t) ==
    {[path |-> Append(pth[t], v[t][s].name), entry |-> v[t][s]] :
        s \in {r \in Slots : v[t][r].used}}

LEMMA BelowIsRow ==
    ASSUME TypeInv, NEW D \in SUBSET Lbas, NEW pth, Named(View, D, pth), NEW t \in D
    PROVE  Below(pth[t], t) = Row(View, pth, t)
<1>1. Visible(LoadDir(t, {})) = {View[t][s] : s \in {r \in Slots : View[t][r].used}}
  BY AllAreVisible
<1>2. Below(pth[t], t) =
        {[path |-> Append(pth[t], e.name), entry |-> e] : e \in Visible(LoadDir(t, {}))}
  BY DEF Below
<1>3. QED
  BY <1>1, <1>2 DEF Row

LEMMA FoundIsRows ==
    ASSUME TypeInv, NEW D \in SUBSET Lbas, NEW lev \in Levels(D), TreeOK(View, D, lev),
           NEW pth, Named(View, D, pth)
    PROVE  Found = UNION {Row(View, pth, t) : t \in D}
<1> DEFINE at[d \in 0 .. PathDepth] ==
             IF d = 0 THEN Below(<<>>, DIR_LBA)
             ELSE UNION {Below(f.path, f.entry.start) : f \in {g \in at[d - 1] : g.entry.isDir}}
           Level(d) == UNION {Row(View, pth, t) : t \in {x \in D : lev[x] = d}}
<1>0. PathDepth \in Nat /\ \A t \in D : lev[t] \in Nat
  BY FileSystemAssumption DEF Levels
<1>1. Found = UNION {at[d] : d \in 0 .. PathDepth}
  BY DEF Found
<1>2. Below(<<>>, DIR_LBA) = Level(0)
  <2>1. ASSUME NEW t \in D, lev[t] = 0, t # DIR_LBA PROVE FALSE
    <3>1. PICK u \in D, s \in Slots : NamesDir(View[u][s]) /\ View[u][s].start = t
      BY <2>1 DEF TreeOK
    <3>2. lev[t] = lev[u] + 1 /\ lev[u] \in Nat
      BY <1>0, <3>1 DEF TreeOK
    <3>3. QED
      BY <2>1, <3>2
  <2>2. DIR_LBA \in D /\ lev[DIR_LBA] = 0 /\ pth[DIR_LBA] = <<>>
    BY DEF TreeOK, Named
  <2>3. {x \in D : lev[x] = 0} = {DIR_LBA}
    BY <2>1, <2>2
  <2>4. Below(<<>>, DIR_LBA) = Row(View, pth, DIR_LBA)
    BY <2>2, BelowIsRow
  <2>5. QED
    BY <2>3, <2>4
<1>3. ASSUME NEW d \in Nat
      PROVE  UNION {Below(f.path, f.entry.start) : f \in {g \in Level(d) : g.entry.isDir}}
               = Level(d + 1)
  <2> DEFINE Dirs == {g \in Level(d) : g.entry.isDir}
             Deeper == {x \in D : lev[x] = d + 1}
  <2>1. ASSUME NEW f \in Dirs
        PROVE  \E u \in Deeper : Below(f.path, f.entry.start) = Row(View, pth, u)
    <3>1. PICK t \in D, s \in Slots :
            /\ lev[t] = d /\ View[t][s].used
            /\ f = [path |-> Append(pth[t], View[t][s].name), entry |-> View[t][s]]
      BY DEF Row
    <3> DEFINE u == View[t][s].start
    <3>2. NamesDir(View[t][s])
      BY <3>1 DEF NamesDir
    <3>3. u \in D /\ lev[u] = d + 1
      BY <3>1, <3>2 DEF TreeOK
    <3>4. pth[u] = Append(pth[t], View[t][s].name)
      BY <3>2 DEF Named
    <3>5. f.path = pth[u] /\ f.entry.start = u
      BY <3>1, <3>4
    <3>6. Below(pth[u], u) = Row(View, pth, u)
      BY <3>3, BelowIsRow
    <3>7. QED
      BY <3>3, <3>5, <3>6
  <2>2. ASSUME NEW u \in Deeper
        PROVE  \E f \in Dirs : Below(f.path, f.entry.start) = Row(View, pth, u)
    <3>1. u \in D /\ lev[u] = d + 1 /\ u # DIR_LBA
      BY DEF TreeOK
    <3>2. PICK t \in D, s \in Slots : NamesDir(View[t][s]) /\ View[t][s].start = u
      BY <3>1 DEF TreeOK
    <3>3. lev[u] = lev[t] + 1 /\ lev[t] \in Nat
      BY <1>0, <3>2 DEF TreeOK
    <3>4. lev[t] = d
      BY <3>1, <3>3
    <3> DEFINE f == [path |-> Append(pth[t], View[t][s].name), entry |-> View[t][s]]
    <3>5. f \in Row(View, pth, t) /\ f.entry.isDir
      BY <3>2 DEF Row, NamesDir
    <3>6. f \in Dirs
      BY <3>4, <3>5
    <3>7. pth[u] = Append(pth[t], View[t][s].name)
      BY <3>2 DEF Named
    <3>8. f.path = pth[u] /\ f.entry.start = u
      BY <3>2, <3>7
    <3>9. Below(pth[u], u) = Row(View, pth, u)
      BY <3>1, BelowIsRow
    <3> HIDE DEF f, Dirs
    <3>10. QED
      BY <3>6, <3>8, <3>9
  <2> HIDE DEF Dirs, Deeper
  <2>3. UNION {Below(f.path, f.entry.start) : f \in Dirs} =
          UNION {Row(View, pth, u) : u \in Deeper}
    BY <2>1, <2>2
  <2>4. QED
    BY <2>3 DEF Dirs, Deeper
<1>4. ASSUME NEW d \in 0 .. PathDepth PROVE at[d] = Level(d)
  <2> DEFINE F == [i \in 0 .. PathDepth |-> Level(i)]
  <2>1. F = [i \in 0 .. PathDepth |->
               IF i = 0 THEN Below(<<>>, DIR_LBA)
               ELSE UNION {Below(f.path, f.entry.start) : f \in {g \in F[i - 1] : g.entry.isDir}}]
    <3>1. ASSUME NEW i \in 0 .. PathDepth
          PROVE  F[i] = IF i = 0 THEN Below(<<>>, DIR_LBA)
                        ELSE UNION {Below(f.path, f.entry.start) :
                                      f \in {g \in F[i - 1] : g.entry.isDir}}
      <4> HIDE DEF Level
      <4>1. CASE i = 0
        BY <1>2, <4>1
      <4>2. CASE i # 0
        <5>1. i - 1 \in Nat /\ i - 1 \in 0 .. PathDepth /\ (i - 1) + 1 = i
          BY <1>0, <4>2
        <5>2. F[i] = Level(i) /\ F[i - 1] = Level(i - 1)
          BY <5>1
        <5>3. UNION {Below(f.path, f.entry.start) :
                       f \in {g \in Level(i - 1) : g.entry.isDir}} = Level(i)
          <6>1. UNION {Below(f.path, f.entry.start) :
                         f \in {g \in Level(i - 1) : g.entry.isDir}} = Level((i - 1) + 1)
            BY <1>3, <5>1
          <6>2. QED
            BY <5>1, <6>1
        <5> HIDE DEF F
        <5>4. QED
          BY <4>2, <5>2, <5>3
      <4>3. QED
        BY <4>1, <4>2
    <3> HIDE DEF Level
    <3>2. F = [i \in 0 .. PathDepth |-> F[i]]
      OBVIOUS
    <3> HIDE DEF F
    <3>3. QED
      BY <3>1, <3>2
  <2> HIDE DEF F, Level
  <2>2. at = [i \in 0 .. PathDepth |->
                IF i = 0 THEN Below(<<>>, DIR_LBA)
                ELSE UNION {Below(f.path, f.entry.start) :
                              f \in {g \in at[i - 1] : g.entry.isDir}}]
    BY <2>1
  <2> HIDE DEF at
  <2> DEFINE S == {i \in Nat : i <= PathDepth => at[i] = F[i]}
  <2>3. 0 \in S
    <3>1. 0 \in 0 .. PathDepth
      BY <1>0
    <3>2. at[0] = Below(<<>>, DIR_LBA) /\ F[0] = Below(<<>>, DIR_LBA)
      BY <2>1, <2>2, <3>1
    <3>3. QED
      BY <3>2
  <2>4. ASSUME NEW i \in Nat, i \in S PROVE i + 1 \in S
    <3>1. SUFFICES ASSUME i + 1 <= PathDepth PROVE at[i + 1] = F[i + 1]
      OBVIOUS
    <3>2. i + 1 \in 0 .. PathDepth /\ i + 1 # 0 /\ (i + 1) - 1 = i /\ at[i] = F[i]
      BY <1>0, <2>4, <3>1
    <3>3. at[i + 1] = UNION {Below(f.path, f.entry.start) : f \in {g \in at[i] : g.entry.isDir}}
      BY <2>2, <3>2
    <3>4. F[i + 1] = UNION {Below(f.path, f.entry.start) : f \in {g \in F[i] : g.entry.isDir}}
      BY <2>1, <3>2
    <3>5. QED
      BY <3>2, <3>3, <3>4
  <2>5. Nat \subseteq S
    <3> HIDE DEF S
    <3>1. QED
      BY <2>3, <2>4, SetInduction
  <2>6. d \in S /\ d \in Nat /\ d <= PathDepth
    <3> HIDE DEF S
    <3>1. d \in Nat /\ d <= PathDepth
      BY <1>0
    <3>2. QED
      BY <2>5, <3>1
  <2>7. at[d] = F[d]
    BY <2>6
  <2>8. QED
    BY <2>7 DEF F
<1>5. ASSUME NEW t \in D, NEW x \in Row(View, pth, t) PROVE lev[t] \in 0 .. PathDepth
  <2>1. PICK s \in Slots : View[t][s].used
    BY DEF Row
  <2>2. QED
    BY <1>0, <2>1 DEF TreeOK
<1> HIDE DEF at
<1>6. UNION {at[d] : d \in 0 .. PathDepth} = UNION {Level(d) : d \in 0 .. PathDepth}
  <2> HIDE DEF Level
  <2>1. QED
    BY <1>4
<1>7. QED
  BY <1>1, <1>5, <1>6

\* The tree of the refinement mapping, in terms of the directories and their paths.
TreeLaw ==
    \A D \in SUBSET Lbas : \A lev \in Levels(D) : \A pth :
        TreeOK(View, D, lev) /\ Named(View, D, pth) => Tree = Shown(View, disk, D, pth)

LEMMA TreeIsShown == TypeInv => TreeLaw
<1> SUFFICES ASSUME TypeInv, NEW D \in SUBSET Lbas, NEW lev \in Levels(D), NEW pth,
                    TreeOK(View, D, lev), Named(View, D, pth)
             PROVE  Tree = Shown(View, disk, D, pth)
  BY DEF TreeLaw
<1>1. Found = UNION {Row(View, pth, t) : t \in D}
  BY FoundIsRows
<1> DEFINE N(f) == [path |-> f.path, isDir |-> f.entry.isDir,
                    data |-> IF f.entry.isDir THEN <<>> ELSE Contents(f.entry)]
           Pair(t, s) == [path |-> Append(pth[t], View[t][s].name), entry |-> View[t][s]]
<1>2. Tree = {N(f) : f \in Found}
  BY DEF Tree
<1>3. ASSUME NEW t, NEW s PROVE N(Pair(t, s)) = NodeOf(pth[t], View[t][s], disk)
  BY DEF NodeOf, Contents, ContentsOn
<1>4. ASSUME NEW f \in Found PROVE N(f) \in Shown(View, disk, D, pth)
  <2>1. PICK t \in D, s \in Slots : View[t][s].used /\ f = Pair(t, s)
    BY <1>1 DEF Row
  <2> DEFINE o == <<t, s>>
  <2>2. o \in UsedSlots(View, D) /\ o[1] = t /\ o[2] = s
    BY <2>1 DEF UsedSlots
  <2> HIDE DEF N, Pair, o
  <2>3. QED
    BY <1>3, <2>1, <2>2 DEF Shown
<1>5. ASSUME NEW n \in Shown(View, disk, D, pth) PROVE \E f \in Found : n = N(f)
  <2>1. PICK o \in UsedSlots(View, D) : n = NodeOf(pth[o[1]], View[o[1]][o[2]], disk)
    BY DEF Shown
  <2>2. o[1] \in D /\ o[2] \in Slots /\ View[o[1]][o[2]].used
    BY <2>1 DEF UsedSlots
  <2>3. Pair(o[1], o[2]) \in Row(View, pth, o[1])
    BY <2>2 DEF Row
  <2> HIDE DEF N, Pair
  <2>4. Pair(o[1], o[2]) \in Found
    BY <1>1, <2>2, <2>3
  <2>5. QED
    BY <1>3, <2>1, <2>4
<1> HIDE DEF N
<1>6. QED
  BY <1>2, <1>4, <1>5

-----------------------------------------------------------------------------
(* How a table of the tree may change.                                     *)

\* The sectors of entry e, in slot k of table lba, are nobody else's.
Fits(v, D, lba, k, e) ==
    Owns(e) =>
      /\ e.start > DIR_LBA
      /\ \A t \in D, s \in Slots :
           <<t, s>> # <<lba, k>> /\ Owns(v[t][s]) => ~Overlap(Span(e), Span(v[t][s]))

\* An entry goes, that of a directory only if this is empty; or one is made or, for a file,
\* replaced.
Change(v, D, lev, lba, k, e) ==
    \/ /\ e = Empty
       /\ NamesDir(v[lba][k]) => \A s \in Slots : ~v[v[lba][k].start][s].used
    \/ /\ e.used /\ ~NamesDir(v[lba][k]) /\ lev[lba] <= PathDepth
       /\ Fits(v, D, lba, k, e)

\* w is v with e in slot k of table lba, as far as D is concerned.
Changed(v, w, D, lba, k, e) ==
    \A t \in D, s \in Slots : w[t][s] = IF <<t, s>> = <<lba, k>> THEN e ELSE v[t][s]

LEMMA SpansStayApart ==
    ASSUME NEW v, NEW w, NEW D, NEW lev, TreeOK(v, D, lev), NEW lba \in D, NEW k \in Slots, NEW e,
           Fits(v, D, lba, k, e), Changed(v, w, D, lba, k, e)
    PROVE  /\ \A t, u \in D, s, r \in Slots :
                <<t, s>> # <<u, r>> /\ Owns(w[t][s]) /\ Owns(w[u][r]) =>
                  ~Overlap(Span(w[t][s]), Span(w[u][r]))
           /\ \A t \in D, s \in Slots : Owns(w[t][s]) => w[t][s].start > DIR_LBA
<1>1. \A a, b : Overlap(a, b) <=> Overlap(b, a)
  BY DEF Overlap
<1>2. ASSUME NEW t \in D, NEW u \in D, NEW s \in Slots, NEW r \in Slots,
             <<t, s>> # <<u, r>>, Owns(w[t][s]), Owns(w[u][r])
      PROVE  ~Overlap(Span(w[t][s]), Span(w[u][r]))
  <2>1. CASE <<t, s>> = <<lba, k>>
    <3>1. w[t][s] = e /\ w[u][r] = v[u][r] /\ <<u, r>> # <<lba, k>>
      BY <1>2, <2>1 DEF Changed
    <3>2. QED
      BY <1>2, <3>1 DEF Fits
  <2>2. CASE <<u, r>> = <<lba, k>>
    <3>1. w[u][r] = e /\ w[t][s] = v[t][s] /\ <<t, s>> # <<lba, k>>
      BY <1>2, <2>2 DEF Changed
    <3>2. QED
      BY <1>1, <1>2, <3>1 DEF Fits
  <2>3. CASE <<t, s>> # <<lba, k>> /\ <<u, r>> # <<lba, k>>
    <3>1. w[u][r] = v[u][r] /\ w[t][s] = v[t][s]
      BY <2>3 DEF Changed
    <3>2. QED
      BY <1>2, <3>1 DEF TreeOK
  <2>4. QED
    BY <2>1, <2>2, <2>3
<1>3. ASSUME NEW t \in D, NEW s \in Slots, Owns(w[t][s]) PROVE w[t][s].start > DIR_LBA
  <2>1. CASE <<t, s>> = <<lba, k>>
    <3>1. w[t][s] = e
      BY <2>1 DEF Changed
    <3>2. QED
      BY <1>3, <3>1 DEF Fits
  <2>2. CASE <<t, s>> # <<lba, k>>
    <3>1. w[t][s] = v[t][s]
      BY <2>2 DEF Changed
    <3>2. QED
      BY <1>3, <3>1 DEF TreeOK
  <2>3. QED
    BY <2>1, <2>2
<1>4. QED
  BY <1>2, <1>3

\* No directory is made or removed: write_file and delete_file.
LEMMA FileChangeKeepsTree ==
    ASSUME NEW v, NEW w, NEW D, NEW lev, TreeOK(v, D, lev), NEW lba \in D, NEW k \in Slots, NEW e,
           Fits(v, D, lba, k, e), Changed(v, w, D, lba, k, e),
           ~NamesDir(v[lba][k]), ~NamesDir(e), e.used => lev[lba] <= PathDepth
    PROVE  TreeOK(w, D, lev)
<1>1. \A t \in D, s \in Slots : NamesDir(w[t][s]) => w[t][s] = v[t][s]
  BY DEF Changed
<1>2. \A t \in D, s \in Slots : NamesDir(v[t][s]) => w[t][s] = v[t][s]
  <2> SUFFICES ASSUME NEW t \in D, NEW s \in Slots, NamesDir(v[t][s]) PROVE w[t][s] = v[t][s]
    OBVIOUS
  <2>1. <<t, s>> # <<lba, k>>
    OBVIOUS
  <2>2. QED
    BY <2>1 DEF Changed
<1>3. \A t \in D, s \in Slots : w[t][s].used => lev[t] <= PathDepth
  <2> SUFFICES ASSUME NEW t \in D, NEW s \in Slots, w[t][s].used PROVE lev[t] <= PathDepth
    OBVIOUS
  <2>1. CASE <<t, s>> = <<lba, k>>
    BY <2>1 DEF Changed
  <2>2. CASE <<t, s>> # <<lba, k>>
    BY <2>2 DEF Changed, TreeOK
  <2>3. QED
    BY <2>1, <2>2
<1>4. \A t \in D, s \in Slots :
        NamesDir(w[t][s]) => w[t][s].start \in D /\ lev[w[t][s].start] = lev[t] + 1
  BY <1>1 DEF TreeOK
<1>5. \A u \in D \ {DIR_LBA} : \E t \in D, s \in Slots : NamesDir(w[t][s]) /\ w[t][s].start = u
  <2> SUFFICES ASSUME NEW u \in D \ {DIR_LBA}
               PROVE  \E t \in D, s \in Slots : NamesDir(w[t][s]) /\ w[t][s].start = u
    OBVIOUS
  <2>1. PICK t \in D, s \in Slots : NamesDir(v[t][s]) /\ v[t][s].start = u
    BY DEF TreeOK
  <2>2. QED
    BY <1>2, <2>1
<1>6. DIR_LBA \in D /\ lev[DIR_LBA] = 0
  BY DEF TreeOK
<1>7. QED
  BY <1>3, <1>4, <1>5, <1>6, SpansStayApart DEF TreeOK

\* Two entries that name directories name different ones.
LEMMA DirsAreNamedOnce ==
    ASSUME NEW v, NEW D \in SUBSET Lbas, NEW lev, TreeOK(v, D, lev), v \in [Lbas -> GoodTables],
           NEW t \in D, NEW u \in D, NEW s \in Slots, NEW r \in Slots,
           NamesDir(v[t][s]), NamesDir(v[u][r]), v[t][s].start = v[u][r].start
    PROVE  <<t, s>> = <<u, r>>
<1>1. v[t][s] \in GoodEntry /\ v[u][r] \in GoodEntry
  BY DEF GoodTables
<1>2. /\ Owns(v[t][s]) /\ v[t][s].count = 1 /\ v[t][s].start \in Nat
      /\ Owns(v[u][r]) /\ v[u][r].count = 1
  BY <1>1 DEF GoodEntry, EntryType, EntryOK, NamesDir, Owns
<1>3. Overlap(Span(v[t][s]), Span(v[u][r]))
  BY <1>2 DEF Overlap, Span
<1>4. QED
  BY <1>2, <1>3 DEF TreeOK

\* The sector of a directory about to be made is not yet one of the tree's tables.
LEMMA FreshTable ==
    ASSUME NEW v, NEW D \in SUBSET Lbas, NEW lev, TreeOK(v, D, lev), v \in [Lbas -> GoodTables],
           NEW lba \in D, NEW k \in Slots, NEW e, Fits(v, D, lba, k, e), ~NamesDir(v[lba][k]),
           Owns(e), NEW i \in Nat, i < e.count, e.start \in Nat, e.count \in Nat
    PROVE  e.start + i \notin D
<1> SUFFICES ASSUME e.start + i \in D PROVE FALSE
  OBVIOUS
<1> DEFINE x == e.start + i
<1>1. x # DIR_LBA
  BY DEF DIR_LBA, Fits
<1>2. PICK t \in D, s \in Slots : NamesDir(v[t][s]) /\ v[t][s].start = x
  BY <1>1 DEF TreeOK
<1>3. v[t][s] \in GoodEntry /\ <<t, s>> # <<lba, k>>
  BY <1>2 DEF GoodTables
<1>4. Owns(v[t][s]) /\ v[t][s].count = 1
  BY <1>2, <1>3 DEF GoodEntry, EntryOK, NamesDir, Owns
<1>5. ~Overlap(Span(e), Span(v[t][s]))
  BY <1>3, <1>4 DEF Fits
<1>6. QED
  BY <1>2, <1>4, <1>5 DEF Overlap, Span

LEMMA FreshDir ==
    ASSUME NEW v, NEW D \in SUBSET Lbas, NEW lev, TreeOK(v, D, lev), v \in [Lbas -> GoodTables],
           NEW lba \in D, NEW k \in Slots, NEW e, Fits(v, D, lba, k, e), ~NamesDir(v[lba][k]),
           Owns(e), e.count = 1, e.start \in Nat
    PROVE  e.start \notin D
<1> DEFINE i == 0
<1>1. i \in Nat /\ i < e.count /\ e.count \in Nat
  OBVIOUS
<1> HIDE DEF i
<1>2. e.start + i \notin D
  BY <1>1, FreshTable
<1>3. QED
  BY <1>2 DEF i

\* mkdir: the new table is empty and owned by nobody.
LEMMA NewDirKeepsTree ==
    ASSUME NEW v, NEW w, NEW D \in SUBSET Lbas, NEW lev \in Levels(D), TreeOK(v, D, lev),
           v \in [Lbas -> GoodTables],
           NEW lba \in D, NEW k \in Slots, NEW e \in GoodEntry,
           Fits(v, D, lba, k, e), Changed(v, w, D, lba, k, e),
           ~NamesDir(v[lba][k]), NamesDir(e), lev[lba] <= PathDepth,
           \A s \in Slots : ~w[e.start][s].used
    PROVE  /\ D \cup {e.start} \in SUBSET Lbas
           /\ \E fl \in Levels(D \cup {e.start}) : TreeOK(w, D \cup {e.start}, fl)
<1> DEFINE x == e.start
           E == D \cup {x}
           fl == [t \in E |-> IF t = x THEN lev[lba] + 1 ELSE lev[t]]
<1>1. /\ Owns(e) /\ e.count = 1 /\ x \in Lbas /\ x \in Nat /\ x > DIR_LBA
  BY DEF GoodEntry, EntryType, EntryOK, NamesDir, Owns, Fits
<1>2. x \notin D
  BY <1>1, FreshDir
<1>3. /\ lev[lba] \in 0 .. PathDepth /\ fl \in Levels(E) /\ E \in SUBSET Lbas
      /\ fl[x] = lev[lba] + 1 /\ \A t \in D : fl[t] = lev[t]
  BY <1>1, <1>2, FileSystemAssumption DEF Levels
<1> HIDE DEF fl
<1>4. \A t \in D, s \in Slots : NamesDir(v[t][s]) => w[t][s] = v[t][s]
  <2> SUFFICES ASSUME NEW t \in D, NEW s \in Slots, NamesDir(v[t][s]) PROVE w[t][s] = v[t][s]
    OBVIOUS
  <2>1. <<t, s>> # <<lba, k>>
    OBVIOUS
  <2>2. QED
    BY <2>1 DEF Changed
<1>5. w[lba][k] = e
  BY DEF Changed
<1>6. ASSUME NEW t \in E, NEW s \in Slots, NamesDir(w[t][s])
      PROVE  w[t][s].start \in E /\ fl[w[t][s].start] = fl[t] + 1
  <2>1. t \in D
    BY <1>6 DEF NamesDir
  <2>2. CASE <<t, s>> = <<lba, k>>
    BY <1>3, <1>5, <2>1, <2>2
  <2>3. CASE <<t, s>> # <<lba, k>>
    <3>1. w[t][s] = v[t][s]
      BY <2>1, <2>3 DEF Changed
    <3>2. v[t][s].start \in D /\ lev[v[t][s].start] = lev[t] + 1
      BY <1>6, <2>1, <3>1 DEF TreeOK
    <3>3. QED
      BY <1>3, <2>1, <3>1, <3>2
  <2>4. QED
    BY <2>2, <2>3
<1>7. ASSUME NEW u \in E \ {DIR_LBA}
      PROVE  \E t \in E, s \in Slots : NamesDir(w[t][s]) /\ w[t][s].start = u
  <2>1. CASE u = x
    BY <1>5, <2>1
  <2>2. CASE u # x
    <3>1. PICK t \in D, s \in Slots : NamesDir(v[t][s]) /\ v[t][s].start = u
      BY <2>2 DEF TreeOK
    <3>2. QED
      BY <1>4, <3>1
  <2>3. QED
    BY <2>1, <2>2
<1>8. ASSUME NEW t \in E, NEW s \in Slots, w[t][s].used PROVE fl[t] <= PathDepth
  <2>1. t \in D
    BY <1>8
  <2>2. CASE <<t, s>> = <<lba, k>>
    BY <1>3, <2>1, <2>2
  <2>3. CASE <<t, s>> # <<lba, k>>
    BY <1>3, <1>8, <2>1, <2>3 DEF Changed, TreeOK
  <2>4. QED
    BY <2>2, <2>3
<1>9. \A t \in E, s \in Slots : Owns(w[t][s]) => t \in D
  BY DEF Owns
<1>10. DIR_LBA \in E /\ fl[DIR_LBA] = 0
  BY <1>3 DEF TreeOK
<1>11. TreeOK(w, E, fl)
  <2> HIDE DEF E, x
  <2>1. /\ \A t, u \in D, s, r \in Slots :
             <<t, s>> # <<u, r>> /\ Owns(w[t][s]) /\ Owns(w[u][r]) =>
               ~Overlap(Span(w[t][s]), Span(w[u][r]))
        /\ \A t \in D, s \in Slots : Owns(w[t][s]) => w[t][s].start > DIR_LBA
    BY SpansStayApart
  <2>2. QED
    BY <1>6, <1>7, <1>8, <1>9, <1>10, <2>1 DEF TreeOK
<1>12. QED
  BY <1>3, <1>11

\* rmdir: the table that goes is empty, so nothing hangs below it.
LEMMA GoneDirKeepsTree ==
    ASSUME NEW v, NEW w, NEW D \in SUBSET Lbas, NEW lev \in Levels(D), TreeOK(v, D, lev),
           v \in [Lbas -> GoodTables], NEW lba \in D, NEW k \in Slots,
           Changed(v, w, D, lba, k, Empty), NamesDir(v[lba][k]),
           \A s \in Slots : ~v[v[lba][k].start][s].used
    PROVE  LET E == D \ {v[lba][k].start} IN \E fl \in Levels(E) : TreeOK(w, E, fl)
<1> DEFINE x == v[lba][k].start
           E == D \ {x}
           fl == [t \in E |-> lev[t]]
<1>1. /\ x \in D /\ lev[x] = lev[lba] + 1 /\ x # DIR_LBA
  <2>1. v[lba][k] \in GoodEntry
    BY DEF GoodTables
  <2>2. Owns(v[lba][k])
    BY <2>1 DEF GoodEntry, EntryOK, NamesDir, Owns
  <2>3. QED
    BY <2>2 DEF TreeOK, DIR_LBA
<1>2. lba # x
  <2>1. lev[lba] \in Int
    BY FileSystemAssumption DEF Levels
  <2>2. QED
    BY <1>1, <2>1
<1>3. E \in SUBSET Lbas /\ fl \in Levels(E) /\ \A t \in E : fl[t] = lev[t] /\ t \in D
  BY DEF Levels
<1>4. Fits(v, D, lba, k, Empty) /\ ~Empty.used
  BY DEF Fits, Owns, Empty
<1>5. \A t \in D, s \in Slots : w[t][s].used => w[t][s] = v[t][s] /\ <<t, s>> # <<lba, k>>
  BY <1>4 DEF Changed
<1> HIDE DEF fl
<1>6. ASSUME NEW t \in E, NEW s \in Slots, NamesDir(w[t][s])
      PROVE  w[t][s].start \in E /\ fl[w[t][s].start] = fl[t] + 1
  <2>1. w[t][s] = v[t][s] /\ <<t, s>> # <<lba, k>>
    BY <1>3, <1>5, <1>6 DEF NamesDir
  <2>2. v[t][s].start \in D /\ lev[v[t][s].start] = lev[t] + 1
    BY <1>3, <1>6, <2>1 DEF TreeOK
  <2>3. v[t][s].start # x
    <3>1. t \in D /\ NamesDir(v[t][s]) /\ <<t, s>> # <<lba, k>>
      BY <1>3, <1>6, <2>1
    <3>2. SUFFICES ASSUME v[t][s].start = v[lba][k].start PROVE FALSE
      OBVIOUS
    <3> HIDE DEF E, x
    <3>3. <<t, s>> = <<lba, k>>
      BY <3>1, <3>2, DirsAreNamedOnce
    <3>4. QED
      BY <3>1, <3>3
  <2>4. QED
    BY <1>3, <2>1, <2>2, <2>3
<1>7. ASSUME NEW u \in E \ {DIR_LBA}
      PROVE  \E t \in E, s \in Slots : NamesDir(w[t][s]) /\ w[t][s].start = u
  <2>1. PICK t \in D, s \in Slots : NamesDir(v[t][s]) /\ v[t][s].start = u
    BY DEF TreeOK
  <2>2. t # x
    BY <2>1 DEF NamesDir
  <2>3. <<t, s>> # <<lba, k>>
    BY <1>7, <2>1
  <2>4. w[t][s] = v[t][s]
    BY <2>3 DEF Changed
  <2>5. QED
    BY <2>1, <2>2, <2>4
<1>8. ASSUME NEW t \in E, NEW s \in Slots, w[t][s].used PROVE fl[t] <= PathDepth
  BY <1>3, <1>5, <1>8 DEF TreeOK
<1>9. DIR_LBA \in E /\ fl[DIR_LBA] = 0
  BY <1>1, <1>3 DEF TreeOK
<1>10. TreeOK(w, E, fl)
  <2>1. /\ \A t, u \in D, s, r \in Slots :
             <<t, s>> # <<u, r>> /\ Owns(w[t][s]) /\ Owns(w[u][r]) =>
               ~Overlap(Span(w[t][s]), Span(w[u][r]))
        /\ \A t \in D, s \in Slots : Owns(w[t][s]) => w[t][s].start > DIR_LBA
    BY <1>4, SpansStayApart
  <2> HIDE DEF E, x
  <2>2. QED
    BY <1>3, <1>6, <1>7, <1>8, <1>9, <2>1 DEF TreeOK
<1>11. QED
  BY <1>3, <1>10

-----------------------------------------------------------------------------
(* What a write does to the contents of files.                             *)

LEMMA GoodFields ==
    ASSUME NEW e \in GoodEntry
    PROVE  /\ e.used \in BOOLEAN /\ e.isDir \in BOOLEAN /\ e.name \in NameSet
           /\ e.len \in Nat /\ e.start \in Nat /\ e.count \in Nat
           /\ e.used /\ ~e.isDir => e.len <= e.count * SectorSize
           /\ NamesDir(e) => Owns(e) /\ e.count = 1 /\ e.start \in Lbas
BY DEF GoodEntry, EntryType, EntryOK, NamesDir, Owns, NameSet

\* The sector of a file that byte b is in, and where in it.
LEMMA SectorOfByte ==
    ASSUME NEW n \in Nat, NEW c \in Nat, n <= c * SectorSize, NEW b \in 1 .. n
    PROVE  LET q == (b - 1) \div SectorSize
               r == (b - 1) % SectorSize
           IN /\ q \in 0 .. c - 1 /\ r \in 0 .. SectorSize - 1
              /\ q * SectorSize + (r + 1) = b
<1> DEFINE q == (b - 1) \div SectorSize
           r == (b - 1) % SectorSize
           k == SectorSize
<1>0. k \in Nat /\ k > 0
  BY FileSystemAssumption
<1>1. q \in Int /\ r \in 0 .. k - 1 /\ b - 1 = k * q + r
  BY <1>0
<1>2. r \in 0 .. SectorSize - 1 /\ q * SectorSize + (r + 1) = b
  <2> HIDE DEF q, r
  <2>1. k * q = q * k
    BY <1>0, <1>1
  <2> DEFINE m == q * k
  <2>2. m \in Int /\ b - 1 = m + r
    BY <1>0, <1>1, <2>1
  <2> HIDE DEF m
  <2>3. m + (r + 1) = b
    BY <1>0, <1>1, <2>2
  <2>4. QED
    BY <1>1, <2>3 DEF m
<1> HIDE DEF q, r, k
<1>3. q >= 0
  <2>1. SUFFICES ASSUME q <= -1 PROVE FALSE
    BY <1>1
  <2>2. k * q <= k * (-1)
    BY <1>0, <1>1, <2>1
  <2>3. QED
    BY <1>0, <1>1, <2>2
<1>4. q <= c - 1
  <2>1. SUFFICES ASSUME q >= c PROVE FALSE
    BY <1>1
  <2>2. k * q >= k * c /\ k * c = c * k
    BY <1>0, <1>1, <2>1
  <2>3. n <= c * k
    BY DEF k
  <2>4. QED
    BY <1>0, <1>1, <2>2, <2>3
<1>5. QED
  BY <1>1, <1>2, <1>3, <1>4 DEF q, r, k

LEMMA SameContents ==
    ASSUME NEW d, NEW g, NEW e \in GoodEntry, e.used, ~e.isDir,
           \A i \in 0 .. e.count - 1 : g[e.start + i] = d[e.start + i]
    PROVE  ContentsOn(g, e) = ContentsOn(d, e)
<1>1. ASSUME NEW b \in 1 .. e.len
      PROVE  g[e.start + (b - 1) \div SectorSize] = d[e.start + (b - 1) \div SectorSize]
  <2> DEFINE q == (b - 1) \div SectorSize
  <2>1. e.len \in Nat /\ e.count \in Nat /\ e.len <= e.count * SectorSize
    BY GoodFields
  <2>2. q \in 0 .. e.count - 1
    BY <2>1, SectorOfByte
  <2> HIDE DEF q
  <2>3. g[e.start + q] = d[e.start + q]
    BY <2>2
  <2>4. QED
    BY <2>3 DEF q
<1>2. QED
  BY <1>1 DEF ContentsOn

LEMMA ContentsLength ==
    ASSUME NEW d, NEW e \in GoodEntry
    PROVE  Len(ContentsOn(d, e)) = e.len
<1> DEFINE f == ContentsOn(d, e)
           R == {f[b] : b \in 1 .. e.len}
<1>1. DOMAIN f = 1 .. e.len /\ f = [b \in 1 .. e.len |-> f[b]] /\ e.len \in Nat
  BY GoodFields DEF ContentsOn
<1>2. \A b \in 1 .. e.len : f[b] \in R
  OBVIOUS
<1> HIDE DEF f, R
<1>3. f \in [1 .. e.len -> R]
  BY <1>1, <1>2
<1>4. f \in Seq(R) /\ Len(f) = e.len
  BY <1>1, <1>3
<1>5. QED
  BY <1>4 DEF f

\* A file whose sectors hold the blocks of data contains data.
LEMMA ContentsAreData ==
    ASSUME NEW d, NEW e \in GoodEntry, e.used, ~e.isDir, NEW data \in Data, e.len = Len(data),
           \A i \in 1 .. e.count : d[e.start + i - 1] = Block(data, i)
    PROVE  ContentsOn(d, e) = data
<1>0. /\ data \in Seq(0 .. 255) /\ SectorSize \in Nat /\ SectorSize > 0
      /\ e.len \in Nat /\ e.count \in Nat /\ e.start \in Nat /\ e.len <= e.count * SectorSize
  BY GoodFields, FileSystemAssumption
<1>1. ASSUME NEW b \in 1 .. e.len
      PROVE  d[e.start + (b - 1) \div SectorSize].bytes[((b - 1) % SectorSize) + 1] = data[b]
  <2> DEFINE q == (b - 1) \div SectorSize
             r == (b - 1) % SectorSize
             y(i, c) == IF (i - 1) * SectorSize + c <= Len(data)
                        THEN data[(i - 1) * SectorSize + c] ELSE 0
  <2>1. q \in 0 .. e.count - 1 /\ r \in 0 .. SectorSize - 1 /\ q * SectorSize + (r + 1) = b
    BY <1>0, SectorOfByte
  <2> HIDE DEF q, r
  <2>2. q + 1 \in 1 .. e.count /\ r + 1 \in 1 .. SectorSize /\ e.start + (q + 1) - 1 = e.start + q
        /\ (q + 1) - 1 = q
    BY <1>0, <2>1
  <2>3. d[e.start + q] = Block(data, q + 1)
    <3> DEFINE i == q + 1
    <3>1. i \in 1 .. e.count /\ e.start + i - 1 = e.start + q
      BY <2>2
    <3> HIDE DEF i
    <3>2. d[e.start + i - 1] = Block(data, i)
      BY <3>1
    <3>3. QED
      BY <3>1, <3>2 DEF i
  <2>4. Block(data, q + 1).bytes = [c \in 1 .. SectorSize |-> y(q + 1, c)]
    BY DEF Block, DataSector
  <2>5. Block(data, q + 1).bytes[r + 1] = y(q + 1, r + 1)
    <3> HIDE DEF y
    <3>1. QED
      BY <2>2, <2>4
  <2>6. y(q + 1, r + 1) = data[b]
    <3>1. ((q + 1) - 1) * SectorSize + (r + 1) = b
      BY <2>1, <2>2
    <3>2. b <= Len(data)
      BY <1>0
    <3>3. QED
      BY <3>1, <3>2
  <2>7. d[e.start + q].bytes[r + 1] = data[b]
    BY <2>3, <2>5, <2>6
  <2>8. QED
    BY <2>7 DEF q, r
<1>2. ContentsOn(d, e) = [b \in 1 .. e.len |-> data[b]]
  BY <1>1 DEF ContentsOn
<1>3. data = [b \in 1 .. e.len |-> data[b]]
  BY <1>0, LenProperties
<1>4. QED
  BY <1>2, <1>3

\* No file is kept in the sector of a directory.
LEMMA FilesAreNotTables ==
    ASSUME NEW v \in [Lbas -> GoodTables], NEW D \in SUBSET Lbas, NEW lev, TreeOK(v, D, lev),
           NEW t \in D, NEW s \in Slots, v[t][s].used, ~v[t][s].isDir,
           NEW i \in 0 .. v[t][s].count - 1
    PROVE  v[t][s].start + i \notin D
<1> DEFINE e == v[t][s]
<1>1. e \in GoodEntry
  BY DEF GoodTables
<1>2. e.start \in Nat /\ e.count \in Nat
  BY <1>1, GoodFields
<1>3. i \in Nat /\ i < e.count
  BY <1>2
<1>4. Owns(e) /\ ~NamesDir(e)
  BY <1>2, <1>3 DEF Owns, NamesDir
<1>5. Fits(v, D, t, s, e)
  BY DEF Fits, TreeOK
<1> HIDE DEF e
<1>6. ~NamesDir(v[t][s])
  BY <1>4 DEF e
<1>7. QED
  BY <1>2, <1>3, <1>4, <1>5, <1>6, FreshTable DEF e

\* Nor in a sector that fits another entry.
LEMMA FilesAreNotNew ==
    ASSUME NEW v \in [Lbas -> GoodTables], NEW D \in SUBSET Lbas, NEW lev, TreeOK(v, D, lev),
           NEW lba \in D, NEW k \in Slots, NEW e \in GoodEntry, Fits(v, D, lba, k, e), e.used,
           NEW t \in D, NEW s \in Slots, v[t][s].used, <<t, s>> # <<lba, k>>
    PROVE  \A i \in 0 .. v[t][s].count - 1, j \in 0 .. e.count - 1 :
             v[t][s].start + i # e.start + j
<1> SUFFICES ASSUME NEW i \in 0 .. v[t][s].count - 1, NEW j \in 0 .. e.count - 1
             PROVE  v[t][s].start + i # e.start + j
  OBVIOUS
<1> DEFINE x == v[t][s]
<1>1. x \in GoodEntry
  BY DEF GoodTables
<1>2. x.start \in Nat /\ x.count \in Nat /\ e.start \in Nat /\ e.count \in Nat
  BY <1>1, GoodFields
<1>3. i \in Nat /\ i < x.count /\ j \in Nat /\ j < e.count
  BY <1>2
<1>4. Owns(x) /\ Owns(e)
  BY <1>2, <1>3 DEF Owns
<1>5. ~Overlap(Span(e), Span(x))
  BY <1>4 DEF Fits
<1> HIDE DEF x
<1>6. ~(e.start < x.start + x.count /\ x.start < e.start + e.count)
  BY <1>5 DEF Overlap, Span
<1>7. x.start + i # e.start + j
  BY <1>2, <1>3, <1>6
<1>8. QED
  BY <1>7 DEF x

-----------------------------------------------------------------------------
(* What a write does to the tree that is shown.                            *)

\* Slot k of table lba is the one that a call on path looks at: the directory is the path's, and an
\* entry of that name, if there is one, is in slot k.
Target(v, pth, lba, k, path) ==
    /\ pth[lba] = Key(Parent(path))
    /\ \A s \in Slots : v[lba][s].used => (v[lba][s].name = NameBytes(Leaf(path)) <=> s = k)

LEMMA OnlyNode ==
    ASSUME NEW v \in [Lbas -> GoodTables], NEW D \in SUBSET Lbas, NEW pth, Named(v, D, pth),
           NEW lba \in D, NEW k \in Slots, NEW path \in Paths, Target(v, pth, lba, k, path),
           NEW o \in UsedSlots(v, D)
    PROVE  Append(pth[o[1]], v[o[1]][o[2]].name) = Key(path) <=> o = <<lba, k>>
<1> DEFINE t == o[1]
           s == o[2]
           e == v[t][s]
           p == Key(Parent(path))
           a == NameBytes(Leaf(path))
<1>1. o = <<t, s>> /\ t \in D /\ s \in Slots /\ e.used
  BY DEF UsedSlots
<1>2. e \in GoodEntry
  BY <1>1 DEF GoodTables
<1>3. pth[t] \in Seq(NameSet) /\ e.name \in NameSet
  BY <1>1, <1>2, GoodFields DEF Named
<1>4. p \in Seq(NameSet) /\ a \in NameSet /\ Key(path) = Append(p, a)
  BY KeyParts
<1>5. pth[lba] = p /\ (v[lba][s].used => (v[lba][s].name = a <=> s = k))
  BY <1>1 DEF Target
<1> HIDE DEF p, a, t, s
<1>6. Append(pth[t], e.name) = Append(p, a) <=> pth[t] = p /\ e.name = a
  BY <1>3, <1>4, AppendInjective
<1>7. pth[t] = p <=> t = lba
  BY <1>1, <1>5 DEF Named
<1>8. Append(pth[t], e.name) = Key(path) <=> t = lba /\ e.name = a
  BY <1>4, <1>6, <1>7
<1>9. t = lba => (e.name = a <=> s = k)
  BY <1>1, <1>5
<1>10. QED
  BY <1>1, <1>8, <1>9 DEF t, s

WithoutPath(T, p) == {n \in T : n.path # p}

\* Entry e is put into slot k of table lba, and no sector of another file is written.
LEMMA ShownAfter ==
    ASSUME NEW v \in [Lbas -> GoodTables], NEW w, NEW d, NEW g,
           NEW D \in SUBSET Lbas, NEW pth, Named(v, D, pth),
           NEW lba \in D, NEW k \in Slots, NEW path \in Paths, Target(v, pth, lba, k, path),
           NEW e, Changed(v, w, D, lba, k, e),
           \A t \in D, s \in Slots : v[t][s].used /\ ~v[t][s].isDir /\ <<t, s>> # <<lba, k>> =>
                                       ContentsOn(g, v[t][s]) = ContentsOn(d, v[t][s])
    PROVE  Shown(w, g, D, pth) = WithoutPath(Shown(v, d, D, pth), Key(path))
                                   \cup (IF e.used THEN {NodeOf(pth[lba], e, g)} ELSE {})
<1> DEFINE p == Key(path)
           N(x, f, o) == NodeOf(pth[o[1]], x[o[1]][o[2]], f)
           o1 == <<lba, k>>
<1>1. \A o \in D \X Slots : o = <<o[1], o[2]>> /\ o[1] \in D /\ o[2] \in Slots
  OBVIOUS
<1>2. ASSUME NEW o \in D \X Slots, o # o1 PROVE w[o[1]][o[2]] = v[o[1]][o[2]]
  BY <1>1, <1>2 DEF Changed
<1>3. w[lba][k] = e
  BY DEF Changed
<1>4. ASSUME NEW o \in UsedSlots(v, D), o # o1 PROVE N(w, g, o) = N(v, d, o)
  <2>1. o \in D \X Slots /\ v[o[1]][o[2]].used
    BY DEF UsedSlots
  <2>2. w[o[1]][o[2]] = v[o[1]][o[2]]
    BY <1>2, <1>4, <2>1
  <2>3. ~v[o[1]][o[2]].isDir => ContentsOn(g, v[o[1]][o[2]]) = ContentsOn(d, v[o[1]][o[2]])
    BY <1>1, <1>4, <2>1
  <2>4. QED
    BY <2>2, <2>3 DEF NodeOf
<1>5. ASSUME NEW o \in UsedSlots(v, D) PROVE N(v, d, o).path = p <=> o = o1
  BY OnlyNode DEF NodeOf
<1>6. \A o \in D \X Slots : o # o1 => (o \in UsedSlots(w, D) <=> o \in UsedSlots(v, D))
  BY <1>2 DEF UsedSlots
<1>7. o1 \in D \X Slots /\ o1[1] = lba /\ o1[2] = k
  OBVIOUS
<1>8. o1 \in UsedSlots(w, D) <=> e.used
  BY <1>3, <1>7 DEF UsedSlots
<1>9. N(w, g, o1) = NodeOf(pth[lba], e, g)
  BY <1>3, <1>7
<1>10. /\ Shown(w, g, D, pth) = {N(w, g, o) : o \in UsedSlots(w, D)}
       /\ Shown(v, d, D, pth) = {N(v, d, o) : o \in UsedSlots(v, D)}
       /\ UsedSlots(v, D) \subseteq D \X Slots /\ UsedSlots(w, D) \subseteq D \X Slots
  BY DEF Shown, UsedSlots
<1> HIDE DEF N, o1, p
<1>11. ASSUME NEW n \in Shown(w, g, D, pth)
       PROVE  \/ n \in WithoutPath(Shown(v, d, D, pth), p)
              \/ e.used /\ n = NodeOf(pth[lba], e, g)
  <2>1. PICK o \in UsedSlots(w, D) : n = N(w, g, o)
    BY <1>10
  <2>2. CASE o = o1
    BY <1>8, <1>9, <2>1, <2>2
  <2>3. CASE o # o1
    <3>1. o \in UsedSlots(v, D)
      BY <1>6, <1>10, <2>3
    <3>2. n = N(v, d, o) /\ n.path # p
      BY <1>4, <1>5, <2>1, <2>3, <3>1
    <3>3. QED
      BY <1>10, <3>1, <3>2 DEF WithoutPath
  <2>4. QED
    BY <2>2, <2>3
<1>12. ASSUME NEW n \in WithoutPath(Shown(v, d, D, pth), p) PROVE n \in Shown(w, g, D, pth)
  <2>1. PICK o \in UsedSlots(v, D) : n = N(v, d, o)
    BY <1>10 DEF WithoutPath
  <2>2. o # o1
    BY <1>5, <1>12, <2>1 DEF WithoutPath
  <2>3. o \in UsedSlots(w, D) /\ n = N(w, g, o)
    BY <1>4, <1>6, <1>10, <2>1, <2>2
  <2>4. QED
    BY <1>10, <2>3
<1>13. e.used => NodeOf(pth[lba], e, g) \in Shown(w, g, D, pth)
  BY <1>8, <1>9, <1>10
<1>14. QED
  BY <1>11, <1>12, <1>13 DEF p

\* A directory without entries shows nothing.
LEMMA ShownElsewhere ==
    ASSUME NEW w, NEW g, NEW D, NEW E, NEW pth, NEW qth,
           UsedSlots(w, E) = UsedSlots(w, D),
           \A o \in UsedSlots(w, D) : qth[o[1]] = pth[o[1]]
    PROVE  Shown(w, g, E, qth) = Shown(w, g, D, pth)
BY DEF Shown

\* Who is shown at a path, and what is.
LEMMA ShownAt ==
    ASSUME NEW v \in [Lbas -> GoodTables], NEW d,
           NEW D \in SUBSET Lbas, NEW pth, Named(v, D, pth),
           NEW lba \in D, NEW k \in Slots, NEW path \in Paths, Target(v, pth, lba, k, path)
    PROVE  /\ v[lba][k].used =>
                /\ NodeOf(pth[lba], v[lba][k], d) \in Shown(v, d, D, pth)
                /\ NodeOf(pth[lba], v[lba][k], d).path = Key(path)
           /\ \A n \in Shown(v, d, D, pth) : n.path = Key(path) =>
                v[lba][k].used /\ n = NodeOf(pth[lba], v[lba][k], d)
<1> DEFINE o1 == <<lba, k>>
<1>1. o1[1] = lba /\ o1[2] = k /\ o1 \in D \X Slots
  OBVIOUS
<1> HIDE DEF o1
<1>2. v[lba][k].used => o1 \in UsedSlots(v, D)
  BY <1>1 DEF UsedSlots
<1>3. ASSUME v[lba][k].used
      PROVE  /\ NodeOf(pth[lba], v[lba][k], d) \in Shown(v, d, D, pth)
             /\ NodeOf(pth[lba], v[lba][k], d).path = Key(path)
  <2>1. NodeOf(pth[lba], v[lba][k], d) \in Shown(v, d, D, pth)
    BY <1>1, <1>2, <1>3 DEF Shown
  <2>2. Append(pth[o1[1]], v[o1[1]][o1[2]].name) = Key(path)
    BY <1>2, <1>3, OnlyNode DEF o1
  <2>3. QED
    BY <1>1, <2>1, <2>2 DEF NodeOf
<1>4. ASSUME NEW n \in Shown(v, d, D, pth), n.path = Key(path)
      PROVE  v[lba][k].used /\ n = NodeOf(pth[lba], v[lba][k], d)
  <2>1. PICK o \in UsedSlots(v, D) : n = NodeOf(pth[o[1]], v[o[1]][o[2]], d)
    BY DEF Shown
  <2>2. Append(pth[o[1]], v[o[1]][o[2]].name) = Key(path)
    BY <1>4, <2>1 DEF NodeOf
  <2>3. o = o1
    BY <2>2, OnlyNode DEF o1
  <2>4. QED
    BY <1>1, <2>1, <2>3 DEF UsedSlots
<1>5. QED
  BY <1>3, <1>4

\* The directory of a path is shown, unless it is the root.
LEMMA ParentIsShown ==
    ASSUME NEW v \in [Lbas -> GoodTables], NEW d, NEW D \in SUBSET Lbas, NEW lev,
           TreeOK(v, D, lev), NEW pth, Named(v, D, pth), NEW lba \in D, lba # DIR_LBA
    PROVE  \E n \in Shown(v, d, D, pth) : n.path = pth[lba] /\ n.isDir
<1>1. PICK t \in D, s \in Slots : NamesDir(v[t][s]) /\ v[t][s].start = lba
  BY DEF TreeOK
<1>2. pth[lba] = Append(pth[t], v[t][s].name)
  BY <1>1 DEF Named
<1> DEFINE o == <<t, s>>
<1>3. o \in UsedSlots(v, D) /\ o[1] = t /\ o[2] = s
  BY <1>1 DEF UsedSlots, NamesDir
<1> HIDE DEF o
<1>4. NodeOf(pth[t], v[t][s], d) \in Shown(v, d, D, pth)
  BY <1>3 DEF Shown
<1>5. NodeOf(pth[t], v[t][s], d).path = pth[lba] /\ NodeOf(pth[t], v[t][s], d).isDir
  BY <1>1, <1>2 DEF NodeOf, NamesDir
<1>6. QED
  BY <1>4, <1>5

\* What is shown below a path is in the directory of that path.
LEMMA ChildrenAreThere ==
    ASSUME NEW v \in [Lbas -> GoodTables], NEW d, NEW D \in SUBSET Lbas,
           NEW pth, Named(v, D, pth), NEW u \in D,
           NEW n \in Shown(v, d, D, pth), Parent(n.path) = pth[u]
    PROVE  \E s \in Slots : v[u][s].used
<1>1. PICK o \in UsedSlots(v, D) : n = NodeOf(pth[o[1]], v[o[1]][o[2]], d)
  BY DEF Shown
<1> DEFINE t == o[1]
           s == o[2]
           e == v[t][s]
<1>2. t \in D /\ s \in Slots /\ e.used
  BY DEF UsedSlots
<1>3. e \in GoodEntry
  BY <1>2 DEF GoodTables
<1>4. pth[t] \in Seq(NameSet) /\ e.name \in NameSet
  BY <1>2, <1>3, GoodFields DEF Named
<1>5. n.path = Append(pth[t], e.name)
  BY <1>1 DEF NodeOf
<1> HIDE DEF t, s
<1>6. Parent(n.path) = pth[t]
  BY <1>4, <1>5, LongerPath
<1>7. t = u
  BY <1>2, <1>6 DEF Named
<1>8. QED
  BY <1>2, <1>7

-----------------------------------------------------------------------------
(* Directories keep their paths.                                           *)

\* No directory is made or removed.
LEMMA FileChangeKeepsNames ==
    ASSUME NEW v, NEW w, NEW D, NEW pth, Named(v, D, pth),
           NEW lba \in D, NEW k \in Slots, NEW path \in Paths, Target(v, pth, lba, k, path),
           NEW e, Changed(v, w, D, lba, k, e), ~NamesDir(e),
           e.used => e.name = NameBytes(Leaf(path))
    PROVE  Named(w, D, pth)
<1>1. ASSUME NEW t \in D, NEW s \in Slots, NamesDir(w[t][s])
      PROVE  pth[w[t][s].start] = Append(pth[t], w[t][s].name)
  <2>1. w[t][s] = v[t][s]
    BY <1>1 DEF Changed
  <2>2. QED
    BY <1>1, <2>1 DEF Named
<1>2. ASSUME NEW t \in D, NEW s \in Slots, NEW r \in Slots,
             w[t][s].used, w[t][r].used, w[t][s].name = w[t][r].name, s # r
      PROVE  FALSE
  <2>1. CASE t # lba
    <3>1. w[t][s] = v[t][s] /\ w[t][r] = v[t][r]
      BY <2>1 DEF Changed
    <3>2. QED
      BY <1>2, <3>1 DEF Named
  <2>2. CASE t = lba
    <3>1. \A q \in Slots : w[lba][q] = IF q = k THEN e ELSE v[lba][q]
      BY DEF Changed
    <3>2. CASE s # k /\ r # k
      BY <1>2, <2>2, <3>1, <3>2 DEF Named
    <3>3. CASE s = k
      BY <1>2, <2>2, <3>1, <3>3 DEF Target
    <3>4. CASE r = k
      BY <1>2, <2>2, <3>1, <3>4 DEF Target
    <3>5. QED
      BY <3>2, <3>3, <3>4
  <2>3. QED
    BY <2>1, <2>2
<1>3. QED
  BY <1>1, <1>2 DEF Named

AgreeOn(S, f, g) == \A t \in S : f[t] = g[t]

\* mkdir: the new directory has the path that was asked for.
LEMMA NewDirKeepsNames ==
    ASSUME NEW v \in [Lbas -> GoodTables], NEW w, NEW D \in SUBSET Lbas, NEW lev,
           TreeOK(v, D, lev), NEW pth, Named(v, D, pth),
           NEW lba \in D, NEW k \in Slots, NEW path \in Paths, Target(v, pth, lba, k, path),
           NEW e \in GoodEntry, Changed(v, w, D, lba, k, e), NamesDir(e), e.start \notin D,
           e.name = NameBytes(Leaf(path)), ~NamesDir(v[lba][k]),
           \A s \in Slots : ~w[e.start][s].used
    PROVE  \E qth : Named(w, D \cup {e.start}, qth) /\ AgreeOn(D, qth, pth)
<1> DEFINE x == e.start
           E == D \cup {x}
           qth == [t \in E |-> IF t = x THEN Key(path) ELSE pth[t]]
<1>1. /\ Key(path) = Append(pth[lba], e.name) /\ Key(path) \in Seq(NameSet) /\ Key(path) # <<>>
      /\ pth[lba] \in Seq(NameSet) /\ e.name \in NameSet
  <2>1. pth[lba] = Key(Parent(path))
    BY DEF Target
  <2>2. /\ Key(Parent(path)) \in Seq(NameSet) /\ NameBytes(Leaf(path)) \in NameSet
        /\ Key(path) = Append(Key(Parent(path)), NameBytes(Leaf(path)))
    BY KeyParts
  <2>3. QED
    BY <2>1, <2>2, LongerPath
<1>2. qth[x] = Key(path) /\ \A t \in D : qth[t] = pth[t]
  OBVIOUS
<1>3. qth \in [E -> Seq(NameSet)]
  BY <1>1 DEF Named
<1>4. qth[DIR_LBA] = <<>> /\ DIR_LBA \in D
  BY <1>2 DEF TreeOK, Named
<1> HIDE DEF qth, x
<1>x. x = e.start
  BY DEF x
<1>5. ASSUME NEW t \in E, NEW s \in Slots, NamesDir(w[t][s])
      PROVE  qth[w[t][s].start] = Append(qth[t], w[t][s].name)
  <2>1. t \in D
    BY <1>5, <1>x DEF NamesDir
  <2>2. CASE <<t, s>> = <<lba, k>>
    <3>1. w[t][s] = e
      BY <2>1, <2>2 DEF Changed
    <3>2. QED
      BY <1>1, <1>2, <1>x, <2>1, <2>2, <3>1
  <2>3. CASE <<t, s>> # <<lba, k>>
    <3>1. w[t][s] = v[t][s]
      BY <2>1, <2>3 DEF Changed
    <3>2. v[t][s].start \in D /\ pth[v[t][s].start] = Append(pth[t], v[t][s].name)
      BY <1>5, <2>1, <3>1 DEF TreeOK, Named
    <3>3. QED
      BY <1>2, <2>1, <3>1, <3>2
  <2>4. QED
    BY <2>2, <2>3
<1>6. ASSUME NEW u \in D PROVE pth[u] # Key(path)
  <2>1. SUFFICES ASSUME pth[u] = Key(path) PROVE FALSE
    OBVIOUS
  <2>2. u # DIR_LBA
    BY <1>1, <2>1 DEF Named
  <2>3. PICK t \in D, s \in Slots : NamesDir(v[t][s]) /\ v[t][s].start = u
    BY <2>2 DEF TreeOK
  <2>4. pth[u] = Append(pth[t], v[t][s].name)
    BY <2>3 DEF Named
  <2> DEFINE o == <<t, s>>
  <2>5. o \in UsedSlots(v, D) /\ o[1] = t /\ o[2] = s
    BY <2>3 DEF UsedSlots, NamesDir
  <2> HIDE DEF o, E
  <2>6. Append(pth[o[1]], v[o[1]][o[2]].name) = Key(path)
    BY <2>1, <2>4, <2>5
  <2>7. o = <<lba, k>>
    <3>1. Append(pth[o[1]], v[o[1]][o[2]].name) = Key(path) <=> o = <<lba, k>>
      BY <2>5, OnlyNode
    <3>2. QED
      BY <2>6, <3>1
  <2>8. QED
    BY <2>3, <2>5, <2>7 DEF NamesDir
<1>7. ASSUME NEW t \in E, NEW u \in E, qth[t] = qth[u] PROVE t = u
  BY <1>2, <1>6, <1>7 DEF Named
<1>8. ASSUME NEW t \in E, NEW s \in Slots, NEW r \in Slots,
             w[t][s].used, w[t][r].used, w[t][s].name = w[t][r].name, s # r
      PROVE  FALSE
  <2>1. t \in D
    BY <1>8, <1>x
  <2>2. CASE t # lba
    <3>1. w[t][s] = v[t][s] /\ w[t][r] = v[t][r]
      BY <2>1, <2>2 DEF Changed
    <3>2. QED
      BY <1>8, <2>1, <3>1 DEF Named
  <2>3. CASE t = lba
    <3>1. \A q \in Slots : w[lba][q] = IF q = k THEN e ELSE v[lba][q]
      BY DEF Changed
    <3>2. CASE s # k /\ r # k
      BY <1>8, <2>3, <3>1, <3>2 DEF Named
    <3>3. CASE s = k
      BY <1>8, <2>3, <3>1, <3>3 DEF Target
    <3>4. CASE r = k
      BY <1>8, <2>3, <3>1, <3>4 DEF Target
    <3>5. QED
      BY <3>2, <3>3, <3>4
  <2>4. QED
    BY <2>2, <2>3
<1> HIDE DEF E
<1>9. Named(w, E, qth)
  BY <1>3, <1>4, <1>5, <1>7, <1>8 DEF Named
<1>10. QED
  BY <1>2, <1>9 DEF E, x, AgreeOn

\* rmdir.
LEMMA GoneDirKeepsNames ==
    ASSUME NEW v, NEW w, NEW D, NEW pth, Named(v, D, pth), NEW lba \in D, NEW k \in Slots,
           NEW x, Changed(v, w, D, lba, k, Empty), NEW fl, TreeOK(w, D \ {x}, fl)
    PROVE  \E qth : Named(w, D \ {x}, qth) /\ AgreeOn(D \ {x}, qth, pth)
<1> DEFINE E == D \ {x}
           qth == [t \in E |-> pth[t]]
<1>1. \A t \in E : qth[t] = pth[t] /\ t \in D
  OBVIOUS
<1>2. qth \in [E -> Seq(NameSet)] /\ qth[DIR_LBA] = <<>>
  <2>1. DIR_LBA \in E
    BY DEF TreeOK
  <2>2. QED
    BY <2>1 DEF Named
<1>3. ASSUME NEW t \in D, NEW s \in Slots, w[t][s].used
      PROVE  w[t][s] = v[t][s] /\ s \in Slots
  BY <1>3, EmptyIsGood DEF Changed
<1> HIDE DEF qth
<1>4. ASSUME NEW t \in E, NEW s \in Slots, NamesDir(w[t][s])
      PROVE  qth[w[t][s].start] = Append(qth[t], w[t][s].name)
  <2>1. w[t][s] = v[t][s]
    BY <1>1, <1>3, <1>4 DEF NamesDir
  <2>2. pth[w[t][s].start] = Append(pth[t], w[t][s].name)
    BY <1>1, <1>4, <2>1 DEF Named
  <2>3. w[t][s].start \in E
    BY <1>4 DEF TreeOK
  <2>4. QED
    BY <1>1, <2>2, <2>3
<1>5. \A t, u \in E : qth[t] = qth[u] => t = u
  BY <1>1 DEF Named
<1>6. \A t \in E, s, r \in Slots :
        w[t][s].used /\ w[t][r].used /\ w[t][s].name = w[t][r].name => s = r
  BY <1>1, <1>3 DEF Named
<1> HIDE DEF E
<1>7. Named(w, E, qth)
  BY <1>2, <1>4, <1>5, <1>6 DEF Named
<1>8. QED
  BY <1>1, <1>7 DEF E, AgreeOn

-----------------------------------------------------------------------------
(* The writes under way, and the invariant.                                *)

\* The last write puts entry e into slot k of table lba; those before it leave the tree's tables
\* alone, and one of them clears the table of a directory that is being made.
Outstanding(p, v, D, lev, lba, k, e) ==
    /\ Len(p) \in Nat \ {0}
    /\ p[Len(p)] = Save(lba, [v[lba] EXCEPT ![k] = e])
    /\ \A i \in 1 .. Len(p) - 1 : p[i].lba \notin D
    /\ Change(v, D, lev, lba, k, e)
    /\ NamesDir(e) => \/ Len(p) = 1 /\ v[e.start] = EmptyTable
                      \/ Len(p) = 2 /\ p[1] = Save(e.start, EmptyTable)

\* The blocks of a file, those still to be written first in p.
Written(p, d, e, data) ==
    LET done == e.count - (Len(p) - 1)
    IN /\ done >= 0
       /\ \A i \in 1 .. e.count :
            IF i <= done THEN d[e.start + i - 1] = Block(data, i)
            ELSE p[i - done] = [lba |-> e.start + i - 1, sector |-> Block(data, i)]

\* What call req the writes p carry out, e being about to take the place of old.
Asked(req, p, d, old, e, path) ==
    \/ /\ req = [op |-> "mkdir", path |-> path]
       /\ NamesDir(e) /\ ~old.used
    \/ \E data \in Data :
         /\ req = [op |-> "write", path |-> path, data |-> data]
         /\ e.used /\ ~e.isDir /\ ~NamesDir(old)
         /\ e.len = Len(data) /\ Written(p, d, e, data)
    \/ /\ req = [op |-> IF old.isDir THEN "rmdir" ELSE "rm", path |-> path]
       /\ e = Empty /\ old.used /\ Len(p) = 1

\* Entry e is to be put into slot k of table lba, as call req on path wants it.
UnderWay(p, v, d, req, D, lev, pth, lba, k, e, path) ==
    /\ Outstanding(p, v, D, lev, lba, k, e)
    /\ Target(v, pth, lba, k, path) /\ (e.used => e.name = NameBytes(Leaf(path)))
    /\ Asked(req, p, d, v[lba][k], e, path)

PendingOK(p, v, d, req, D, lev, pth) ==
    p # <<>> => \E lba \in D, k \in Slots, e \in GoodEntry, path \in Paths :
                    UnderWay(p, v, d, req, D, lev, pth, lba, k, e, path)

IsTree(p, v, d, req, D, lev, pth) ==
    /\ D \in SUBSET Lbas /\ lev \in Levels(D)
    /\ TreeOK(v, D, lev) /\ Named(v, D, pth)
    /\ PendingOK(p, v, d, req, D, lev, pth)

TreeInv == \E D, lev, pth : IsTree(pending, View, disk, request, D, lev, pth)

FsInv == TypeInv /\ TreeInv

\* Writes outside the tables of the tree change nothing in it.
LEMMA ElsewhereKeepsTree ==
    ASSUME NEW v, NEW w, NEW D, NEW lev, TreeOK(v, D, lev), \A t \in D : w[t] = v[t]
    PROVE  TreeOK(w, D, lev)
BY DEF TreeOK

LEMMA ElsewhereKeepsNames ==
    ASSUME NEW v, NEW w, NEW D, NEW pth, Named(v, D, pth), \A t \in D : w[t] = v[t]
    PROVE  Named(w, D, pth)
<1>1. ASSUME NEW t \in D, NEW s \in Slots, NamesDir(w[t][s])
      PROVE  pth[w[t][s].start] = Append(pth[t], w[t][s].name)
  BY <1>1 DEF Named
<1>2. ASSUME NEW t \in D, NEW s \in Slots, NEW r \in Slots,
             w[t][s].used, w[t][r].used, w[t][s].name = w[t][r].name
      PROVE  s = r
  BY <1>2 DEF Named
<1>3. QED
  BY <1>1, <1>2 DEF Named

LEMMA ElsewhereKeepsChange ==
    ASSUME NEW v, NEW w, NEW D, NEW lev, TreeOK(v, D, lev), \A t \in D : w[t] = v[t],
           NEW lba \in D, NEW k \in Slots, NEW e, Change(v, D, lev, lba, k, e)
    PROVE  Change(w, D, lev, lba, k, e)
<1>1. NamesDir(v[lba][k]) => v[lba][k].start \in D
  BY DEF TreeOK
<1>2. Fits(v, D, lba, k, e) => Fits(w, D, lba, k, e)
  BY DEF Fits
<1>3. CASE e = Empty /\ (NamesDir(v[lba][k]) => \A s \in Slots : ~v[v[lba][k].start][s].used)
  BY <1>1, <1>3 DEF Change
<1>4. CASE /\ e.used /\ ~NamesDir(v[lba][k]) /\ lev[lba] <= PathDepth
           /\ Fits(v, D, lba, k, e)
  BY <1>2, <1>4 DEF Change
<1>5. QED
  BY <1>3, <1>4 DEF Change

\* What the tree shows once entry e is in slot k of table lba, whose path was p: only what was there
\* at path q has changed.
Turns(T, U, p, e, g, q) ==
    U = WithoutPath(T, q) \cup (IF e.used THEN {NodeOf(p, e, g)} ELSE {})

\* The directory of entry e, if it names one, is empty.
NoEntries(w, e) == NamesDir(e) => \A s \in Slots : ~w[e.start][s].used

\* The files of D but that of slot k of table lba have the same contents on g as on d.
OthersKeep(v, d, g, D, lba, k) ==
    \A t \in D, s \in Slots :
      v[t][s].used /\ ~v[t][s].isDir /\ <<t, s>> # <<lba, k>> =>
        ContentsOn(g, v[t][s]) = ContentsOn(d, v[t][s])

\* The change takes place: the three ways in which a table of the tree is written.
LEMMA ChangeKeepsTree ==
    ASSUME NEW v \in [Lbas -> GoodTables], NEW w, NEW d, NEW g,
           NEW D \in SUBSET Lbas, NEW lev \in Levels(D), TreeOK(v, D, lev),
           NEW pth, Named(v, D, pth),
           NEW lba \in D, NEW k \in Slots, NEW e \in GoodEntry, NEW path \in Paths,
           Target(v, pth, lba, k, path), e.used => e.name = NameBytes(Leaf(path)),
           Change(v, D, lev, lba, k, e), Changed(v, w, D, lba, k, e),
           NoEntries(w, e), OthersKeep(v, d, g, D, lba, k)
    PROVE  \E E \in SUBSET Lbas : \E fl \in Levels(E) : \E qth :
             /\ TreeOK(w, E, fl) /\ Named(w, E, qth)
             /\ Turns(Shown(v, d, D, pth), Shown(w, g, E, qth), pth[lba], e, g, Key(path))
<1>1. Turns(Shown(v, d, D, pth), Shown(w, g, D, pth), pth[lba], e, g, Key(path))
  BY ShownAfter DEF Turns, OthersKeep
<1>2. CASE ~NamesDir(e) /\ ~NamesDir(v[lba][k])
  <2>1. Fits(v, D, lba, k, e) /\ (e.used => lev[lba] <= PathDepth)
    BY EmptyIsGood DEF Change, Fits, Owns
  <2>2. TreeOK(w, D, lev)
    BY <1>2, <2>1, FileChangeKeepsTree
  <2>3. Named(w, D, pth)
    BY <1>2, FileChangeKeepsNames
  <2>4. QED
    BY <1>1, <2>2, <2>3
<1>3. CASE NamesDir(e)
  <2> DEFINE E == D \cup {e.start}
  <2>1. /\ ~NamesDir(v[lba][k]) /\ lev[lba] <= PathDepth /\ Fits(v, D, lba, k, e)
        /\ e.name = NameBytes(Leaf(path)) /\ Owns(e) /\ e.count = 1 /\ e.start \in Nat
    BY <1>3, EmptyIsGood, GoodFields DEF Change, NamesDir
  <2>2. \A s \in Slots : ~w[e.start][s].used
    BY <1>3 DEF NoEntries
  <2>3. e.start \notin D
    BY <2>1, FreshDir
  <2>4. PICK fl \in Levels(E) : TreeOK(w, E, fl)
    BY <1>3, <2>1, <2>2, NewDirKeepsTree
  <2>5. PICK qth : Named(w, E, qth) /\ AgreeOn(D, qth, pth)
    BY <1>3, <2>1, <2>2, <2>3, NewDirKeepsNames
  <2>6. UsedSlots(w, E) = UsedSlots(w, D)
    BY <2>2 DEF UsedSlots
  <2>7. \A o \in UsedSlots(w, D) : qth[o[1]] = pth[o[1]]
    BY <2>5 DEF UsedSlots, AgreeOn
  <2>8. E \in SUBSET Lbas
    BY <1>3, GoodFields
  <2> HIDE DEF E
  <2>9. Shown(w, g, E, qth) = Shown(w, g, D, pth)
    BY <2>6, <2>7, ShownElsewhere
  <2>10. QED
    BY <1>1, <2>4, <2>5, <2>8, <2>9
<1>4. CASE NamesDir(v[lba][k])
  <2> DEFINE x == v[lba][k].start
             E == D \ {x}
  <2>1. e = Empty /\ \A s \in Slots : ~v[x][s].used
    BY <1>4 DEF Change
  <2>2. Changed(v, w, D, lba, k, Empty)
    BY <2>1
  <2>3. PICK fl \in Levels(E) : TreeOK(w, E, fl)
    BY <1>4, <2>1, <2>2, GoneDirKeepsTree
  <2>4. PICK qth : Named(w, E, qth) /\ AgreeOn(E, qth, pth)
    <3> HIDE DEF x
    <3>1. QED
      BY <2>2, <2>3, GoneDirKeepsNames
  <2>5. \A o \in UsedSlots(w, D) : o[1] # x
    <3> SUFFICES ASSUME NEW o \in UsedSlots(w, D), o[1] = x PROVE FALSE
      OBVIOUS
    <3>1. o[1] \in D /\ o[2] \in Slots /\ w[o[1]][o[2]].used
      BY DEF UsedSlots
    <3>2. w[o[1]][o[2]] = Empty \/ w[o[1]][o[2]] = v[o[1]][o[2]]
      BY <2>2, <3>1 DEF Changed
    <3>3. QED
      BY <2>1, <3>1, <3>2, EmptyIsGood
  <2>6. UsedSlots(w, E) = UsedSlots(w, D)
    BY <2>5 DEF UsedSlots
  <2>7. \A o \in UsedSlots(w, D) : qth[o[1]] = pth[o[1]]
    <3>1. \A o \in UsedSlots(w, D) : o[1] \in E
      BY <2>5 DEF UsedSlots
    <3> HIDE DEF E
    <3>2. QED
      BY <2>4, <3>1 DEF AgreeOn
  <2>8. E \in SUBSET Lbas
    OBVIOUS
  <2> HIDE DEF E
  <2>9. Shown(w, g, E, qth) = Shown(w, g, D, pth)
    BY <2>6, <2>7, ShownElsewhere
  <2>10. QED
    BY <1>1, <2>3, <2>4, <2>8, <2>9
<1>5. QED
  BY <1>2, <1>3, <1>4

\* One sector is written.
LEMMA ViewAfterWrite ==
    ASSUME TypeInv, WriteSector
    PROVE  /\ \A t \in Lbas : t # pending[1].lba => View'[t] = View[t]
           /\ \A lba \in Lbas, T \in GoodTables :
                pending[1] = Save(lba, T) => View'[lba] = T
<1>1. /\ Head(pending) \in Writes /\ Head(pending) = pending[1]
  BY WriteSectorKeepsTypes
<1>2. /\ disk' = [disk EXCEPT ![pending[1].lba] = pending[1].sector]
      /\ disk \in [Lbas -> TableSectors \cup DataSectors] /\ pending[1].lba \in Lbas
  BY <1>1 DEF WriteSector, TypeInv, Writes
<1>3. \A t \in Lbas : View[t] = IF disk[t].magic THEN disk[t].entries ELSE EmptyTable
  BY DEF View, LoadDir
<1>4. \A t \in Lbas : View'[t] = IF disk'[t].magic THEN disk'[t].entries ELSE EmptyTable
  BY DEF View, LoadDir, EmptyTable, Empty, Slots
<1>5. ASSUME NEW t \in Lbas, t # pending[1].lba PROVE View'[t] = View[t]
  <2>1. disk'[t] = disk[t]
    BY <1>2, <1>5
  <2>2. QED
    BY <1>3, <1>4, <2>1
<1>6. ASSUME NEW lba \in Lbas, NEW T \in GoodTables, pending[1] = Save(lba, T)
      PROVE  View'[lba] = T
  <2>1. disk'[lba] = TableSector(T)
    BY <1>2, <1>6 DEF Save
  <2>2. QED
    BY <1>4, <2>1, SectorsAreOK
<1>7. QED
  BY <1>5, <1>6

LEMMA EntriesAreOnDisk ==
    ASSUME NEW e \in GoodEntry, e.used, NEW i \in 0 .. e.count - 1
    PROVE  e.start + i \in Lbas
<1>1. e.start \in Nat /\ e.count \in Nat
  BY GoodFields
<1>2. e.count # 0 /\ i \in Nat /\ i <= e.count - 1
  BY <1>1
<1>3. e.start \in Lbas /\ e.start + e.count - 1 \in Lbas
  BY <1>2 DEF GoodEntry, EntryOK
<1> DEFINE a == e.start
           c == e.count
<1> HIDE DEF a, c
<1>4. a + i \in Lbas
  BY <1>1, <1>2, <1>3, FileSystemAssumption DEF Lbas, DIR_LBA, FILE_DATA_START_LBA, a, c
<1>5. QED
  BY <1>4 DEF a

\* A sector that is written, a table of the tree or one that fits a new entry, holds no other file.
LEMMA OthersKeepContents ==
    ASSUME TypeInv, WriteSector, NEW D \in SUBSET Lbas, NEW lev, TreeOK(View, D, lev),
           NEW lba \in D, NEW k \in Slots,
           \/ pending[1].lba \in D
           \/ \E e \in GoodEntry : \E j \in 0 .. e.count - 1 :
                Fits(View, D, lba, k, e) /\ e.used /\ pending[1].lba = e.start + j
    PROVE  \A t \in D, s \in Slots :
             View[t][s].used /\ ~View[t][s].isDir /\ <<t, s>> # <<lba, k>> =>
               ContentsOn(disk', View[t][s]) = ContentsOn(disk, View[t][s])
<1> SUFFICES ASSUME NEW t \in D, NEW s \in Slots, View[t][s].used, ~View[t][s].isDir,
                    <<t, s>> # <<lba, k>>
             PROVE  ContentsOn(disk', View[t][s]) = ContentsOn(disk, View[t][s])
  OBVIOUS
<1> DEFINE x == View[t][s]
<1>1. View \in [Lbas -> GoodTables] /\ x \in GoodEntry
  BY ViewIsTables
<1>2. ASSUME NEW i \in 0 .. x.count - 1 PROVE x.start + i # pending[1].lba
  <2>1. x.start + i \notin D
    BY <1>1, FilesAreNotTables
  <2>2. ASSUME NEW e \in GoodEntry, NEW j \in 0 .. e.count - 1,
               Fits(View, D, lba, k, e), e.used
        PROVE  x.start + i # e.start + j
    <3>1. \A a \in 0 .. x.count - 1, b \in 0 .. e.count - 1 : x.start + a # e.start + b
      BY <1>1, <2>2, FilesAreNotNew
    <3> HIDE DEF x
    <3>2. QED
      BY <3>1
  <2>3. QED
    BY <2>1, <2>2
<1>3. /\ disk' = [disk EXCEPT ![pending[1].lba] = pending[1].sector]
      /\ disk \in [Lbas -> TableSectors \cup DataSectors]
  <2>1. Head(pending) = pending[1]
    BY WriteSectorKeepsTypes
  <2>2. QED
    BY <2>1 DEF WriteSector, TypeInv
<1> HIDE DEF x
<1>4. ASSUME NEW i \in 0 .. x.count - 1 PROVE disk'[x.start + i] = disk[x.start + i]
  <2>1. x.start + i \in Lbas
    BY <1>1, EntriesAreOnDisk DEF x
  <2>2. QED
    BY <1>2, <1>3, <2>1
<1>5. x.used /\ ~x.isDir
  BY DEF x
<1>6. ContentsOn(disk', x) = ContentsOn(disk, x)
  BY <1>1, <1>4, <1>5, SameContents
<1>7. QED
  BY <1>6 DEF x

\* The last sector of a call is written.
LEMMA LastWrite ==
    ASSUME TypeInv, WriteSector, Len(pending) = 1,
           NEW D \in SUBSET Lbas, NEW lev \in Levels(D), TreeOK(View, D, lev),
           NEW lba \in D, NEW k \in Slots, NEW e \in GoodEntry,
           Outstanding(pending, View, D, lev, lba, k, e)
    PROVE  /\ pending[1].lba = lba /\ pending' = <<>> /\ request' = Idle
           /\ Changed(View, View', D, lba, k, e)
           /\ NamesDir(e) => \A s \in Slots : ~View'[e.start][s].used
<1> DEFINE T == [View[lba] EXCEPT ![k] = e]
           w == View'
<1>w. w = View'
  OBVIOUS
<1> HIDE DEF w
<1>1. View \in [Lbas -> GoodTables] /\ View[lba] \in GoodTables /\ T \in GoodTables
  <2>1. View \in [Lbas -> GoodTables]
    BY ViewIsTables
  <2>2. QED
    BY <2>1, ReplacedEntry
<1>2. pending[1] = Save(lba, T) /\ pending[1].lba = lba
  BY DEF Outstanding, Save
<1>3. pending' = <<>> /\ request' = Idle
  <2>1. Len(Tail(pending)) = 0 /\ TypeInv'
    BY WriteSectorKeepsTypes
  <2>2. pending' = Tail(pending) /\ request' = IF Tail(pending) = <<>> THEN Idle ELSE request
    BY DEF WriteSector
  <2>3. pending' = <<>>
    BY <2>1, <2>2, EmptySeq DEF TypeInv
  <2>4. QED
    BY <2>2, <2>3
<1>4. w[lba] = T /\ \A t \in Lbas : t # lba => w[t] = View[t]
  BY <1>1, <1>2, <1>w, ViewAfterWrite
<1>5. Changed(View, w, D, lba, k, e)
  <2>1. ASSUME NEW t \in D, NEW s \in Slots
        PROVE  w[t][s] = IF <<t, s>> = <<lba, k>> THEN e ELSE View[t][s]
    <3>1. CASE t = lba
      <4>1. View[lba] \in [Slots -> GoodEntry]
        BY <1>1 DEF GoodTables
      <4>2. T[s] = IF s = k THEN e ELSE View[lba][s]
        BY <4>1
      <4>3. QED
        BY <1>4, <3>1, <4>2
    <3>2. CASE t # lba
      BY <1>4, <3>2
    <3>3. QED
      BY <3>1, <3>2
  <2>2. QED
    BY <2>1 DEF Changed
<1>6. ASSUME NamesDir(e) PROVE \A s \in Slots : ~w[e.start][s].used
  <2>1. View[e.start] = EmptyTable /\ Change(View, D, lev, lba, k, e)
    BY <1>6 DEF Outstanding
  <2>2. e # Empty /\ ~NamesDir(View[lba][k]) /\ Fits(View, D, lba, k, e)
    BY <1>6, <2>1 DEF Change, NamesDir, Empty
  <2>3. Owns(e) /\ e.start \in Lbas /\ e.start \in Nat /\ e.count = 1
    BY <1>6, GoodFields
  <2>4. e.start \notin D
    BY <1>1, <2>2, <2>3, FreshDir
  <2>5. w[e.start] = EmptyTable
    BY <1>4, <2>1, <2>3, <2>4
  <2>6. QED
    BY <2>5, EmptyIsGood DEF EmptyTable
<1>7. QED
  BY <1>2, <1>3, <1>5, <1>6, <1>w

\* A sector is written that is not the last of its call.
LEMMA EarlierWrite ==
    ASSUME TypeInv, WriteSector, Len(pending) # 1,
           NEW D \in SUBSET Lbas, NEW lev \in Levels(D), TreeOK(View, D, lev),
           NEW lba \in D, NEW k \in Slots, NEW e \in GoodEntry,
           Outstanding(pending, View, D, lev, lba, k, e)
    PROVE  /\ pending' # <<>> /\ request' = request
           /\ \A t \in D : View'[t] = View[t]
           /\ Outstanding(pending', View', D, lev, lba, k, e)
<1> DEFINE w == View'
           p == Tail(pending)
<1>w. w = View'
  OBVIOUS
<1> HIDE DEF w
<1>1. /\ Len(pending) \in Nat \ {0}
      /\ pending[Len(pending)] = Save(lba, [View[lba] EXCEPT ![k] = e])
      /\ \A i \in 1 .. Len(pending) - 1 : pending[i].lba \notin D
      /\ Change(View, D, lev, lba, k, e)
      /\ NamesDir(e) => \/ Len(pending) = 1 /\ View[e.start] = EmptyTable
                        \/ Len(pending) = 2 /\ pending[1] = Save(e.start, EmptyTable)
  BY DEF Outstanding
<1>2. /\ Len(p) \in Nat \ {0} /\ Len(p) = Len(pending) - 1
      /\ \A i \in 1 .. Len(p) : p[i] = pending[i + 1]
  <2>1. /\ Len(p) = Len(pending) - 1
        /\ \A i \in 1 .. Len(pending) - 1 : p[i] = pending[i + 1]
    BY WriteSectorKeepsTypes
  <2>2. QED
    BY <1>1, <2>1
<1>3. pending' = p /\ p # <<>> /\ request' = request
  <2>1. Len(<<>>) = 0
    OBVIOUS
  <2>2. p # <<>>
    BY <1>2, <2>1
  <2>3. QED
    BY <2>2 DEF WriteSector
<1> HIDE DEF p
<1>4. \A t \in D : w[t] = View[t]
  <2>1. 1 \in 1 .. Len(pending) - 1 /\ pending[1].lba \notin D
    BY <1>1, <1>2
  <2>2. \A t \in Lbas : t # pending[1].lba => w[t] = View[t]
    BY <1>w, ViewAfterWrite
  <2>3. QED
    BY <2>1, <2>2
<1>5. Change(w, D, lev, lba, k, e)
  BY <1>1, <1>4, ElsewhereKeepsChange
<1>6. p[Len(p)] = Save(lba, [w[lba] EXCEPT ![k] = e])
  BY <1>1, <1>2, <1>4
<1>7. ASSUME NEW i \in 1 .. Len(p) - 1 PROVE p[i].lba \notin D
  <2>1. i \in 1 .. Len(p) /\ i + 1 \in 1 .. Len(pending) - 1
    BY <1>2
  <2>2. QED
    BY <1>1, <1>2, <2>1
<1>8. ASSUME NamesDir(e) PROVE Len(p) = 1 /\ w[e.start] = EmptyTable
  <2>1. Len(pending) = 2 /\ pending[1] = Save(e.start, EmptyTable)
    BY <1>1, <1>8
  <2>2. e.start \in Lbas
    BY <1>8, GoodFields
  <2>3. w[e.start] = EmptyTable
    BY <1>w, <2>1, <2>2, EmptyIsGood, ViewAfterWrite
  <2>4. QED
    BY <1>2, <2>1, <2>3
<1>9. Outstanding(p, w, D, lev, lba, k, e)
  BY <1>2, <1>5, <1>6, <1>7, <1>8 DEF Outstanding
<1>10. QED
  BY <1>3, <1>4, <1>9, <1>w

LEMMA LastWriteShows ==
    ASSUME TypeInv, WriteSector, Len(pending) = 1,
           NEW D \in SUBSET Lbas, NEW lev \in Levels(D), TreeOK(View, D, lev),
           NEW pth, Named(View, D, pth),
           NEW lba \in D, NEW k \in Slots, NEW e \in GoodEntry, NEW path \in Paths,
           UnderWay(pending, View, disk, request, D, lev, pth, lba, k, e, path)
    PROVE  \E E \in SUBSET Lbas : \E fl \in Levels(E) : \E qth :
             /\ TreeOK(View', E, fl) /\ Named(View', E, qth)
             /\ Turns(Shown(View, disk, D, pth), Shown(View', disk', E, qth),
                      pth[lba], e, disk', Key(path))
<1>1. /\ Outstanding(pending, View, D, lev, lba, k, e) /\ Target(View, pth, lba, k, path)
      /\ e.used => e.name = NameBytes(Leaf(path))
      /\ Change(View, D, lev, lba, k, e)
  BY DEF UnderWay, Outstanding
<1> DEFINE w == View'
           g == disk'
<1>2. pending[1].lba = lba /\ Changed(View, w, D, lba, k, e) /\ NoEntries(w, e)
  BY <1>1, LastWrite DEF NoEntries
<1>3. OthersKeep(View, disk, g, D, lba, k)
  BY <1>2, OthersKeepContents DEF OthersKeep
<1>4. View \in [Lbas -> GoodTables]
  BY ViewIsTables
<1> HIDE DEF w, g
<1>5. \E E \in SUBSET Lbas : \E fl \in Levels(E) : \E qth :
        /\ TreeOK(w, E, fl) /\ Named(w, E, qth)
        /\ Turns(Shown(View, disk, D, pth), Shown(w, g, E, qth), pth[lba], e, g, Key(path))
  BY <1>1, <1>2, <1>3, <1>4, ChangeKeepsTree
<1>6. QED
  BY <1>5 DEF w, g

LEMMA EarlierWriteShows ==
    ASSUME TypeInv, WriteSector, Len(pending) # 1,
           NEW D \in SUBSET Lbas, NEW lev \in Levels(D), TreeOK(View, D, lev),
           NEW pth, Named(View, D, pth),
           NEW lba \in D, NEW k \in Slots, NEW e \in GoodEntry, NEW path \in Paths,
           UnderWay(pending, View, disk, request, D, lev, pth, lba, k, e, path)
    PROVE  /\ UnderWay(pending', View', disk', request', D, lev, pth, lba, k, e, path)
           /\ TreeOK(View', D, lev) /\ Named(View', D, pth)
           /\ Turns(Shown(View, disk, D, pth), Shown(View', disk', D, pth),
                    pth[lba], View[lba][k], disk', Key(path))
<1> DEFINE w == View'
           g == disk'
           p == pending'
           n == Len(pending)
           old == View[lba][k]
<1>1. /\ Outstanding(pending, View, D, lev, lba, k, e) /\ Target(View, pth, lba, k, path)
      /\ e.used => e.name = NameBytes(Leaf(path))
      /\ Change(View, D, lev, lba, k, e)
      /\ Asked(request, pending, disk, old, e, path)
      /\ NamesDir(e) => n = 2 /\ pending[1] = Save(e.start, EmptyTable)
  BY DEF UnderWay, Outstanding
<1>2. /\ request' = request /\ \A t \in D : w[t] = View[t]
      /\ Outstanding(p, w, D, lev, lba, k, e)
  BY <1>1, EarlierWrite
<1>3. /\ n \in Nat \ {0} /\ n # 1 /\ Len(p) = n - 1
      /\ \A i \in 1 .. n - 1 : p[i] = pending[i + 1]
  <2>1. pending' = Tail(pending)
    BY DEF WriteSector
  <2>2. QED
    BY <2>1, WriteSectorKeepsTypes
<1>4. /\ disk' = [disk EXCEPT ![pending[1].lba] = pending[1].sector]
      /\ disk \in [Lbas -> TableSectors \cup DataSectors]
  <2>1. Head(pending) = pending[1]
    BY WriteSectorKeepsTypes
  <2>2. QED
    BY <2>1 DEF WriteSector, TypeInv
<1>5. e.start \in Nat /\ e.count \in Nat
  BY GoodFields
<1>t. View \in [Lbas -> GoodTables] /\ old \in GoodEntry
  BY ViewIsTables
<1> HIDE DEF w, g, p, n
<1>6. TreeOK(w, D, lev) /\ Named(w, D, pth) /\ Target(w, pth, lba, k, path) /\ w[lba][k] = old
  <2>1. TreeOK(w, D, lev)
    BY <1>2, ElsewhereKeepsTree
  <2>2. Named(w, D, pth)
    BY <1>2, ElsewhereKeepsNames
  <2>3. Target(w, pth, lba, k, path) /\ w[lba][k] = old
    BY <1>1, <1>2 DEF Target
  <2>4. QED
    BY <2>1, <2>2, <2>3
<1>7. ASSUME request = [op |-> "mkdir", path |-> path], NamesDir(e), ~old.used
      PROVE  /\ \E j \in 0 .. e.count - 1 :
                  Fits(View, D, lba, k, e) /\ e.used /\ pending[1].lba = e.start + j
             /\ Asked(request', p, g, old, e, path)
  <2>1. \E j \in 0 .. e.count - 1 :
          Fits(View, D, lba, k, e) /\ e.used /\ pending[1].lba = e.start + j
    <3>1. e.used /\ e.count = 1 /\ Fits(View, D, lba, k, e)
      BY <1>1, <1>7, GoodFields, EmptyIsGood DEF Change, NamesDir
    <3>2. pending[1].lba = e.start + 0 /\ 0 \in 0 .. e.count - 1
      BY <1>1, <1>5, <1>7, <3>1 DEF Save
    <3>3. QED
      BY <3>1, <3>2
  <2>2. Asked(request', p, g, old, e, path)
    BY <1>2, <1>7 DEF Asked
  <2>3. QED
    BY <2>1, <2>2
<1>8. ASSUME NEW data \in Data,
             request = [op |-> "write", path |-> path, data |-> data],
             e.used, ~e.isDir, ~NamesDir(old), e.len = Len(data),
             Written(pending, disk, e, data)
      PROVE  /\ \E j \in 0 .. e.count - 1 :
                  Fits(View, D, lba, k, e) /\ e.used /\ pending[1].lba = e.start + j
             /\ Asked(request', p, g, old, e, path)
  <2> DEFINE done == e.count - (n - 1)
             B(i) == Block(data, i)
  <2>1. /\ done >= 0
        /\ \A i \in 1 .. e.count :
             IF i <= done THEN disk[e.start + i - 1] = B(i)
             ELSE pending[i - done] = [lba |-> e.start + i - 1, sector |-> B(i)]
    BY <1>8 DEF Written, n
  <2>2. done \in 0 .. e.count - 1 /\ done + 1 \in 1 .. e.count /\ (done + 1) - done = 1
        /\ e.start + (done + 1) - 1 = e.start + done
    <3> DEFINE c == e.count
               a == e.start
    <3>1. n \in Nat /\ n >= 2 /\ c \in Nat /\ a \in Nat /\ done = c - (n - 1)
      BY <1>3, <1>5
    <3>2. done >= 0
      BY <2>1
    <3> HIDE DEF done, c, a
    <3>3. done \in 0 .. c - 1 /\ done + 1 \in 1 .. c /\ (done + 1) - done = 1
          /\ a + (done + 1) - 1 = a + done
      BY <3>1, <3>2
    <3>4. QED
      BY <3>3 DEF c, a
  <2>3. pending[1] = [lba |-> e.start + done, sector |-> B(done + 1)]
    <3> DEFINE i == done + 1
    <3>1. i \in 1 .. e.count /\ ~(i <= done) /\ i - done = 1 /\ e.start + i - 1 = e.start + done
      BY <1>5, <2>2
    <3> HIDE DEF i, done, B
    <3>2. pending[i - done] = [lba |-> e.start + i - 1, sector |-> B(i)]
      BY <2>1, <3>1
    <3>3. QED
      BY <3>1, <3>2 DEF i
  <2>4. Fits(View, D, lba, k, e)
    BY <1>1, <1>8, EmptyIsGood DEF Change
  <2>5. pending[1].lba = e.start + done /\ pending[1].sector = B(done + 1)
    BY <2>3
  <2>6. Written(p, g, e, data)
    <3> DEFINE m == e.count - (Len(p) - 1)
    <3>1. m = done + 1
      <4> DEFINE c == e.count
                 l == Len(p)
      <4>1. n \in Nat /\ c \in Nat /\ l = n - 1 /\ m = c - (l - 1) /\ done = c - (n - 1)
        BY <1>3, <1>5
      <4> HIDE DEF c, l, m, done
      <4>2. QED
        BY <4>1
    <3>2. m >= 0
      BY <2>2, <3>1
    <3>3. ASSUME NEW i \in 1 .. e.count
          PROVE  IF i <= m THEN g[e.start + i - 1] = B(i)
                 ELSE p[i - m] = [lba |-> e.start + i - 1, sector |-> B(i)]
      <4>1. e.start + i - 1 \in Lbas
        <5>1. i - 1 \in 0 .. e.count - 1 /\ e.start + (i - 1) = e.start + i - 1
          BY <1>5
        <5>2. e.start + (i - 1) \in Lbas
          BY <1>8, <5>1, EntriesAreOnDisk
        <5>3. QED
          BY <5>1, <5>2
      <4> HIDE DEF done, m, B
      <4>2. CASE i <= done
        <5>1. i <= m /\ e.start + i - 1 # e.start + done
          BY <1>5, <2>2, <3>1, <4>2
        <5>2. disk[e.start + i - 1] = B(i)
          BY <2>1, <4>2
        <5>3. g[e.start + i - 1] = disk[e.start + i - 1]
          BY <1>4, <2>5, <4>1, <5>1 DEF g
        <5>4. QED
          BY <5>1, <5>2, <5>3
      <4>3. CASE i = done + 1
        <5>1. i <= m /\ e.start + i - 1 = e.start + done
          BY <1>5, <2>2, <3>1, <4>3
        <5>2. g[e.start + i - 1] = B(i)
          BY <1>4, <2>5, <4>1, <4>3, <5>1 DEF g
        <5>3. QED
          BY <5>1, <5>2
      <4>4. CASE i > done + 1
        <5>1. ~(i <= m) /\ ~(i <= done) /\ i - m \in 1 .. n - 1 /\ (i - m) + 1 = i - done
          <6> DEFINE c == e.count
          <6>1. c \in Nat /\ n \in Nat /\ i \in 1 .. c /\ done = c - (n - 1)
            BY <1>3, <1>5 DEF done
          <6>2. done \in 0 .. c - 1
            BY <2>2
          <6> HIDE DEF c
          <6>3. QED
            BY <3>1, <4>4, <6>1, <6>2
        <5>2. p[i - m] = pending[i - done]
          <6> DEFINE q == i - m
          <6>1. q \in 1 .. n - 1 /\ q + 1 = i - done
            BY <5>1
          <6> HIDE DEF q
          <6>2. p[q] = pending[q + 1]
            BY <1>3, <6>1
          <6>3. QED
            BY <6>1, <6>2 DEF q
        <5>3. pending[i - done] = [lba |-> e.start + i - 1, sector |-> B(i)]
          BY <2>1, <5>1
        <5>4. QED
          BY <5>1, <5>2, <5>3
      <4>5. i <= done \/ i = done + 1 \/ i > done + 1
        BY <2>2
      <4>6. QED
        BY <4>2, <4>3, <4>4, <4>5
    <3>4. QED
      BY <3>2, <3>3 DEF Written
  <2>7. Asked(request', p, g, old, e, path)
    BY <1>2, <1>8, <2>6 DEF Asked
  <2>8. QED
    BY <1>8, <2>2, <2>4, <2>5, <2>7
<1>9. /\ \E j \in 0 .. e.count - 1 :
           Fits(View, D, lba, k, e) /\ e.used /\ pending[1].lba = e.start + j
      /\ Asked(request', p, g, old, e, path)
  <2>1. \/ request = [op |-> "mkdir", path |-> path] /\ NamesDir(e) /\ ~old.used
        \/ \E data \in Data :
             /\ request = [op |-> "write", path |-> path, data |-> data]
             /\ e.used /\ ~e.isDir /\ ~NamesDir(old) /\ e.len = Len(data)
             /\ Written(pending, disk, e, data)
    BY <1>1, <1>3 DEF Asked, n
  <2> DEFINE Goal == /\ \E j \in 0 .. e.count - 1 :
                          Fits(View, D, lba, k, e) /\ e.used /\ pending[1].lba = e.start + j
                     /\ Asked(request', p, g, old, e, path)
  <2>2. request = [op |-> "mkdir", path |-> path] /\ NamesDir(e) /\ ~old.used => Goal
    BY <1>7
  <2>3. ASSUME NEW data \in Data,
               /\ request = [op |-> "write", path |-> path, data |-> data]
               /\ e.used /\ ~e.isDir /\ ~NamesDir(old) /\ e.len = Len(data)
               /\ Written(pending, disk, e, data)
        PROVE  Goal
    BY <1>8, <2>3
  <2> HIDE DEF Goal
  <2>4. Goal
    BY <2>1, <2>2, <2>3
  <2>5. QED
    BY <2>4 DEF Goal
<1>10. OthersKeep(View, disk, g, D, lba, k)
  BY <1>9, OthersKeepContents DEF g, OthersKeep
<1>11. Changed(View, w, D, lba, k, old)
  BY <1>2 DEF Changed
<1>12. Turns(Shown(View, disk, D, pth), Shown(w, g, D, pth), pth[lba], old, g, Key(path))
  BY <1>1, <1>t, <1>10, <1>11, ShownAfter DEF Turns, OthersKeep
<1>13. UnderWay(p, w, g, request', D, lev, pth, lba, k, e, path)
  BY <1>1, <1>2, <1>6, <1>9 DEF UnderWay
<1>14. QED
  BY <1>6, <1>12, <1>13 DEF w, g, p

LEMMA WriteSectorKeepsTree ==
    ASSUME FsInv, WriteSector
    PROVE  TreeInv'
<1>1. PICK D, lev, pth : IsTree(pending, View, disk, request, D, lev, pth)
  BY DEF FsInv, TreeInv
<1>2. /\ D \in SUBSET Lbas /\ lev \in Levels(D) /\ TreeOK(View, D, lev) /\ Named(View, D, pth)
      /\ PendingOK(pending, View, disk, request, D, lev, pth)
      /\ pending # <<>> /\ TypeInv
  BY <1>1 DEF IsTree, FsInv, WriteSector
<1>3. PICK lba \in D, k \in Slots, e \in GoodEntry, path \in Paths :
        UnderWay(pending, View, disk, request, D, lev, pth, lba, k, e, path)
  BY <1>2 DEF PendingOK
<1>4. CASE Len(pending) = 1
  <2>1. pending' = <<>>
    BY <1>2, <1>3, <1>4, LastWrite DEF UnderWay
  <2>2. PICK E \in SUBSET Lbas : \E fl \in Levels(E) : \E qth :
          /\ TreeOK(View', E, fl) /\ Named(View', E, qth)
          /\ Turns(Shown(View, disk, D, pth), Shown(View', disk', E, qth),
                   pth[lba], e, disk', Key(path))
    BY <1>2, <1>3, <1>4, LastWriteShows
  <2>3. PICK fl, qth : fl \in Levels(E) /\ TreeOK(View', E, fl) /\ Named(View', E, qth)
    BY <2>2
  <2>4. IsTree(pending', View', disk', request', E, fl, qth)
    BY <2>1, <2>3 DEF IsTree, PendingOK
  <2>5. QED
    BY <2>4 DEF TreeInv
<1>5. CASE Len(pending) # 1
  <2>1. /\ UnderWay(pending', View', disk', request', D, lev, pth, lba, k, e, path)
        /\ TreeOK(View', D, lev) /\ Named(View', D, pth)
    BY <1>2, <1>3, <1>5, EarlierWriteShows
  <2>2. IsTree(pending', View', disk', request', D, lev, pth)
    BY <1>2, <2>1 DEF IsTree, PendingOK
  <2>3. QED
    BY <2>2 DEF TreeInv
<1>6. QED
  BY <1>4, <1>5

\* The directory that a call has found is one of the tree's tables.
LEMMA ParentIsInTree ==
    ASSUME TypeInv, NEW D \in SUBSET Lbas, NEW lev \in Levels(D), TreeOK(View, D, lev),
           NEW path \in Paths, NEW lba \in Lbas, lba = ResolveDir(Parent(path), {})
    PROVE  /\ lba \in D /\ lev[lba] <= PathDepth
           /\ \A s \in Slots : LoadDir(lba, {})[s] = View[lba][s]
           /\ LoadDir(lba, {}) = View[lba]
<1>1. lba # NoTable /\ Len(Parent(path)) \in Nat /\ Len(Parent(path)) <= PathDepth
  BY LbasAreNumbers, PathParts, FileSystemAssumption
<1>2. lba \in D /\ lev[lba] = Len(Parent(path))
  BY <1>1, ResolvedIsInTree
<1>3. LoadDir(lba, {}) = View[lba]
  BY ViewIsTables
<1>4. QED
  BY <1>1, <1>2, <1>3

\* The slot that a call has found is the one for its path.
LEMMA CallFindsTarget ==
    ASSUME TypeInv, NEW D \in SUBSET Lbas, NEW lev \in Levels(D), TreeOK(View, D, lev),
           NEW pth, Named(View, D, pth),
           NEW path \in Paths, NEW lba \in Lbas, lba = ResolveDir(Parent(path), {}),
           NEW k \in Slots,
           IF View[lba][k].used THEN View[lba][k].name = NameBytes(Leaf(path))
           ELSE \A s \in Slots : View[lba][s].used => View[lba][s].name # NameBytes(Leaf(path))
    PROVE  Target(View, pth, lba, k, path)
<1>1. lba # NoTable /\ Parent(path) \in Seq(Name)
  BY LbasAreNumbers, KeyParts
<1>2. lba \in D /\ pth[lba] = Key(Parent(path))
  BY <1>1, ResolvedIsNamed
<1>3. ASSUME NEW s \in Slots, View[lba][s].used
      PROVE  View[lba][s].name = NameBytes(Leaf(path)) <=> s = k
  BY <1>2, <1>3 DEF Named
<1>4. QED
  BY <1>2, <1>3 DEF Target

\* A span that the allocator finds free is nobody else's.
LEMMA FreeSpanFits ==
    ASSUME TypeInv, NEW D \in SUBSET Lbas, NEW lev \in Levels(D), TreeOK(View, D, lev),
           PathDepth < MaxDepth, NEW lba \in D, NEW k \in Slots, NEW e \in GoodEntry,
           LET old == View[lba][k]
               exclude == IF old.used THEN <<old.start, old.count>> ELSE <<>>
           IN e.count # 0 => \/ e.start \in FreeSpans(Occupied(exclude, {}), e.count)
                             \/ e.start \in FreeSpans(Occupied(<<>>, {}), e.count)
    PROVE  Fits(View, D, lba, k, e)
<1> SUFFICES ASSUME Owns(e) PROVE /\ e.start > DIR_LBA
                                  /\ \A t \in D, s \in Slots :
                                       <<t, s>> # <<lba, k>> /\ Owns(View[t][s]) =>
                                         ~Overlap(Span(e), Span(View[t][s]))
  BY DEF Fits
<1> DEFINE old == View[lba][k]
           exclude == IF old.used THEN <<old.start, old.count>> ELSE <<>>
<1>1. PICK x \in {exclude, <<>>} : e.start \in FreeSpans(Occupied(x, {}), e.count)
  BY DEF Owns
<1>2. e.count \in Nat /\ e.start > DIR_LBA
      /\ \A r \in Occupied(x, {}) : ~Overlap(<<e.start, e.count>>, r)
  <2>1. e.count \in Nat
    BY DEF GoodEntry, EntryType
  <2>2. QED
    BY <1>1, <2>1, SpansAreLbas
<1>3. ASSUME NEW t \in D, NEW s \in Slots, <<t, s>> # <<lba, k>>, Owns(View[t][s])
      PROVE  ~Overlap(Span(e), Span(View[t][s]))
  <2>1. Span(View[t][s]) \in Occupied(exclude, {}) /\ Span(View[t][s]) \in Occupied(<<>>, {})
    BY <1>3, OccupiedByOthers
  <2>2. Span(View[t][s]) \in Occupied(x, {})
    BY <1>1, <2>1
  <2>3. QED
    BY <1>2, <2>2 DEF Span
<1>4. QED
  BY <1>2, <1>3

LEMMA MakeDirKeepsTree ==
    ASSUME FsInv, PathDepth < MaxDepth, NEW path \in Paths, MakeDir(path, {}, {})
    PROVE  TreeInv'
<1>1. PICK D, lev, pth : IsTree(pending, View, disk, request, D, lev, pth)
  BY DEF FsInv, TreeInv
<1>2. /\ TypeInv /\ D \in SUBSET Lbas /\ lev \in Levels(D) /\ TreeOK(View, D, lev)
      /\ Named(View, D, pth)
  BY <1>1 DEF FsInv, IsTree
<1>3. PICK lba \in Lbas, k \in Slots, e \in GoodEntry : MakeDirLeft(path, {}, {}, lba, k, e)
  BY <1>2, MakeDirLeaves
<1>4. /\ lba = ResolveDir(Parent(path), {}) /\ ~LoadDir(lba, {})[k].used
      /\ \A s \in Slots : LoadDir(lba, {})[s].used =>
                            LoadDir(lba, {})[s].name # NameBytes(Leaf(path))
      /\ e.used /\ e.isDir /\ e.count = 1 /\ e.name = NameBytes(Leaf(path))
      /\ e.start \in FreeSpans(Occupied(<<>>, {}), 1)
      /\ UNCHANGED disk /\ request' = [op |-> "mkdir", path |-> path]
      /\ pending' = <<Save(e.start, EmptyTable), Save(lba, [LoadDir(lba, {}) EXCEPT ![k] = e])>>
  BY <1>3 DEF MakeDirLeft
<1>5. lba \in D /\ lev[lba] <= PathDepth /\ LoadDir(lba, {}) = View[lba] /\ ~View[lba][k].used
  BY <1>2, <1>4, ParentIsInTree
<1>6. Fits(View, D, lba, k, e)
  BY <1>2, <1>4, <1>5, FreeSpanFits
<1>7. e.start \notin D
  <2>1. Owns(e) /\ e.start \in Nat /\ e.count \in Nat /\ e.start + 0 = e.start /\ 0 < e.count
    BY <1>4 DEF Owns, GoodEntry, EntryType
  <2>2. ~NamesDir(View[lba][k]) /\ View \in [Lbas -> GoodTables]
    BY <1>2, <1>5, ViewIsTables DEF NamesDir
  <2>3. e.start + 0 \notin D
    BY <1>2, <1>5, <1>6, <2>1, <2>2, FreshTable
  <2>4. QED
    BY <2>1, <2>3
<1>8. Change(View, D, lev, lba, k, e)
  BY <1>4, <1>5, <1>6 DEF Change, NamesDir
<1> DEFINE a == Save(e.start, EmptyTable)
           b == Save(lba, [View[lba] EXCEPT ![k] = e])
           p == <<a, b>>
<1>9. Outstanding(p, View, D, lev, lba, k, e)
  <2>1. a.lba \notin D
    BY <1>7 DEF Save
  <2> HIDE DEF a, b
  <2>2. Len(p) = 2 /\ p[1] = a /\ p[2] = b
    OBVIOUS
  <2>3. \A i \in 1 .. Len(p) - 1 : p[i].lba \notin D
    BY <2>1, <2>2
  <2> HIDE DEF p
  <2>4. QED
    BY <1>8, <2>2, <2>3 DEF Outstanding, a, b
<1>10. pending' = p /\ View' = View
  BY <1>4, <1>5 DEF View, LoadDir, EmptyTable, Empty, Slots
<1>11. Target(View, pth, lba, k, path)
  BY <1>2, <1>4, <1>5, CallFindsTarget
<1> HIDE DEF p
<1>12. Asked(request', p, disk', View[lba][k], e, path)
  BY <1>4, <1>5 DEF Asked, NamesDir
<1>13. UnderWay(pending', View', disk', request', D, lev, pth, lba, k, e, path)
  BY <1>4, <1>9, <1>10, <1>11, <1>12 DEF UnderWay
<1>14. IsTree(pending', View', disk', request', D, lev, pth)
  BY <1>2, <1>5, <1>10, <1>13 DEF IsTree, PendingOK
<1>15. QED
  BY <1>14 DEF TreeInv

LEMMA WriteFileKeepsTree ==
    ASSUME FsInv, PathDepth < MaxDepth, NEW path \in Paths, NEW data \in Data,
           WriteFile(path, data, {}, {})
    PROVE  TreeInv'
<1>1. PICK D, lev, pth : IsTree(pending, View, disk, request, D, lev, pth)
  BY DEF FsInv, TreeInv
<1>2. /\ TypeInv /\ D \in SUBSET Lbas /\ lev \in Levels(D) /\ TreeOK(View, D, lev)
      /\ Named(View, D, pth)
  BY <1>1 DEF FsInv, IsTree
<1>3. PICK lba \in Lbas, k \in Slots, e \in GoodEntry :
        WriteFileLeft(path, data, {}, {}, lba, k, e)
  BY <1>2, WriteFileLeaves
<1> DEFINE old == LoadDir(lba, {})[k]
           exclude == IF old.used THEN <<old.start, old.count>> ELSE <<>>
           blocks == [i \in 1 .. e.count |-> [lba |-> e.start + i - 1, sector |-> Block(data, i)]]
           last == Save(lba, [LoadDir(lba, {}) EXCEPT ![k] = e])
           p == Append(blocks, last)
<1>4. /\ lba = ResolveDir(Parent(path), {}) /\ ~(old.used /\ old.isDir)
      /\ IF old.used THEN old.name = NameBytes(Leaf(path))
         ELSE \A s \in Slots : LoadDir(lba, {})[s].used =>
                                LoadDir(lba, {})[s].name # NameBytes(Leaf(path))
      /\ e.used /\ ~e.isDir /\ e.name = NameBytes(Leaf(path)) /\ e.len = Len(data)
      /\ e.count # 0 => e.start \in FreeSpans(Occupied(exclude, {}), e.count)
      /\ UNCHANGED disk /\ request' = [op |-> "write", path |-> path, data |-> data]
      /\ pending' = p
  BY <1>3 DEF WriteFileLeft
<1>5. lba \in D /\ lev[lba] <= PathDepth /\ LoadDir(lba, {}) = View[lba] /\ ~NamesDir(View[lba][k])
  BY <1>2, <1>4, ParentIsInTree DEF NamesDir
<1>6. Fits(View, D, lba, k, e)
  BY <1>2, <1>4, <1>5, FreeSpanFits
<1>7. e.count \in Nat /\ e.start \in Nat
  BY DEF GoodEntry, EntryType
<1>8. ASSUME NEW i \in 1 .. e.count PROVE blocks[i].lba \notin D
  <2>1. i - 1 \in Nat /\ i - 1 < e.count /\ Owns(e) /\ e.start + (i - 1) = e.start + i - 1
    BY <1>4, <1>7 DEF Owns
  <2>2. View \in [Lbas -> GoodTables]
    BY <1>2, ViewIsTables
  <2>3. e.start + (i - 1) \notin D
    BY <1>2, <1>5, <1>6, <1>7, <2>1, <2>2, FreshTable
  <2>4. QED
    BY <2>1, <2>3
<1>9. Change(View, D, lev, lba, k, e)
  BY <1>4, <1>5, <1>6 DEF Change
<1>10. Outstanding(p, View, D, lev, lba, k, e) /\ Written(p, disk, e, data)
  <2> HIDE DEF last
  <2> DEFINE R == {blocks[i] : i \in 1 .. e.count}
  <2>1. blocks \in Seq(R) /\ Len(blocks) = e.count
    <3>1. DOMAIN blocks = 1 .. e.count /\ \A i \in 1 .. e.count : blocks[i] \in R
      OBVIOUS
    <3>2. blocks = [i \in 1 .. e.count |-> blocks[i]]
      OBVIOUS
    <3> HIDE DEF blocks, R
    <3>3. blocks \in [1 .. e.count -> R]
      BY <3>1, <3>2
    <3>4. QED
      BY <1>7, <3>3, LenProperties
  <2> HIDE DEF blocks, R
  <2>2. Len(p) = e.count + 1 /\ p[e.count + 1] = last /\ \A i \in 1 .. e.count : p[i] = blocks[i]
    BY <1>7, <2>1
  <2> HIDE DEF p
  <2>3. Len(p) \in Nat \ {0} /\ p[Len(p)] = last
    BY <1>7, <2>2
  <2>4. ASSUME NEW i \in 1 .. Len(p) - 1 PROVE p[i].lba \notin D
    <3>1. e.count \in Nat /\ i \in 1 .. e.count
      BY <1>7, <2>2
    <3>2. QED
      BY <1>8, <2>2, <3>1
  <2>5. last = Save(lba, [View[lba] EXCEPT ![k] = e])
    BY <1>5 DEF last
  <2>6. Outstanding(p, View, D, lev, lba, k, e)
    BY <1>4, <1>9, <2>3, <2>4, <2>5 DEF Outstanding, NamesDir
  <2>7. e.count - (Len(p) - 1) = 0
    BY <1>7, <2>2
  <2>8. ASSUME NEW i \in 1 .. e.count
        PROVE  p[i] = [lba |-> e.start + i - 1, sector |-> Block(data, i)]
    BY <2>2 DEF blocks
  <2>9. Written(p, disk, e, data)
    <3>1. \A i \in 1 .. e.count : ~(i <= 0) /\ i - 0 = i
      OBVIOUS
    <3>2. QED
      BY <2>7, <2>8, <3>1 DEF Written
  <2>10. QED
    BY <2>6, <2>9
<1>11. View' = View
  BY <1>4 DEF View, LoadDir, EmptyTable, Empty, Slots
<1>12. Target(View, pth, lba, k, path)
  BY <1>2, <1>4, <1>5, CallFindsTarget
<1> HIDE DEF p
<1>13. Asked(request', p, disk, View[lba][k], e, path)
  BY <1>4, <1>5, <1>10 DEF Asked
<1>14. UnderWay(pending', View', disk', request', D, lev, pth, lba, k, e, path)
  BY <1>4, <1>10, <1>11, <1>12, <1>13 DEF UnderWay
<1>15. IsTree(pending', View', disk', request', D, lev, pth)
  BY <1>2, <1>5, <1>11, <1>14 DEF IsTree, PendingOK
<1>16. QED
  BY <1>15 DEF TreeInv

LEMMA DeletionKeepsTree ==
    ASSUME FsInv, NEW path \in Paths, DeleteFile(path, {}) \/ RemoveDir(path, {})
    PROVE  TreeInv'
<1>1. PICK D, lev, pth : IsTree(pending, View, disk, request, D, lev, pth)
  BY DEF FsInv, TreeInv
<1>2. /\ TypeInv /\ D \in SUBSET Lbas /\ lev \in Levels(D) /\ TreeOK(View, D, lev)
      /\ Named(View, D, pth)
  BY <1>1 DEF FsInv, IsTree
<1>3. PICK lba \in Lbas, k \in Slots : DeletionLeft(path, {}, lba, k)
  BY <1>2, DeletionLeaves
<1> DEFINE old == LoadDir(lba, {})[k]
           b == Save(lba, [LoadDir(lba, {}) EXCEPT ![k] = Empty])
           p == <<b>>
<1>4. /\ lba = ResolveDir(Parent(path), {})
      /\ old.used /\ old.name = NameBytes(Leaf(path))
      /\ old.isDir => \A s \in Slots : ~LoadDir(old.start, {})[s].used
      /\ UNCHANGED disk /\ pending' = p
      /\ request' = [op |-> IF old.isDir THEN "rmdir" ELSE "rm", path |-> path]
  BY <1>3 DEF DeletionLeft
<1>5. lba \in D /\ LoadDir(lba, {}) = View[lba]
  BY <1>2, <1>4, ParentIsInTree
<1>6. NamesDir(View[lba][k]) => \A s \in Slots : ~View[View[lba][k].start][s].used
  <2> SUFFICES ASSUME NamesDir(View[lba][k]), NEW s \in Slots
               PROVE  ~View[View[lba][k].start][s].used
    OBVIOUS
  <2>1. View[lba][k].start \in Lbas
    BY <1>2, ViewIsTables
  <2>2. View[View[lba][k].start] = LoadDir(View[lba][k].start, {})
    BY <1>2, <2>1, ViewIsTables
  <2>3. QED
    BY <1>4, <1>5, <2>2 DEF NamesDir
<1>7. Change(View, D, lev, lba, k, Empty)
  BY <1>6 DEF Change
<1>8. Outstanding(p, View, D, lev, lba, k, Empty)
  <2> HIDE DEF b
  <2>1. Len(p) = 1 /\ p[1] = b
    OBVIOUS
  <2> HIDE DEF p
  <2>2. b = Save(lba, [View[lba] EXCEPT ![k] = Empty])
    BY <1>5 DEF b
  <2>3. ~NamesDir(Empty)
    BY DEF NamesDir, Empty
  <2>4. QED
    BY <1>7, <2>1, <2>2, <2>3 DEF Outstanding
<1>9. View' = View
  BY <1>4 DEF View, LoadDir, EmptyTable, Empty, Slots
<1>10. Target(View, pth, lba, k, path)
  BY <1>2, <1>4, <1>5, CallFindsTarget
<1>11. Len(p) = 1
  OBVIOUS
<1> HIDE DEF p
<1>12. Asked(request', p, disk', View[lba][k], Empty, path)
  BY <1>4, <1>5, <1>11 DEF Asked
<1>13. UnderWay(pending', View', disk', request', D, lev, pth, lba, k, Empty, path)
  BY <1>4, <1>8, <1>9, <1>10, <1>12, EmptyIsGood DEF UnderWay
<1>14. IsTree(pending', View', disk', request', D, lev, pth)
  BY <1>2, <1>5, <1>9, <1>13, EmptyIsGood DEF IsTree, PendingOK
<1>15. QED
  BY <1>14 DEF TreeInv

LEMMA TreeAtFirst == Init => TreeInv
<1> SUFFICES ASSUME Init PROVE TreeInv
  OBVIOUS
<1> DEFINE D == {DIR_LBA}
           lev == [t \in D |-> 0]
           pth == [t \in D |-> <<>>]
<1>1. DIR_LBA \in Lbas /\ PathDepth + 1 \in Nat
  BY LbasAreNumbers, FileSystemAssumption
<1>2. D \in SUBSET Lbas /\ lev \in Levels(D) /\ lev[DIR_LBA] = 0
  BY <1>1, FileSystemAssumption DEF Levels
<1>3. View[DIR_LBA] = EmptyTable
  BY <1>1 DEF View, LoadDir, Init, Blank, DataSector
<1>4. \A s \in Slots : ~View[DIR_LBA][s].used
  BY <1>3 DEF EmptyTable, Empty
<1>p. pth \in [D -> Seq(NameSet)] /\ pth[DIR_LBA] = <<>>
  OBVIOUS
<1> HIDE DEF lev, pth
<1>5. TreeOK(View, D, lev) /\ Named(View, D, pth)
  <2>1. TreeOK(View, D, lev)
    BY <1>2, <1>4 DEF TreeOK, NamesDir, Owns
  <2>2. Named(View, D, pth)
    BY <1>4, <1>p DEF Named, NamesDir
  <2>3. QED
    BY <2>1, <2>2
<1>6. IsTree(pending, View, disk, request, D, lev, pth)
  BY <1>2, <1>5 DEF IsTree, PendingOK, Init
<1>7. QED
  BY <1>6 DEF TreeInv

LEMMA TreeKept ==
    ASSUME ~ReadErrors, PathDepth < MaxDepth
    PROVE  FsInv /\ [Next]_vars => FsInv'
<1> SUFFICES ASSUME FsInv, [Next]_vars PROVE FsInv'
  OBVIOUS
<1>1. TypeInv'
  BY TypesKept DEF FsInv
<1>2. \A bad \in BadSectors : bad = {}
  BY DEF BadSectors
<1>3. ASSUME NEW path \in Paths, NEW bad \in BadSectors, NEW badScan \in BadSectors,
             MakeDir(path, bad, badScan)
      PROVE  TreeInv'
  BY <1>2, <1>3, MakeDirKeepsTree
<1>4. ASSUME NEW path \in Paths, NEW bad \in BadSectors, NEW badScan \in BadSectors,
             NEW data \in Data, WriteFile(path, data, bad, badScan)
      PROVE  TreeInv'
  BY <1>2, <1>4, WriteFileKeepsTree
<1>5. ASSUME NEW path \in Paths, NEW bad \in BadSectors,
             DeleteFile(path, bad) \/ RemoveDir(path, bad)
      PROVE  TreeInv'
  BY <1>2, <1>5, DeletionKeepsTree
<1>6. ASSUME WriteSector PROVE TreeInv'
  BY <1>6, WriteSectorKeepsTree
<1>7. ASSUME UNCHANGED disk, pending' = <<>> \/ UNCHANGED <<pending, request>> PROVE TreeInv'
  <2>1. PICK D, lev, pth : IsTree(pending, View, disk, request, D, lev, pth)
    BY DEF FsInv, TreeInv
  <2>2. View' = View
    BY <1>7 DEF View, LoadDir, EmptyTable, Empty, Slots
  <2>3. IsTree(pending', View', disk', request', D, lev, pth)
    BY <1>7, <2>1, <2>2 DEF IsTree, PendingOK
  <2>4. QED
    BY <2>3 DEF TreeInv
<1>8. TreeInv'
  BY <1>3, <1>4, <1>5, <1>6, <1>7 DEF Next, vars, Interrupted
<1>9. QED
  BY <1>1, <1>8 DEF FsInv

LEMMA TreeSeparates == FsInv => SectorsBelongToOne
<1> SUFFICES ASSUME FsInv PROVE SectorsBelongToOne
  OBVIOUS
<1>1. PICK D, lev, pth : IsTree(pending, View, disk, request, D, lev, pth)
  BY DEF FsInv, TreeInv
<1>2. /\ TypeInv /\ D \in SUBSET Lbas /\ lev \in Levels(D) /\ TreeOK(View, D, lev)
      /\ Named(View, D, pth)
  BY <1>1 DEF FsInv, IsTree
<1>3. /\ Reachable = {o \in D \X Slots : Owns(View[o[1]][o[2]])}
      /\ \A o \in D \X Slots : Entry(o, {}) = View[o[1]][o[2]]
  <2>1. PathDepth + 1 \in Nat /\ PathDepth <= PathDepth + 1
    BY FileSystemAssumption
  <2>2. QED
    BY <1>2, <2>1, OwnersAreAll DEF Reachable
<1>4. ASSUME NEW o \in Reachable, NEW q \in Reachable, o # q
      PROVE  ~Overlap(<<Entry(o, {}).start, Entry(o, {}).count>>,
                      <<Entry(q, {}).start, Entry(q, {}).count>>)
  <2>1. /\ o[1] \in D /\ o[2] \in Slots /\ o = <<o[1], o[2]>>
        /\ q[1] \in D /\ q[2] \in Slots /\ q = <<q[1], q[2]>>
    BY <1>3
  <2>2. Owns(View[o[1]][o[2]]) /\ Owns(View[q[1]][q[2]])
    BY <1>3
  <2>3. ~Overlap(Span(View[o[1]][o[2]]), Span(View[q[1]][q[2]]))
    BY <1>2, <1>4, <2>1, <2>2 DEF TreeOK
  <2>4. QED
    BY <1>3, <2>3 DEF Span
<1>5. ASSUME NEW o \in Reachable PROVE Entry(o, {}).start > DIR_LBA
  <2>1. o[1] \in D /\ o[2] \in Slots /\ Owns(View[o[1]][o[2]])
    BY <1>3
  <2>2. QED
    BY <1>2, <1>3, <2>1 DEF TreeOK
<1>6. QED
  BY <1>4, <1>5 DEF SectorsBelongToOne

\* No sector is handed out twice: whatever is written, removed, written again and interrupted, the
\* files and directories reachable from the root are kept in different sectors, none of them the
\* root's.  Two things are assumed, and each is needed: that no read fails (a table that cannot be
\* read is taken for empty, so its sectors for free), and that no path goes through as many
\* directories as the allocator scans levels (what hangs below those it does not see).
THEOREM SectorsAreSeparate ==
    ASSUME ~ReadErrors, PathDepth < MaxDepth
    PROVE  Spec => []SectorsBelongToOne
<1>1. Init => FsInv
  BY TypesAtFirst, TreeAtFirst DEF FsInv
<1>2. FsInv /\ [Next]_vars => FsInv'
  BY TreeKept
<1>3. QED
  BY <1>1, <1>2, TreeSeparates, PTL DEF Spec
-----------------------------------------------------------------------------
(* The tree of named files.                                                *)

\* What a call is to the tree: the operation and the path as it is shown.
LEMMA CallOnTree ==
    ASSUME NEW path \in Paths
    PROVE  /\ \A op \in {"mkdir", "rm", "rmdir"} :
                request = [op |-> op, path |-> path] =>
                  CallOf = [op |-> op, path |-> Key(path)] /\ CallOf \in Files!Calls
           /\ \A data \in Data :
                request = [op |-> "write", path |-> path, data |-> data] =>
                  /\ CallOf = [op |-> "write", path |-> Key(path), data |-> data]
                  /\ CallOf \in Files!Calls
<1>1. Key(path) \in {Key(q) : q \in Paths}
  OBVIOUS
<1> DEFINE key == Key(path)
           All == {Key(q) : q \in Paths}
<1>2. ASSUME NEW op \in {"mkdir", "rm", "rmdir"}, request = [op |-> op, path |-> path]
      PROVE  CallOf = [op |-> op, path |-> key] /\ CallOf \in Files!Calls
  <2>1. request # Idle
    BY <1>2 DEF Idle
  <2>2. CallOf = [op |-> op, path |-> key]
    BY <1>2, <2>1 DEF CallOf
  <2> HIDE DEF key, All
  <2>3. [op |-> op, path |-> key] \in [op : {"mkdir", "rm", "rmdir"}, path : All]
    BY <1>1 DEF key, All
  <2>4. QED
    BY <2>2, <2>3 DEF Files!Calls, All
<1>3. ASSUME NEW data \in Data, request = [op |-> "write", path |-> path, data |-> data]
      PROVE  CallOf = [op |-> "write", path |-> key, data |-> data] /\ CallOf \in Files!Calls
  <2>1. request # Idle
    BY <1>3 DEF Idle
  <2>2. CallOf = [op |-> "write", path |-> key, data |-> data]
    BY <1>3, <2>1 DEF CallOf
  <2> HIDE DEF key, All
  <2>3. [op |-> "write", path |-> key, data |-> data] \in
          [op : {"write"}, path : All, data : Data]
    BY <1>1 DEF key, All
  <2>4. QED
    BY <2>2, <2>3 DEF Files!Calls, All
<1>4. QED
  BY <1>2, <1>3

LEMMA TargetHasParent ==
    ASSUME TypeInv, NEW D \in SUBSET Lbas, NEW lev \in Levels(D), TreeOK(View, D, lev),
           NEW pth, Named(View, D, pth), Tree = Shown(View, disk, D, pth),
           NEW lba \in D, NEW k \in Slots, NEW path \in Paths, Target(View, pth, lba, k, path)
    PROVE  Files!HasParent(Key(path))
<1>1. pth[lba] = Parent(Key(path)) /\ Len(Key(path)) = Len(pth[lba]) + 1
  BY KeyParts DEF Target
<1>2. CASE lba = DIR_LBA
  <2>1. pth[lba] = <<>>
    BY <1>2 DEF Named
  <2>2. Len(Key(path)) = 1
    BY <1>1, <2>1
  <2>3. QED
    BY <2>2 DEF Files!HasParent
<1>3. CASE lba # DIR_LBA
  <2>1. View \in [Lbas -> GoodTables]
    BY ViewIsTables
  <2>2. \E n \in Tree : n.path = pth[lba] /\ n.isDir
    BY <1>3, <2>1, ParentIsShown
  <2>3. Files!Parent(Key(path)) = pth[lba]
    BY <1>1 DEF Files!Parent, Parent
  <2>4. QED
    BY <2>2, <2>3 DEF Files!HasParent, Files!IsDir
<1>4. QED
  BY <1>2, <1>3

\* The node at a path is the one that the entry of slot k shows.
LEMMA TargetNode ==
    ASSUME TypeInv, NEW D \in SUBSET Lbas, NEW pth, Named(View, D, pth),
           Tree = Shown(View, disk, D, pth),
           NEW lba \in D, NEW k \in Slots, NEW path \in Paths, Target(View, pth, lba, k, path)
    PROVE  /\ View[lba][k].used => NodeOf(pth[lba], View[lba][k], disk) \in Tree
           /\ View[lba][k].used => NodeOf(pth[lba], View[lba][k], disk).path = Key(path)
           /\ \A n \in Tree : n.path = Key(path) =>
                View[lba][k].used /\ n = NodeOf(pth[lba], View[lba][k], disk)
<1> DEFINE T == Shown(View, disk, D, pth)
<1>1. View \in [Lbas -> GoodTables]
  BY ViewIsTables
<1>2. /\ View[lba][k].used =>
           /\ NodeOf(pth[lba], View[lba][k], disk) \in T
           /\ NodeOf(pth[lba], View[lba][k], disk).path = Key(path)
      /\ \A n \in T : n.path = Key(path) =>
           View[lba][k].used /\ n = NodeOf(pth[lba], View[lba][k], disk)
  BY <1>1, ShownAt
<1>3. Tree = T
  OBVIOUS
<1> HIDE DEF T
<1>4. QED
  BY <1>2, <1>3

LEMMA TargetIsShown ==
    ASSUME TypeInv, NEW D \in SUBSET Lbas, NEW pth, Named(View, D, pth),
           Tree = Shown(View, disk, D, pth),
           NEW lba \in D, NEW k \in Slots, NEW path \in Paths, Target(View, pth, lba, k, path)
    PROVE  /\ Files!IsDir(Key(path)) <=> NamesDir(View[lba][k])
           /\ Files!IsFile(Key(path)) <=> View[lba][k].used /\ ~View[lba][k].isDir
<1> DEFINE e == View[lba][k]
           n == NodeOf(pth[lba], e, disk)
<1>1. /\ e.used => n \in Tree /\ n.path = Key(path)
      /\ \A m \in Tree : m.path = Key(path) => e.used /\ m = n
  BY TargetNode
<1>2. n.isDir = e.isDir
  BY DEF NodeOf
<1> HIDE DEF n
<1>3. QED
  BY <1>1, <1>2 DEF Files!IsDir, Files!IsFile, NamesDir

LEMMA EmptyHasNoChild ==
    ASSUME TypeInv, NEW D \in SUBSET Lbas, NEW lev \in Levels(D), TreeOK(View, D, lev),
           NEW pth, Named(View, D, pth), Tree = Shown(View, disk, D, pth),
           NEW lba \in D, NEW k \in Slots, NEW path \in Paths, Target(View, pth, lba, k, path),
           NamesDir(View[lba][k]), \A s \in Slots : ~View[View[lba][k].start][s].used
    PROVE  ~Files!HasChild(Key(path))
<1> DEFINE u == View[lba][k].start
<1>1. View \in [Lbas -> GoodTables] /\ u \in D
  BY ViewIsTables DEF TreeOK
<1>2. pth[u] = Key(path)
  <2>1. pth[u] = Append(pth[lba], View[lba][k].name)
    BY DEF Named
  <2>2. pth[lba] = Key(Parent(path)) /\ View[lba][k].name = NameBytes(Leaf(path))
    BY DEF Target, NamesDir
  <2>3. QED
    BY <2>1, <2>2, KeyParts
<1>3. ASSUME NEW n \in Tree, Files!Parent(n.path) = Key(path) PROVE FALSE
  <2>1. Parent(n.path) = pth[u] /\ n \in Shown(View, disk, D, pth)
    BY <1>2, <1>3 DEF Files!Parent, Parent
  <2> HIDE DEF u
  <2>2. \E s \in Slots : View[u][s].used
    BY <1>1, <2>1, ChildrenAreThere
  <2>3. QED
    BY <2>2 DEF u
<1>4. QED
  BY <1>3 DEF Files!HasChild

\* The call under way is one that the tree allows, until its last sector is written.
CallLaw == pending # <<>> => CallOf \in Files!Calls /\ Files!Allowed(CallOf)

LEMMA CallIsAllowed == FsInv /\ TreeLaw => CallLaw
<1> SUFFICES ASSUME FsInv, TreeLaw, pending # <<>>
             PROVE  CallOf \in Files!Calls /\ Files!Allowed(CallOf)
  BY DEF CallLaw
<1>1. PICK D, lev, pth : IsTree(pending, View, disk, request, D, lev, pth)
  BY DEF FsInv, TreeInv
<1>2. /\ TypeInv /\ D \in SUBSET Lbas /\ lev \in Levels(D) /\ TreeOK(View, D, lev)
      /\ Named(View, D, pth) /\ Tree = Shown(View, disk, D, pth)
      /\ PendingOK(pending, View, disk, request, D, lev, pth)
  BY <1>1 DEF FsInv, IsTree, TreeLaw
<1>3. PICK lba \in D, k \in Slots, e \in GoodEntry, path \in Paths :
        UnderWay(pending, View, disk, request, D, lev, pth, lba, k, e, path)
  BY <1>2 DEF PendingOK
<1> DEFINE old == View[lba][k]
           key == Key(path)
<1>4. /\ Target(View, pth, lba, k, path) /\ Change(View, D, lev, lba, k, e)
      /\ Asked(request, pending, disk, old, e, path)
  BY <1>3 DEF UnderWay, Outstanding
<1>5. Files!HasParent(key)
  BY <1>2, <1>4, TargetHasParent
<1>6. /\ Files!IsDir(key) <=> NamesDir(old)
      /\ Files!IsFile(key) <=> old.used /\ ~old.isDir
  BY <1>2, <1>4, TargetIsShown
<1>7. CASE request = [op |-> "mkdir", path |-> path] /\ ~old.used
  <2>1. CallOf = [op |-> "mkdir", path |-> key] /\ CallOf \in Files!Calls
    BY <1>7, CallOnTree
  <2>2. ~Files!IsDir(key) /\ ~Files!IsFile(key)
    BY <1>6, <1>7 DEF NamesDir
  <2>3. QED
    BY <1>5, <2>1, <2>2 DEF Files!Allowed
<1>8. ASSUME NEW data \in Data, request = [op |-> "write", path |-> path, data |-> data],
             ~NamesDir(old)
      PROVE  CallOf \in Files!Calls /\ Files!Allowed(CallOf)
  <2>1. CallOf = [op |-> "write", path |-> key, data |-> data] /\ CallOf \in Files!Calls
    BY <1>8, CallOnTree
  <2>2. QED
    BY <1>5, <1>6, <1>8, <2>1 DEF Files!Allowed
<1>9. CASE request = [op |-> "rm", path |-> path] /\ old.used /\ ~old.isDir
  <2>1. CallOf = [op |-> "rm", path |-> key] /\ CallOf \in Files!Calls
    BY <1>9, CallOnTree
  <2>2. QED
    BY <1>6, <1>9, <2>1 DEF Files!Allowed
<1>10. CASE request = [op |-> "rmdir", path |-> path] /\ NamesDir(old) /\ e = Empty
  <2>1. CallOf = [op |-> "rmdir", path |-> key] /\ CallOf \in Files!Calls
    BY <1>10, CallOnTree
  <2>2. \A s \in Slots : ~View[old.start][s].used
    BY <1>4, <1>10 DEF Change
  <2>3. ~Files!HasChild(key)
    BY <1>2, <1>4, <1>10, <2>2, EmptyHasNoChild
  <2>4. QED
    BY <1>6, <1>10, <2>1, <2>3 DEF Files!Allowed
<1>11. \/ request = [op |-> "mkdir", path |-> path] /\ ~old.used
       \/ \E data \in Data :
            request = [op |-> "write", path |-> path, data |-> data] /\ ~NamesDir(old)
       \/ request = [op |-> "rm", path |-> path] /\ old.used /\ ~old.isDir
       \/ request = [op |-> "rmdir", path |-> path] /\ NamesDir(old) /\ e = Empty
  BY <1>4 DEF Asked, NamesDir
<1>12. QED
  BY <1>7, <1>8, <1>9, <1>10, <1>11

\* The blocks of the file that a write has put on the disk hold its contents.
LEMMA WrittenIsData ==
    ASSUME TypeInv, WriteSector, Len(pending) = 1,
           NEW D \in SUBSET Lbas, NEW lev, TreeOK(View, D, lev),
           NEW lba \in D, NEW k \in Slots, NEW e \in GoodEntry, NEW data \in Data,
           pending[1].lba = lba, Fits(View, D, lba, k, e), ~NamesDir(View[lba][k]),
           e.used, ~e.isDir, e.len = Len(data), Written(pending, disk, e, data)
    PROVE  ContentsOn(disk', e) = data
<1>1. e.start \in Nat /\ e.count \in Nat
  BY GoodFields
<1>2. \A i \in 1 .. e.count : disk[e.start + i - 1] = Block(data, i)
  <2>1. e.count - (Len(pending) - 1) = e.count
    BY <1>1
  <2>2. \A i \in 1 .. e.count : i <= e.count
    BY <1>1
  <2>3. QED
    BY <2>1, <2>2 DEF Written
<1>3. /\ disk' = [disk EXCEPT ![lba] = pending[1].sector]
      /\ disk \in [Lbas -> TableSectors \cup DataSectors]
  <2>1. Head(pending) = pending[1]
    BY WriteSectorKeepsTypes
  <2>2. QED
    BY <2>1 DEF WriteSector, TypeInv
<1>4. ASSUME NEW i \in 1 .. e.count PROVE disk'[e.start + i - 1] = Block(data, i)
  <2>1. /\ i - 1 \in Nat /\ i - 1 < e.count /\ i - 1 \in 0 .. e.count - 1
        /\ e.start + (i - 1) = e.start + i - 1 /\ e.count # 0
    BY <1>1
  <2>2. Owns(e) /\ View \in [Lbas -> GoodTables]
    BY <2>1, ViewIsTables DEF Owns
  <2> DEFINE j == i - 1
  <2>3. j \in Nat /\ j < e.count /\ j \in 0 .. e.count - 1 /\ e.start + j = e.start + i - 1
    BY <2>1
  <2> HIDE DEF j
  <2>4. e.start + j \notin D
    BY <1>1, <2>2, <2>3, FreshTable
  <2>5. e.start + j \in Lbas
    BY <2>3, EntriesAreOnDisk
  <2>6. disk'[e.start + j] = disk[e.start + j]
    BY <1>3, <2>4, <2>5
  <2>7. QED
    BY <1>2, <2>3, <2>6
<1>5. QED
  BY <1>4, ContentsAreData

LEMMA TargetPath ==
    ASSUME NEW path \in Paths, NEW v, NEW pth, NEW lba, NEW k, Target(v, pth, lba, k, path)
    PROVE  Append(pth[lba], NameBytes(Leaf(path))) = Key(path)
BY KeyParts DEF Target

\* The last write of a call completes it.
LEMMA LastWriteFinishes ==
    ASSUME TypeInv, WriteSector, Len(pending) = 1,
           NEW D \in SUBSET Lbas, NEW lev \in Levels(D), TreeOK(View, D, lev),
           NEW pth, Named(View, D, pth),
           NEW lba \in D, NEW k \in Slots, NEW e \in GoodEntry, NEW path \in Paths,
           UnderWay(pending, View, disk, request, D, lev, pth, lba, k, e, path),
           Turns(Tree, Tree', pth[lba], e, disk', Key(path))
    PROVE  Files!Finish
<1> DEFINE old == View[lba][k]
           key == Key(path)
           node == NodeOf(pth[lba], e, disk')
<1>1. /\ Outstanding(pending, View, D, lev, lba, k, e)
      /\ Target(View, pth, lba, k, path) /\ (e.used => e.name = NameBytes(Leaf(path)))
      /\ Change(View, D, lev, lba, k, e)
      /\ Asked(request, pending, disk, old, e, path)
  BY DEF UnderWay, Outstanding
<1>2. request' = Idle /\ pending[1].lba = lba
  BY <1>1, LastWrite
<1>3. CallOf' = Files!Idle
  BY <1>2 DEF CallOf, Idle, Files!Idle
<1>4. Tree' = Files!Without(key) \cup (IF e.used THEN {node} ELSE {})
  BY DEF Turns, WithoutPath, Files!Without
<1>5. ASSUME e.used
      PROVE  /\ node = [path |-> key, isDir |-> e.isDir,
                        data |-> IF e.isDir THEN <<>> ELSE ContentsOn(disk', e)]
             /\ Tree' = Files!Without(key) \cup {node}
  <2>1. node = [path |-> key, isDir |-> e.isDir,
                data |-> IF e.isDir THEN <<>> ELSE ContentsOn(disk', e)]
    <3>1. Append(pth[lba], e.name) = key
      BY <1>1, <1>5, TargetPath
    <3>2. QED
      BY <3>1 DEF NodeOf
  <2>2. QED
    BY <1>4, <1>5, <2>1
<1> HIDE DEF node
<1>6. ASSUME request = [op |-> "mkdir", path |-> path], NamesDir(e)
      PROVE  Files!Finish
  <2>1. CallOf = [op |-> "mkdir", path |-> key]
    BY <1>6, CallOnTree
  <2>2. CallOf.op = "mkdir" /\ CallOf.path = key
    BY <2>1
  <2>3. node = Files!Directory(key) /\ Tree' = Files!Without(key) \cup {node}
    BY <1>5, <1>6 DEF NamesDir, Files!Directory
  <2>4. QED
    BY <1>3, <2>2, <2>3 DEF Files!Finish
<1>7. ASSUME NEW data \in Data, request = [op |-> "write", path |-> path, data |-> data],
             e.used, ~e.isDir, ~NamesDir(old), e.len = Len(data),
             Written(pending, disk, e, data)
      PROVE  Files!Finish
  <2>1. CallOf = [op |-> "write", path |-> key, data |-> data]
    BY <1>7, CallOnTree
  <2>2. CallOf.op = "write" /\ CallOf.path = key /\ CallOf.data = data
    BY <2>1
  <2>3. Fits(View, D, lba, k, e)
    BY <1>1, <1>7, EmptyIsGood DEF Change
  <2>4. ContentsOn(disk', e) = data
    BY <1>2, <1>7, <2>3, WrittenIsData
  <2>5. node = Files!File(key, data) /\ Tree' = Files!Without(key) \cup {node}
    BY <1>5, <1>7, <2>4 DEF Files!File
  <2>6. QED
    BY <1>3, <2>2, <2>5 DEF Files!Finish
<1>8. ASSUME request = [op |-> IF old.isDir THEN "rmdir" ELSE "rm", path |-> path], e = Empty
      PROVE  Files!Finish
  <2> DEFINE op == IF old.isDir THEN "rmdir" ELSE "rm"
  <2>1. op \in {"mkdir", "rm", "rmdir"} /\ op \in {"rm", "rmdir"}
    OBVIOUS
  <2>2. request = [op |-> op, path |-> path]
    BY <1>8
  <2> HIDE DEF op
  <2>3. CallOf = [op |-> op, path |-> key]
    BY <2>1, <2>2, CallOnTree
  <2>4. CallOf.op \in {"rm", "rmdir"} /\ CallOf.path = key
    BY <2>1, <2>3
  <2>5. Tree' = Files!Without(key)
    BY <1>4, <1>8, EmptyIsGood
  <2>6. QED
    BY <1>3, <2>4, <2>5 DEF Files!Finish
<1> HIDE DEF old
<1>9. \/ request = [op |-> "mkdir", path |-> path] /\ NamesDir(e)
      \/ \E data \in Data :
           /\ request = [op |-> "write", path |-> path, data |-> data]
           /\ e.used /\ ~e.isDir /\ ~NamesDir(old) /\ e.len = Len(data)
           /\ Written(pending, disk, e, data)
      \/ request = [op |-> IF old.isDir THEN "rmdir" ELSE "rm", path |-> path] /\ e = Empty
  BY <1>1 DEF Asked
<1>10. QED
  BY <1>6, <1>7, <1>8, <1>9 DEF old

\* A write before the last changes nothing, or tears the file that is being replaced.
LEMMA EarlierWriteTears ==
    ASSUME TypeInv, WriteSector, Len(pending) # 1,
           NEW D \in SUBSET Lbas, NEW lev \in Levels(D), TreeOK(View, D, lev),
           NEW pth, Named(View, D, pth), Tree = Shown(View, disk, D, pth),
           NEW lba \in D, NEW k \in Slots, NEW e \in GoodEntry, NEW path \in Paths,
           UnderWay(pending, View, disk, request, D, lev, pth, lba, k, e, path),
           Turns(Tree, Tree', pth[lba], View[lba][k], disk', Key(path))
    PROVE  Files!Tear \/ UNCHANGED (Files!vars)
<1> DEFINE old == View[lba][k]
           key == Key(path)
           n == NodeOf(pth[lba], old, disk)
           m == NodeOf(pth[lba], old, disk')
<1>1. /\ Outstanding(pending, View, D, lev, lba, k, e)
      /\ Target(View, pth, lba, k, path)
      /\ Asked(request, pending, disk, old, e, path)
  BY DEF UnderWay
<1>2. request' = request
  BY <1>1, EarlierWrite
<1>3. CallOf' = CallOf
  BY <1>2 DEF CallOf
<1>4. Tree' = Files!Without(key) \cup (IF old.used THEN {m} ELSE {})
  BY DEF Turns, WithoutPath, Files!Without
<1>5. View \in [Lbas -> GoodTables] /\ old \in GoodEntry
  BY ViewIsTables
<1>6. /\ old.used => n \in Tree /\ n.path = key
      /\ \A x \in Tree : x.path = key => old.used /\ x = n
  BY <1>1, TargetNode
<1>7. CASE ~old.used
  <2> HIDE DEF n, m, old
  <2>1. Files!Without(key) = Tree
    BY <1>6, <1>7 DEF Files!Without
  <2>2. Tree' = Tree
    BY <1>4, <1>7, <2>1
  <2>3. QED
    BY <1>3, <2>2 DEF Files!vars
<1>8. CASE old.used
  <2>1. PICK data \in Data : /\ request = [op |-> "write", path |-> path, data |-> data]
                             /\ ~NamesDir(old)
    BY <1>1, <1>8 DEF Asked
  <2>2. CallOf = [op |-> "write", path |-> key, data |-> data]
    BY <2>1, CallOnTree
  <2>3. CallOf.op = "write" /\ CallOf.path = key
    BY <2>2
  <2>4. ~old.isDir /\ old.name = NameBytes(Leaf(path))
    BY <1>1, <1>8, <2>1 DEF NamesDir, Target
  <2>5. n = Files!File(key, ContentsOn(disk, old)) /\ m = Files!File(key, ContentsOn(disk', old))
    <3>1. Append(pth[lba], old.name) = key
      BY <1>1, <2>4, TargetPath
    <3>2. old.isDir = FALSE
      BY <1>5, <2>4 DEF GoodEntry, EntryType
    <3> HIDE DEF old
    <3>3. QED
      BY <3>1, <3>2 DEF Files!File, NodeOf
  <2>6. Len(ContentsOn(disk, old)) = Len(ContentsOn(disk', old))
    BY <1>5, ContentsLength
  <2> DEFINE a == ContentsOn(disk, old)
             b == ContentsOn(disk', old)
  <2> HIDE DEF a, b, n, m, old
  <2>7. n = Files!File(key, n.data) /\ m = Files!File(key, m.data) /\ n.data = a /\ m.data = b
    BY <2>5 DEF Files!File, a, b
  <2>8. n \in Tree /\ m \in Tree' /\ Tree' = Files!Without(key) \cup {m}
    BY <1>4, <1>6, <1>8
  <2>9. Len(m.data) = Len(n.data)
    BY <2>6, <2>7 DEF a, b
  <2>10. Files!Tear
    BY <1>3, <2>3, <2>7, <2>8, <2>9 DEF Files!Tear
  <2>11. QED
    BY <2>10
<1>9. QED
  BY <1>7, <1>8

LEMMA WriteSectorIsStep ==
    ASSUME FsInv, TreeLaw, TreeLaw', WriteSector
    PROVE  [Files!Next]_(Files!vars)
<1>1. PICK D, lev, pth : IsTree(pending, View, disk, request, D, lev, pth)
  BY DEF FsInv, TreeInv
<1>2. /\ TypeInv /\ D \in SUBSET Lbas /\ lev \in Levels(D) /\ TreeOK(View, D, lev)
      /\ Named(View, D, pth) /\ Tree = Shown(View, disk, D, pth)
      /\ PendingOK(pending, View, disk, request, D, lev, pth) /\ pending # <<>>
  BY <1>1 DEF FsInv, IsTree, TreeLaw, WriteSector
<1>3. PICK lba \in D, k \in Slots, e \in GoodEntry, path \in Paths :
        UnderWay(pending, View, disk, request, D, lev, pth, lba, k, e, path)
  BY <1>2 DEF PendingOK
<1>4. CASE Len(pending) = 1
  <2>1. PICK E \in SUBSET Lbas : \E fl \in Levels(E) : \E qth :
          /\ TreeOK(View', E, fl) /\ Named(View', E, qth)
          /\ Turns(Shown(View, disk, D, pth), Shown(View', disk', E, qth),
                   pth[lba], e, disk', Key(path))
    BY <1>2, <1>3, <1>4, LastWriteShows
  <2>2. PICK fl, qth :
          /\ fl \in Levels(E) /\ TreeOK(View', E, fl) /\ Named(View', E, qth)
          /\ Turns(Shown(View, disk, D, pth), Shown(View', disk', E, qth),
                   pth[lba], e, disk', Key(path))
    BY <2>1
  <2>3. Tree' = Shown(View', disk', E, qth)
    BY <2>2 DEF TreeLaw
  <2>4. Turns(Tree, Tree', pth[lba], e, disk', Key(path))
    BY <1>2, <2>2, <2>3
  <2>5. Files!Finish
    BY <1>2, <1>3, <1>4, <2>4, LastWriteFinishes
  <2>6. QED
    BY <2>5 DEF Files!Next
<1>5. CASE Len(pending) # 1
  <2>1. /\ TreeOK(View', D, lev) /\ Named(View', D, pth)
        /\ Turns(Shown(View, disk, D, pth), Shown(View', disk', D, pth),
                 pth[lba], View[lba][k], disk', Key(path))
    BY <1>2, <1>3, <1>5, EarlierWriteShows
  <2>2. Tree' = Shown(View', disk', D, pth)
    BY <1>2, <2>1 DEF TreeLaw
  <2>3. Turns(Tree, Tree', pth[lba], View[lba][k], disk', Key(path))
    BY <1>2, <2>1, <2>2
  <2>4. Files!Tear \/ UNCHANGED (Files!vars)
    BY <1>2, <1>3, <1>5, <2>3, EarlierWriteTears
  <2>5. QED
    BY <2>4 DEF Files!Next
<1>6. QED
  BY <1>4, <1>5

\* What the tree shows depends on the disk alone.
LEMMA SameDiskSameTree ==
    ASSUME FsInv, TreeLaw, TreeLaw', UNCHANGED disk
    PROVE  Tree' = Tree
<1>1. PICK D, lev, pth : IsTree(pending, View, disk, request, D, lev, pth)
  BY DEF FsInv, TreeInv
<1>2. /\ D \in SUBSET Lbas /\ lev \in Levels(D) /\ TreeOK(View, D, lev) /\ Named(View, D, pth)
      /\ Tree = Shown(View, disk, D, pth)
  BY <1>1 DEF IsTree, TreeLaw
<1>3. View' = View
  BY DEF View, LoadDir, EmptyTable, Empty, Slots
<1>4. Tree' = Shown(View', disk', D, pth)
  BY <1>2, <1>3 DEF TreeLaw
<1>5. QED
  BY <1>2, <1>3, <1>4

\* A call that is begun is one that the tree allows.
LEMMA BeginIsStart ==
    ASSUME FsInv, FsInv', TreeLaw, TreeLaw', CallLaw', NEW call, call # Idle, NEW writes,
           Begin(call, writes)
    PROVE  Files!Start
<1>1. pending = <<>> /\ request' = call /\ UNCHANGED disk
  BY DEF Begin
<1>2. request = Idle /\ pending' # <<>>
  BY <1>1 DEF FsInv, TypeInv
<1>3. CallOf = Files!Idle
  BY <1>2 DEF CallOf, Idle, Files!Idle
<1>4. Tree' = Tree
  BY <1>1, SameDiskSameTree
<1>5. CallOf' \in Files!Calls
  BY <1>2 DEF CallLaw, Files!Calls
<1>6. Files!Allowed(CallOf')
  BY <1>2, <1>4 DEF CallLaw, Files!Allowed, Files!HasParent, Files!IsDir, Files!IsFile,
                    Files!HasChild, Files!Parent
<1>7. QED
  BY <1>3, <1>4, <1>5, <1>6 DEF Files!Start

\* Every step of the file system is one of the tree, or changes nothing that it shows.
LEMMA StepIsTreeStep ==
    ASSUME FsInv, FsInv', TreeLaw, TreeLaw', CallLaw', [Next]_vars
    PROVE  [Files!Next]_(Files!vars)
<1>1. ASSUME NEW path \in Paths, NEW bad, NEW badScan, MakeDir(path, bad, badScan)
      PROVE  Files!Start
  <2>1. PICK writes : Begin([op |-> "mkdir", path |-> path], writes)
    BY <1>1 DEF MakeDir
  <2>2. [op |-> "mkdir", path |-> path] # Idle
    BY DEF Idle
  <2>3. QED
    BY <2>1, <2>2, BeginIsStart
<1>2. ASSUME NEW path \in Paths, NEW bad, NEW badScan, NEW data \in Data,
             WriteFile(path, data, bad, badScan)
      PROVE  Files!Start
  <2>1. PICK writes : Begin([op |-> "write", path |-> path, data |-> data], writes)
    BY <1>2 DEF WriteFile
  <2>2. [op |-> "write", path |-> path, data |-> data] # Idle
    BY DEF Idle
  <2>3. QED
    BY <2>1, <2>2, BeginIsStart
<1>3. ASSUME NEW path \in Paths, NEW bad, DeleteFile(path, bad)
      PROVE  Files!Start
  <2>1. PICK writes : Begin([op |-> "rm", path |-> path], writes)
    BY <1>3 DEF DeleteFile
  <2>2. [op |-> "rm", path |-> path] # Idle
    BY DEF Idle
  <2>3. QED
    BY <2>1, <2>2, BeginIsStart
<1>4. ASSUME NEW path \in Paths, NEW bad, RemoveDir(path, bad)
      PROVE  Files!Start
  <2>1. PICK writes : Begin([op |-> "rmdir", path |-> path], writes)
    BY <1>4 DEF RemoveDir
  <2>2. [op |-> "rmdir", path |-> path] # Idle
    BY DEF Idle
  <2>3. QED
    BY <2>1, <2>2, BeginIsStart
<1>5. ASSUME Interrupted PROVE Files!GiveUp
  <2>1. pending # <<>> /\ request' = Idle /\ UNCHANGED disk
    BY <1>5 DEF Interrupted
  <2>2. request # Idle
    BY <2>1 DEF FsInv, TypeInv
  <2>3. CallOf' = Files!Idle
    BY <2>1 DEF CallOf, Idle, Files!Idle
  <2>4. CallOf # Files!Idle
    <3>1. PICK D, lev, pth : IsTree(pending, View, disk, request, D, lev, pth)
      BY DEF FsInv, TreeInv
    <3>2. PendingOK(pending, View, disk, request, D, lev, pth)
      BY <3>1 DEF IsTree
    <3>3. PICK lba \in D, k \in Slots, e \in GoodEntry, path \in Paths :
            UnderWay(pending, View, disk, request, D, lev, pth, lba, k, e, path)
      BY <2>1, <3>2 DEF PendingOK
    <3>4. request.op # "idle"
      BY <3>3 DEF UnderWay, Asked
    <3>5. CallOf.op = request.op
      BY <2>2, <3>3 DEF CallOf, UnderWay, Asked
    <3>6. QED
      BY <3>4, <3>5 DEF Files!Idle
  <2>5. Tree' = Tree
    BY <2>1, SameDiskSameTree
  <2>6. QED
    BY <2>3, <2>4, <2>5 DEF Files!GiveUp
<1>6. ASSUME WriteSector PROVE [Files!Next]_(Files!vars)
  BY <1>6, WriteSectorIsStep
<1>7. ASSUME UNCHANGED vars PROVE UNCHANGED (Files!vars)
  <2>1. UNCHANGED disk /\ UNCHANGED request
    BY <1>7 DEF vars
  <2>2. Tree' = Tree
    BY <2>1, SameDiskSameTree
  <2>3. CallOf' = CallOf
    BY <2>1 DEF CallOf
  <2>4. QED
    BY <2>2, <2>3 DEF Files!vars
<1>8. \/ \E path \in Paths, bad \in BadSectors, badScan \in BadSectors :
           \/ MakeDir(path, bad, badScan)
           \/ \E data \in Data : WriteFile(path, data, bad, badScan)
      \/ \E path \in Paths, bad \in BadSectors : DeleteFile(path, bad) \/ RemoveDir(path, bad)
      \/ WriteSector \/ Interrupted \/ UNCHANGED vars
  BY DEF Next
<1>9. ASSUME Files!Start \/ Files!GiveUp PROVE Files!Next
  BY <1>9 DEF Files!Next
<1>10. QED
  BY <1>1, <1>2, <1>3, <1>4, <1>5, <1>6, <1>7, <1>8, <1>9

LEMMA EmptyAtFirst ==
    ASSUME Init, TypeInv, TreeLaw
    PROVE  Files!Init
<1> DEFINE D == {DIR_LBA}
           lev == [t \in D |-> 0]
           pth == [t \in D |-> <<>>]
<1>1. DIR_LBA \in Lbas /\ PathDepth + 1 \in Nat
  BY LbasAreNumbers, FileSystemAssumption
<1>2. D \in SUBSET Lbas /\ lev \in Levels(D) /\ lev[DIR_LBA] = 0
  BY <1>1, FileSystemAssumption DEF Levels
<1>3. View[DIR_LBA] = EmptyTable
  BY <1>1 DEF View, LoadDir, Init, Blank, DataSector
<1>4. \A s \in Slots : ~View[DIR_LBA][s].used
  BY <1>3 DEF EmptyTable, Empty
<1>5. pth \in [D -> Seq(NameSet)] /\ pth[DIR_LBA] = <<>>
  OBVIOUS
<1> HIDE DEF lev, pth
<1>6. TreeOK(View, D, lev)
  BY <1>2, <1>4 DEF TreeOK, NamesDir, Owns
<1>7. Named(View, D, pth)
  BY <1>4, <1>5 DEF Named, NamesDir
<1>8. UsedSlots(View, D) = {}
  BY <1>4 DEF UsedSlots
<1>9. Tree = {}
  <2>1. Tree = Shown(View, disk, D, pth)
    BY <1>2, <1>6, <1>7 DEF TreeLaw
  <2>2. QED
    BY <1>8, <2>1 DEF Shown
<1>10. CallOf = Files!Idle
  BY DEF Init, CallOf, Idle, Files!Idle
<1>11. QED
  BY <1>9, <1>10 DEF Files!Init

\* The disk is a tree of named files, whatever the sizes, the names and the contents: mkdir, write,
\* rm and rmdir take effect when their last sector is written, as a whole; one that fails or is cut
\* short by a loss of power before that leaves the tree as it was, but for a file that it was
\* overwriting, which may hold a mixture of its old and new contents of the old length; and no call
\* touches what it does not name, nor is begun where the tree does not allow it.  The assumptions
\* are those of SectorsAreSeparate, and for the same reasons.
THEOREM FilesAreATree ==
    ASSUME ~ReadErrors, PathDepth < MaxDepth
    PROVE  Spec => ImplementsTree
<1>1. Init => FsInv
  BY TypesAtFirst, TreeAtFirst DEF FsInv
<1>2. FsInv /\ [Next]_vars => FsInv'
  BY TreeKept
<1>3. FsInv => TreeLaw
  BY TreeIsShown DEF FsInv
<1>4. FsInv /\ TreeLaw => CallLaw
  BY CallIsAllowed
<1>5. Init /\ FsInv /\ TreeLaw => Files!Init
  BY EmptyAtFirst DEF FsInv
<1>6. FsInv /\ FsInv' /\ TreeLaw /\ TreeLaw' /\ CallLaw' /\ [Next]_vars
        => [Files!Next]_(Files!vars)
  BY StepIsTreeStep
<1>7. QED
  BY <1>1, <1>2, <1>3, <1>4, <1>5, <1>6, PTL DEF Spec, ImplementsTree, Files!Spec

=============================================================================
