------------------------ MODULE AddressSpacesProofs ------------------------
(***************************************************************************)
(* Proofs about AddressSpaces, for every number of frames and pages, every *)
(* image and every ELF file: that processes have their memory to           *)
(* themselves, with the contents they should see, and that runelf loads    *)
(* exactly the files that are valid.                                       *)
(***************************************************************************)
EXTENDS AddressSpaces, FiniteSetTheorems, WellFoundedInduction, SequenceTheorems, TLAPS

(* Numbers and recursion.                                                  *)

\* Induction on a number, for a property given as a set: of the numbers outside it the one with
\* the smallest interval below it would have its predecessor in the set.
LEMMA SetInduction ==
    ASSUME NEW S, 0 \in S, \A n \in Nat : n \in S => n + 1 \in S
    PROVE  Nat \subseteq S
<1> DEFINE Bad == Nat \ S
           UpTo(x) == 0..x - 1
           T == {UpTo(x) : x \in Bad}
<1>1. SUFFICES ASSUME Bad # {} PROVE FALSE
  OBVIOUS
<1>2. T \subseteq FiniteSubsetsOf(Nat) /\ T # {}
  <2>1. ASSUME NEW x \in Bad PROVE UpTo(x) \subseteq Nat /\ IsFiniteSet(UpTo(x))
    BY FS_Interval
  <2>2. QED
    BY <1>1, <2>1 DEF FiniteSubsetsOf
<1>3. PICK t \in T : \A u \in T : <<u, t>> \notin StrictSubsetOrdering(Nat)
  <2>1. IsWellFoundedOn(StrictSubsetOrdering(Nat), FiniteSubsetsOf(Nat))
    BY FS_StrictSubsetOrderingWellFounded
  <2>2. QED
    BY <1>2, <2>1, WFMin
<1>4. PICK x \in Bad : t = UpTo(x)
  OBVIOUS
<1>5. x # 0 /\ x - 1 \in Nat
  BY <1>4
<1>6. x - 1 \in Bad
  <2>1. SUFFICES ASSUME x - 1 \in S PROVE FALSE
    BY <1>5
  <2>2. (x - 1) + 1 \in S
    BY <1>5, <2>1
  <2>3. QED
    BY <1>4, <2>2
<1>7. UpTo(x - 1) \subseteq UpTo(x) /\ x - 1 \in UpTo(x) /\ x - 1 \notin UpTo(x - 1)
  BY <1>5
<1>8. <<UpTo(x - 1), UpTo(x)>> \in StrictSubsetOrdering(Nat)
  <2>1. UpTo(x - 1) \subseteq Nat /\ UpTo(x) \subseteq Nat
    OBVIOUS
  <2>2. QED
    BY <1>7, <2>1 DEF StrictSubsetOrdering
<1>9. QED
  BY <1>3, <1>4, <1>6, <1>8

\* f follows the rule G from a for n steps.
Follows(f, a, G, n, R) ==
    f \in [0..n -> R] /\ f[0] = a /\ \A i \in 1..n : f[i] = G[<<i, f[i - 1]>>]

LEMMA StepwiseFunction ==
    ASSUME NEW R, NEW a \in R, NEW G \in [Nat \X R -> R], NEW n \in Nat
    PROVE  \E f : Follows(f, a, G, n, R)
<1> DEFINE S == {m \in Nat : \E f : Follows(f, a, G, m, R)}
<1>1. 0 \in S
  <2>1. Follows([i \in 0..0 |-> a], a, G, 0, R)
    BY DEF Follows
  <2>2. QED
    BY <2>1
<1>2. ASSUME NEW m \in Nat, m \in S PROVE m + 1 \in S
  <2>1. PICK f : Follows(f, a, G, m, R)
    BY <1>2
  <2> DEFINE g == [i \in 0..m + 1 |-> IF i = m + 1 THEN G[<<m + 1, f[m]>>] ELSE f[i]]
  <2>2. G[<<m + 1, f[m]>>] \in R
    BY <2>1 DEF Follows
  <2>3. g \in [0..m + 1 -> R]
    BY <2>1, <2>2 DEF Follows
  <2>4. g[m + 1] = G[<<m + 1, f[m]>>] /\ \A j \in 0..m : g[j] = f[j]
    OBVIOUS
  <2> HIDE DEF g
  <2>5. ASSUME NEW i \in 1..m + 1 PROVE g[i] = G[<<i, g[i - 1]>>]
    <3>1. CASE i = m + 1
      <4>1. i - 1 = m /\ g[m] = f[m]
        BY <2>4, <3>1
      <4>2. QED
        BY <2>4, <3>1, <4>1
    <3>2. CASE i # m + 1
      <4>1. i \in 1..m /\ i \in 0..m /\ i - 1 \in 0..m
        BY <3>2
      <4>2. g[i] = f[i] /\ g[i - 1] = f[i - 1]
        BY <2>4, <4>1
      <4>3. QED
        BY <2>1, <4>1, <4>2 DEF Follows
    <3>3. QED
      BY <3>1, <3>2
  <2>6. g[0] = a
    BY <2>1, <2>4 DEF Follows
  <2>7. QED
    BY <2>3, <2>5, <2>6 DEF Follows
<1>3. Nat \subseteq S
  BY <1>1, <1>2, SetInduction
<1>4. QED
  BY <1>3

-----------------------------------------------------------------------------
(* The headers of a file.                                                  *)

LEMMA AppendedSet ==
    ASSUME NEW R, NEW s \in Seq(R), NEW e \in R
    PROVE  ToSet(Append(s, e)) = ToSet(s) \cup {e}
<1>1. /\ Len(s) \in Nat /\ DOMAIN s = 1..Len(s) /\ DOMAIN Append(s, e) = 1..Len(s) + 1
      /\ \A i \in 1..Len(s) : Append(s, e)[i] = s[i]
      /\ Append(s, e)[Len(s) + 1] = e
  BY LenProperties, AppendProperties
<1>2. 1..Len(s) + 1 = 1..Len(s) \cup {Len(s) + 1}
  BY <1>1
<1>3. QED
  BY <1>1, <1>2 DEF ToSet

\* LoadHeaders is the recursive function it is written as, and answers the headers of the table to
\* load.
LEMMA HeadersAreHeaders ==
    ASSUME NEW file \in ElfFileType
    PROVE  /\ LoadHeaders(file) \in Seq(ProgramHeaders)
           /\ ToSet(LoadHeaders(file)) = {h \in ToSet(file.table) : h.type = Load}
<1> DEFINE n == Len(file.table)
           R == Seq(ProgramHeaders)
           G == [x \in Nat \X R |->
                   IF x[1] \in 1..n /\ file.table[x[1]].type = Load
                   THEN Append(x[2], file.table[x[1]]) ELSE x[2]]
           kept[i \in 0..Len(file.table)] ==
             IF i = 0 THEN <<>>
             ELSE IF file.table[i].type = Load THEN Append(kept[i - 1], file.table[i])
             ELSE kept[i - 1]
<1>1. LoadHeaders(file) = kept[n]
  BY DEF LoadHeaders
<1>2. n \in Nat /\ <<>> \in R /\ file.table \in R
  BY EmptySeq DEF ElfFileType
<1>3. G \in [Nat \X R -> R]
  <2>1. ASSUME NEW x \in Nat \X R
        PROVE  (IF x[1] \in 1..n /\ file.table[x[1]].type = Load
                THEN Append(x[2], file.table[x[1]]) ELSE x[2]) \in R
    <3>1. x[2] \in R
      OBVIOUS
    <3>2. x[1] \in 1..n => file.table[x[1]] \in ProgramHeaders
      BY <1>2, ElementOfSeq
    <3>3. QED
      BY <3>1, <3>2, AppendProperties
  <2>2. QED
    BY <2>1
<1>4. PICK f : Follows(f, <<>>, G, n, R)
  <2> HIDE DEF G, R, n
  <2>2. QED
    BY <1>2, <1>3, StepwiseFunction
<1>5. ASSUME NEW i \in 1..n
      PROVE  f[i] = IF file.table[i].type = Load THEN Append(f[i - 1], file.table[i])
                    ELSE f[i - 1]
  <2>1. i \in Nat /\ i - 1 \in 0..n
    BY <1>2
  <2>2. f[i] = G[<<i, f[i - 1]>>] /\ f[i - 1] \in R
    BY <1>4, <2>1 DEF Follows
  <2>3. QED
    BY <2>1, <2>2
<1>6. f = [i \in 0..Len(file.table) |->
             IF i = 0 THEN <<>>
             ELSE IF file.table[i].type = Load THEN Append(f[i - 1], file.table[i])
             ELSE f[i - 1]]
  <2> DEFINE step(i) == IF file.table[i].type = Load THEN Append(f[i - 1], file.table[i])
                        ELSE f[i - 1]
  <2>1. f \in [0..n -> R] /\ f[0] = <<>> /\ \A i \in 1..n : f[i] = step(i)
    BY <1>4, <1>5 DEF Follows
  <2>2. f = [i \in 0..n |-> IF i = 0 THEN <<>> ELSE step(i)]
    <3> HIDE DEF G, R, n, step
    <3>1. QED
      BY <1>2, <2>1
  <2>3. QED
    BY <2>2
<1>7. kept = [i \in 0..Len(file.table) |->
                IF i = 0 THEN <<>>
                ELSE IF file.table[i].type = Load THEN Append(kept[i - 1], file.table[i])
                ELSE kept[i - 1]]
  BY <1>6
<1> HIDE DEF kept, G
<1> DEFINE Loads(i) == {h \in {file.table[j] : j \in 1..i} : h.type = Load}
           S == {i \in Nat : i <= n => kept[i] \in R /\ ToSet(kept[i]) = Loads(i)}
<1>8. 0 \in S
  <2>1. kept[0] = <<>>
    BY <1>2, <1>7
  <2>2. ToSet(kept[0]) = {} /\ Loads(0) = {}
    BY <2>1 DEF ToSet
  <2>3. QED
    BY <1>2, <2>1, <2>2
<1>9. ASSUME NEW i \in Nat, i \in S PROVE i + 1 \in S
  <2>1. SUFFICES ASSUME i + 1 <= n
                 PROVE  kept[i + 1] \in R /\ ToSet(kept[i + 1]) = Loads(i + 1)
    BY <1>9
  <2> DEFINE e == file.table[i + 1]
  <2>2. i + 1 \in 0..Len(file.table) /\ i + 1 # 0 /\ (i + 1) - 1 = i /\ i + 1 \in 1..n
    BY <1>2, <2>1
  <2>3. kept[i] \in R /\ ToSet(kept[i]) = Loads(i)
    BY <1>2, <1>9, <2>1
  <2>4. kept[i + 1] = IF e.type = Load THEN Append(kept[i], e) ELSE kept[i]
    BY <1>7, <2>2
  <2>5. e \in ProgramHeaders
    BY <1>2, <2>2, ElementOfSeq
  <2>6. Loads(i + 1) = IF e.type = Load THEN Loads(i) \cup {e} ELSE Loads(i)
    <3>1. 1..i + 1 = 1..i \cup {i + 1}
      OBVIOUS
    <3>2. QED
      BY <3>1
  <2> HIDE DEF e, Loads
  <2>7. CASE e.type = Load
    <3>1. Append(kept[i], e) \in R /\ ToSet(Append(kept[i], e)) = ToSet(kept[i]) \cup {e}
      BY <2>3, <2>5, AppendProperties, AppendedSet
    <3>2. QED
      BY <2>3, <2>4, <2>6, <2>7, <3>1
  <2>8. CASE e.type # Load
    BY <2>3, <2>4, <2>6, <2>8
  <2>9. QED
    BY <2>7, <2>8
<1>10. Nat \subseteq S
  <2> HIDE DEF S
  <2>1. QED
    BY <1>8, <1>9, SetInduction
<1>11. kept[n] \in R /\ ToSet(kept[n]) = Loads(n)
  <2>1. n \in S
    <3> HIDE DEF S, n
    <3>1. QED
      BY <1>2, <1>10
  <2> HIDE DEF n, R, Loads
  <2>2. QED
    BY <1>2, <2>1
<1>12. Loads(n) = {h \in ToSet(file.table) : h.type = Load}
  <2>1. ToSet(file.table) = {file.table[j] : j \in 1..n}
    BY <1>2, LenProperties DEF ToSet
  <2>2. QED
    BY <2>1
<1>13. QED
  BY <1>1, <1>11, <1>12

-----------------------------------------------------------------------------
(* Builds.                                                                 *)

PageContents == [1..PageWords -> Nat]
Memories == [1..NFrames -> PageContents]
Tables == UNION {[D -> 1..NFrames] : D \in SUBSET Nat}
Builds == [next : 0..NFrames, mem : Memories, table : Tables, ok : BOOLEAN]

\* A build takes frames that were not handed out, each for one page, and writes to no other.
Apart(b) ==
    /\ b \in Builds /\ nextFrame <= b.next
    /\ \A f \in 1..nextFrame : b.mem[f] = mem[f]
    /\ \A p \in DOMAIN b.table : b.table[p] \in nextFrame + 1..b.next
    /\ \A p, q \in DOMAIN b.table : b.table[p] = b.table[q] => p = q

\* What page p of a build holds.
At(b, p) == b.mem[b.table[p]]

\* If c has succeeded, it is b with the first n pages of the list, none of which b had.
HasAdded(b, c, list, n) ==
    c.ok =>
      /\ b.ok
      /\ DOMAIN c.table = DOMAIN b.table \cup {list[i].page : i \in 1..n}
      /\ \A p \in DOMAIN b.table : At(c, p) = At(b, p)
      /\ \A i \in 1..n : list[i].page \notin DOMAIN b.table /\ At(c, list[i].page) = list[i].words

PageLists == Seq([page : Nat, words : PageContents])

LEMMA SpaceNumbers ==
    /\ PageWords \in Nat \ {0} /\ TableSpan \in Nat \ {0} /\ NFrames \in Nat \ {0}
    /\ CodePage \in Nat /\ StackPage \in Nat /\ HeapStart \in Nat /\ HeapCount \in Nat
    /\ HeapPages \subseteq Nat /\ StackPage \notin HeapPages /\ CodePage \notin HeapPages
    /\ CodePage # StackPage
BY AddressAssumption DEF HeapPages

LEMMA TablesAre ==
    /\ \A t \in Tables : /\ DOMAIN t \subseteq Nat /\ t = [p \in DOMAIN t |-> t[p]]
                         /\ \A p \in DOMAIN t : t[p] \in 1..NFrames
    /\ \A D \in SUBSET Nat : \A t \in [D -> 1..NFrames] : t \in Tables
BY DEF Tables

LEMMA WithIsTable ==
    \A t \in Tables, p \in Nat, f \in 1..NFrames :
      /\ With(t, p, f) \in Tables
      /\ DOMAIN With(t, p, f) = DOMAIN t \cup {p}
      /\ With(t, p, f)[p] = f
      /\ \A q \in DOMAIN t : q # p => With(t, p, f)[q] = t[q]
<1>1. SUFFICES ASSUME NEW t \in Tables, NEW p \in Nat, NEW f \in 1..NFrames
               PROVE  /\ With(t, p, f) \in Tables
                      /\ DOMAIN With(t, p, f) = DOMAIN t \cup {p}
                      /\ With(t, p, f)[p] = f
                      /\ \A q \in DOMAIN t : q # p => With(t, p, f)[q] = t[q]
  OBVIOUS
<1>2. DOMAIN t \cup {p} \in SUBSET Nat /\ \A q \in DOMAIN t : t[q] \in 1..NFrames
  BY TablesAre
<1>3. With(t, p, f) \in [DOMAIN t \cup {p} -> 1..NFrames]
  BY <1>2 DEF With
<1>4. QED
  BY <1>2, <1>3, TablesAre DEF With

LEMMA TakeIs ==
    ASSUME NEW b \in Builds, NEW n \in Nat
    PROVE  LET c == Take(b, n)
           IN /\ c \in Builds /\ b.next <= c.next
              /\ c.mem = b.mem /\ c.table = b.table
              /\ c.ok => b.ok /\ c.next = b.next + n
              /\ c.ok <=> b.ok /\ b.next + n <= NFrames
<1>1. b = [next |-> b.next, mem |-> b.mem, table |-> b.table, ok |-> b.ok]
  BY DEF Builds
<1>2. b.next \in 0..NFrames /\ b.ok \in BOOLEAN /\ b.mem \in Memories /\ b.table \in Tables
  BY DEF Builds
<1>3. CASE b.next + n <= NFrames
  <2>1. Take(b, n) = [next |-> b.next + n, mem |-> b.mem, table |-> b.table, ok |-> b.ok]
    BY <1>1, <1>3 DEF Take
  <2>2. b.next + n \in 0..NFrames /\ b.next <= b.next + n
    BY <1>2, <1>3, SpaceNumbers
  <2>3. QED
    BY <1>2, <2>1, <2>2 DEF Builds
<1>4. CASE ~(b.next + n <= NFrames)
  <2>1. Take(b, n) = [next |-> NFrames, mem |-> b.mem, table |-> b.table, ok |-> FALSE]
    BY <1>1, <1>4 DEF Take
  <2>2. NFrames \in 0..NFrames /\ b.next <= NFrames
    BY <1>2, SpaceNumbers
  <2>3. QED
    BY <1>2, <1>4, <2>1, <2>2 DEF Builds
<1>5. QED
  BY <1>3, <1>4

LEMMA PutKeeps ==
    ASSUME NEW b, Apart(b), NEW page \in Nat, NEW words \in PageContents, nextFrame \in Nat
    PROVE  LET c == Put(b, page, words)
           IN /\ Apart(c)
              /\ c.ok => /\ b.ok /\ page \notin DOMAIN b.table
                         /\ DOMAIN c.table = DOMAIN b.table \cup {page}
                         /\ \A p \in DOMAIN b.table : At(c, p) = At(b, p)
                         /\ At(c, page) = words
<1> DEFINE framed == Take(b, 1)
           k == TablesFor(b.table, page)
           tabled == Take(framed, k)
           made == [tabled EXCEPT !.table = With(@, page, framed.next), !.mem[framed.next] = words]
           c == Put(b, page, words)
<1>1. k \in Nat
  BY DEF TablesFor
<1>2. b \in Builds /\ nextFrame <= b.next
  BY DEF Apart
<1>3. /\ framed \in Builds /\ b.next <= framed.next
      /\ framed.mem = b.mem /\ framed.table = b.table
      /\ framed.ok => b.ok /\ framed.next = b.next + 1
  BY <1>2, TakeIs
<1>4. /\ tabled \in Builds /\ framed.next <= tabled.next
      /\ tabled.mem = b.mem /\ tabled.table = b.table
      /\ tabled.ok => framed.ok
  BY <1>1, <1>3, TakeIs
<1>5. c = IF ~b.ok THEN b
          ELSE IF ~framed.ok \/ page \in DOMAIN b.table THEN [framed EXCEPT !.ok = FALSE]
          ELSE IF ~tabled.ok THEN tabled ELSE made
  BY <1>3 DEF Put
<1> HIDE DEF framed, tabled, c, k
<1>6. CASE ~b.ok
  <2>1. c = b
    BY <1>5, <1>6
  <2>2. QED
    BY <1>6, <2>1 DEF c
<1>7. CASE b.ok /\ (~framed.ok \/ page \in DOMAIN b.table)
  <2>1. c = [framed EXCEPT !.ok = FALSE]
    BY <1>5, <1>7
  <2>2. /\ c \in Builds /\ c.next = framed.next /\ c.mem = b.mem /\ c.table = b.table /\ ~c.ok
    BY <1>3, <2>1 DEF Builds
  <2>3. b.next \in Nat /\ c.next \in Nat /\ b.next <= c.next
    BY <1>2, <1>3, <2>2 DEF Builds
  <2>4. \A p \in DOMAIN b.table : b.table[p] \in nextFrame + 1..c.next
    <3>1. \A p \in DOMAIN b.table : b.table[p] \in nextFrame + 1..b.next
      BY DEF Apart
    <3>2. QED
      BY <2>3, <3>1
  <2>5. Apart(c)
    BY <2>2, <2>3, <2>4, <1>2 DEF Apart
  <2>6. QED
    BY <2>2, <2>5 DEF c
<1>8. CASE b.ok /\ framed.ok /\ page \notin DOMAIN b.table /\ ~tabled.ok
  <2>1. c = tabled
    BY <1>5, <1>8
  <2>2. b.next \in Nat /\ c.next \in Nat /\ b.next <= c.next
    BY <1>2, <1>3, <1>4, <2>1 DEF Builds
  <2>3. \A p \in DOMAIN b.table : b.table[p] \in nextFrame + 1..c.next
    <3>1. \A p \in DOMAIN b.table : b.table[p] \in nextFrame + 1..b.next
      BY DEF Apart
    <3>2. QED
      BY <2>2, <3>1
  <2>4. Apart(c)
    BY <1>2, <1>4, <2>1, <2>2, <2>3 DEF Apart
  <2>5. QED
    BY <1>8, <2>1, <2>4 DEF c
<1>9. CASE b.ok /\ framed.ok /\ page \notin DOMAIN b.table /\ tabled.ok
  <2> DEFINE f == framed.next
  <2>1. c = made
    BY <1>5, <1>9
  <2>2. f = b.next + 1 /\ f \in 1..NFrames /\ b.next \in 0..NFrames /\ NFrames \in Nat
    BY <1>2, <1>3, <1>9, SpaceNumbers DEF Builds
  <2>3. b.table \in Tables /\ b.mem \in Memories /\ tabled.next \in 0..NFrames /\ f <= tabled.next
    BY <1>2, <1>4 DEF Builds
  <2>4. /\ c.next = tabled.next /\ c.table = With(b.table, page, f) /\ c.ok
        /\ c.mem = [b.mem EXCEPT ![f] = words]
    BY <1>4, <1>9, <2>1 DEF Builds
  <2>5. c \in Builds
    <3>1. With(b.table, page, f) \in Tables
      BY <2>2, <2>3, WithIsTable
    <3>2. [b.mem EXCEPT ![f] = words] \in Memories
      BY <2>3 DEF Memories
    <3>3. c = [next |-> tabled.next, mem |-> c.mem, table |-> c.table, ok |-> TRUE]
      <4>1. tabled = [next |-> tabled.next, mem |-> tabled.mem, table |-> tabled.table,
                      ok |-> tabled.ok]
        BY <1>4 DEF Builds
      <4>2. QED
        BY <1>9, <2>1, <4>1
    <3>4. QED
      BY <2>3, <2>4, <3>1, <3>2, <3>3 DEF Builds
  <2> HIDE DEF f, made
  <2>6. /\ DOMAIN c.table = DOMAIN b.table \cup {page} /\ c.table[page] = f
        /\ \A p \in DOMAIN b.table : c.table[p] = b.table[p]
    <3>1. f \in 1..NFrames /\ b.table \in Tables
      BY <2>2, <2>3
    <3>2. /\ DOMAIN With(b.table, page, f) = DOMAIN b.table \cup {page}
          /\ With(b.table, page, f)[page] = f
          /\ \A q \in DOMAIN b.table : q # page => With(b.table, page, f)[q] = b.table[q]
      BY <3>1, WithIsTable
    <3>3. QED
      BY <1>9, <2>4, <3>2
  <2>7. \A p \in DOMAIN b.table : b.table[p] \in nextFrame + 1..b.next
    BY DEF Apart
  <2>8. /\ c.mem[f] = words
        /\ \A g \in 1..NFrames : g # f => c.mem[g] = b.mem[g]
    BY <2>2, <2>3, <2>4 DEF Memories
  <2>9. \A p \in DOMAIN b.table : b.table[p] \in 1..NFrames /\ b.table[p] # f
    BY <2>2, <2>7
  <2>10. Apart(c)
    <3>1. nextFrame <= c.next
      BY <1>2, <2>2, <2>3, <2>4
    <3>2. \A g \in 1..nextFrame : c.mem[g] = mem[g]
      <4>1. \A g \in 1..nextFrame : g \in 1..NFrames /\ g # f
        BY <1>2, <2>2
      <4>2. QED
        BY <2>8, <4>1 DEF Apart
    <3>3. \A p \in DOMAIN c.table : c.table[p] \in nextFrame + 1..c.next
      BY <1>2, <2>2, <2>3, <2>4, <2>6, <2>7
    <3>4. \A p, q \in DOMAIN c.table : c.table[p] = c.table[q] => p = q
      BY <2>6, <2>9 DEF Apart
    <3>5. QED
      BY <2>5, <3>1, <3>2, <3>3, <3>4 DEF Apart
  <2>11. /\ \A p \in DOMAIN b.table : At(c, p) = At(b, p)
         /\ At(c, page) = words
    BY <2>6, <2>8, <2>9 DEF At
  <2>12. QED
    BY <1>9, <2>6, <2>10, <2>11 DEF c
<1>10. QED
  BY <1>6, <1>7, <1>8, <1>9

\* PutAll is the list of builds it is written as.
LEMMA PutAllSteps ==
    ASSUME NEW b, Apart(b), NEW list \in PageLists, nextFrame \in Nat
    PROVE  \E after : /\ after[0] = b /\ PutAll(b, list) = after[Len(list)]
                     /\ \A i \in 1..Len(list) :
                          after[i] = Put(after[i - 1], list[i].page, list[i].words)
<1> DEFINE n == Len(list)
           R == {c \in Builds : Apart(c)}
           G == [x \in Nat \X R |->
                   IF x[1] \in 1..n THEN Put(x[2], list[x[1]].page, list[x[1]].words) ELSE x[2]]
           after[i \in 0..Len(list)] ==
             IF i = 0 THEN b ELSE Put(after[i - 1], list[i].page, list[i].words)
<1>1. PutAll(b, list) = after[n]
  BY DEF PutAll
<1>2. n \in Nat /\ b \in R
  BY DEF PageLists, Apart
<1>3. \A i \in 1..n : list[i].page \in Nat /\ list[i].words \in PageContents
  <2>1. ASSUME NEW i \in 1..n PROVE list[i] \in [page : Nat, words : PageContents]
    BY <1>2, ElementOfSeq DEF PageLists
  <2>2. QED
    BY <2>1
<1>4. G \in [Nat \X R -> R]
  <2>1. ASSUME NEW x \in Nat \X R
        PROVE  (IF x[1] \in 1..n THEN Put(x[2], list[x[1]].page, list[x[1]].words)
                ELSE x[2]) \in R
    <3>1. x[2] \in R /\ Apart(x[2])
      OBVIOUS
    <3>2. CASE x[1] \in 1..n
      <4>1. list[x[1]].page \in Nat /\ list[x[1]].words \in PageContents
        BY <1>3, <3>2
      <4>2. Apart(Put(x[2], list[x[1]].page, list[x[1]].words))
        BY <3>1, <4>1, PutKeeps
      <4>3. QED
        BY <3>2, <4>2 DEF Apart
    <3>3. QED
      BY <3>1, <3>2
  <2>2. QED
    BY <2>1
<1>5. PICK f : Follows(f, b, G, n, R)
  <2> HIDE DEF G, R, n
  <2>1. QED
    BY <1>2, <1>4, StepwiseFunction
<1>6. ASSUME NEW i \in 1..n PROVE f[i] = Put(f[i - 1], list[i].page, list[i].words)
  <2>1. i \in Nat /\ i - 1 \in 0..n
    BY <1>2
  <2>2. f[i] = G[<<i, f[i - 1]>>] /\ f[i - 1] \in R
    BY <1>5, <2>1 DEF Follows
  <2>3. QED
    BY <2>1, <2>2
<1>7. f = [i \in 0..Len(list) |->
             IF i = 0 THEN b ELSE Put(f[i - 1], list[i].page, list[i].words)]
  <2> DEFINE step(i) == Put(f[i - 1], list[i].page, list[i].words)
  <2>1. f \in [0..n -> R] /\ f[0] = b /\ \A i \in 1..n : f[i] = step(i)
    BY <1>5, <1>6 DEF Follows
  <2>2. f = [i \in 0..n |-> IF i = 0 THEN b ELSE step(i)]
    <3> HIDE DEF G, R, n, step
    <3>1. QED
      BY <1>2, <2>1
  <2>3. QED
    BY <2>2
<1>8. after = [i \in 0..Len(list) |->
                 IF i = 0 THEN b ELSE Put(after[i - 1], list[i].page, list[i].words)]
  BY <1>7
<1> HIDE DEF after, G
<1>9. after[0] = b /\ \A i \in 1..n : after[i] = Put(after[i - 1], list[i].page, list[i].words)
  BY <1>2, <1>8
<1>10. QED
  BY <1>1, <1>9

LEMMA PutAllKeeps ==
    ASSUME NEW b, Apart(b), NEW list \in PageLists, nextFrame \in Nat
    PROVE  Apart(PutAll(b, list)) /\ HasAdded(b, PutAll(b, list), list, Len(list))
<1> DEFINE n == Len(list)
<1>1. PICK after :
        /\ after[0] = b /\ PutAll(b, list) = after[n]
        /\ \A i \in 1..n : after[i] = Put(after[i - 1], list[i].page, list[i].words)
  BY PutAllSteps
<1>2. n \in Nat
  BY DEF PageLists
<1>3. \A i \in 1..n : list[i].page \in Nat /\ list[i].words \in PageContents
  <2>1. ASSUME NEW i \in 1..n PROVE list[i] \in [page : Nat, words : PageContents]
    BY <1>2, ElementOfSeq DEF PageLists
  <2>2. QED
    BY <2>1
<1> DEFINE S == {i \in Nat : i <= n => Apart(after[i]) /\ HasAdded(b, after[i], list, i)}
<1>9. 0 \in S
  <2>1. after[0] = b
    BY <1>1
  <2>2. HasAdded(b, b, list, 0)
    BY DEF HasAdded
  <2>3. QED
    BY <2>1, <2>2
<1>10. ASSUME NEW i \in Nat, i \in S PROVE i + 1 \in S
  <2>1. SUFFICES ASSUME i + 1 <= n
                 PROVE  Apart(after[i + 1]) /\ HasAdded(b, after[i + 1], list, i + 1)
    BY <1>10
  <2> DEFINE c == after[i]
             d == after[i + 1]
             page == list[i + 1].page
             words == list[i + 1].words
  <2>2. (i + 1) - 1 = i /\ i + 1 \in 1..n
    BY <1>2, <2>1
  <2>3. Apart(c) /\ HasAdded(b, c, list, i)
    BY <1>2, <1>10, <2>1
  <2>4. d = Put(c, page, words)
    BY <1>1, <2>2
  <2>5. page \in Nat /\ words \in PageContents
    BY <1>3, <2>2
  <2> HIDE DEF c, d
  <2>6. /\ Apart(d)
        /\ d.ok => /\ c.ok /\ page \notin DOMAIN c.table
                   /\ DOMAIN d.table = DOMAIN c.table \cup {page}
                   /\ \A p \in DOMAIN c.table : At(d, p) = At(c, p)
                   /\ At(d, page) = words
    BY <2>3, <2>4, <2>5, PutKeeps
  <2>7. HasAdded(b, d, list, i + 1)
    <3>1. SUFFICES ASSUME d.ok
                   PROVE  /\ b.ok
                          /\ DOMAIN d.table = DOMAIN b.table \cup {list[j].page : j \in 1..i + 1}
                          /\ \A p \in DOMAIN b.table : At(d, p) = At(b, p)
                          /\ \A j \in 1..i + 1 : list[j].page \notin DOMAIN b.table
                                              /\ At(d, list[j].page) = list[j].words
      BY DEF HasAdded
    <3>2. /\ b.ok
          /\ DOMAIN c.table = DOMAIN b.table \cup {list[j].page : j \in 1..i}
          /\ \A p \in DOMAIN b.table : At(c, p) = At(b, p)
          /\ \A j \in 1..i : /\ list[j].page \notin DOMAIN b.table
                             /\ At(c, list[j].page) = list[j].words
      BY <2>3, <2>6, <3>1 DEF HasAdded
    <3>3. 1..i + 1 = 1..i \cup {i + 1}
      OBVIOUS
    <3>4. {list[j].page : j \in 1..i + 1} = {list[j].page : j \in 1..i} \cup {page}
      BY <3>3
    <3>5. DOMAIN d.table = DOMAIN b.table \cup {list[j].page : j \in 1..i + 1}
      BY <2>6, <3>1, <3>2, <3>4
    <3>6. \A p \in DOMAIN b.table : At(d, p) = At(b, p)
      BY <2>6, <3>1, <3>2
    <3>7. ASSUME NEW j \in 1..i + 1
          PROVE  list[j].page \notin DOMAIN b.table /\ At(d, list[j].page) = list[j].words
      <4>1. CASE j = i + 1
        BY <2>6, <3>1, <3>2, <4>1
      <4>2. CASE j \in 1..i
        <5>1. list[j].page \in DOMAIN c.table
          BY <3>2, <4>2
        <5>2. QED
          BY <2>6, <3>1, <3>2, <4>2, <5>1
      <4>3. QED
        BY <3>3, <4>1, <4>2
    <3>8. QED
      BY <3>2, <3>5, <3>6, <3>7
  <2>8. QED
    BY <2>6, <2>7 DEF d
<1>11. Nat \subseteq S
  <2> HIDE DEF S
  <2>1. QED
    BY <1>9, <1>10, SetInduction
<1>12. QED
  BY <1>1, <1>2, <1>11

-----------------------------------------------------------------------------
(* The segments of an ELF file.                                            *)

LEMMA FunctionIsSeq ==
    \A S : \A n \in Nat : \A s \in [1..n -> S] : s \in Seq(S) /\ Len(s) = n
<1>1. SUFFICES ASSUME NEW S, NEW n \in Nat, NEW s \in [1..n -> S]
               PROVE  s \in Seq(S) /\ Len(s) = n
  OBVIOUS
<1>2. s \in Seq(S)
  BY SeqDef
<1>3. Len(s) = n
  <2>1. Len(s) \in Nat /\ 1..Len(s) = 1..n
    BY <1>2, LenProperties
  <2>2. QED
    BY <2>1
<1>4. QED
  BY <1>2, <1>3

LEMMA ContentsAre ==
    /\ AsFound \in PageContents /\ Zeros \in PageContents
    /\ \A image \in Seq(Nat) : Padded(image) \in PageContents
<1>1. ASSUME NEW image \in Seq(Nat) PROVE Padded(image) \in PageContents
  <2>1. ASSUME NEW i \in 1..PageWords, i <= Len(image) PROVE image[i] \in Nat
    <3>1. i \in 1..Len(image)
      BY <2>1, SpaceNumbers
    <3>2. QED
      BY <3>1, ElementOfSeq
  <2>2. QED
    BY <2>1 DEF Padded, PageContents
<1>2. QED
  BY <1>1 DEF AsFound, Zeros, PageContents

LEMMA StackAndHeapPages ==
    /\ StackAndHeap \in PageLists /\ Len(StackAndHeap) = HeapCount + 1
    /\ {StackAndHeap[i].page : i \in 1..HeapCount + 1} = {StackPage} \cup HeapPages
    /\ StackAndHeap[1] = [page |-> StackPage, words |-> AsFound]
    /\ \A p \in HeapPages : \E i \in 1..HeapCount + 1 :
         StackAndHeap[i] = [page |-> p, words |-> Zeros]
<1> DEFINE n == HeapCount + 1
<1>1. n \in Nat /\ 1 \in 1..n
  BY SpaceNumbers
<1>2. ASSUME NEW i \in 1..n
      PROVE  /\ StackAndHeap[i] \in [page : Nat, words : PageContents]
             /\ StackAndHeap[i].page \in {StackPage} \cup HeapPages
  <2>1. i = 1 => StackAndHeap[i] = [page |-> StackPage, words |-> AsFound]
    BY DEF StackAndHeap
  <2>2. i # 1 => StackAndHeap[i] = [page |-> HeapStart + i - 2, words |-> Zeros]
    BY DEF StackAndHeap
  <2>3. i # 1 => HeapStart + i - 2 \in HeapPages
    BY SpaceNumbers DEF HeapPages
  <2>4. QED
    BY <2>1, <2>2, <2>3, SpaceNumbers, ContentsAre
<1>3. ASSUME NEW p \in HeapPages
      PROVE  \E i \in 1..n : StackAndHeap[i] = [page |-> p, words |-> Zeros]
  <2>1. /\ p - HeapStart + 2 \in 1..n /\ p - HeapStart + 2 # 1
        /\ HeapStart + (p - HeapStart + 2) - 2 = p
    BY SpaceNumbers DEF HeapPages
  <2>2. QED
    BY <2>1 DEF StackAndHeap
<1>4. StackAndHeap[1] = [page |-> StackPage, words |-> AsFound]
  BY <1>1 DEF StackAndHeap
<1>5. StackAndHeap \in [1..n -> [page : Nat, words : PageContents]]
  <2>1. \E F \in [1..n -> {StackAndHeap[i] : i \in 1..n}] : F = StackAndHeap
    BY DEF StackAndHeap
  <2>2. QED
    BY <1>2, <2>1
<1>6. StackAndHeap \in PageLists /\ Len(StackAndHeap) = n
  BY <1>1, <1>5, FunctionIsSeq DEF PageLists
<1>7. {StackAndHeap[i].page : i \in 1..n} = {StackPage} \cup HeapPages
  <2>1. \A i \in 1..n : StackAndHeap[i].page \in {StackPage} \cup HeapPages
    BY <1>2
  <2>2. ASSUME NEW p \in {StackPage} \cup HeapPages
        PROVE  \E i \in 1..n : p = StackAndHeap[i].page
    <3>1. CASE p = StackPage
      BY <1>1, <1>4, <3>1
    <3>2. CASE p \in HeapPages
      <4>1. PICK i \in 1..n : StackAndHeap[i] = [page |-> p, words |-> Zeros]
        BY <1>3, <3>2
      <4>2. QED
        BY <4>1
    <3>3. QED
      BY <3>1, <3>2
  <2>3. QED
    BY <2>1, <2>2
<1>8. QED
  BY <1>3, <1>4, <1>6, <1>7

\* Addresses and pages.
LEMMA Division ==
    ASSUME NEW k \in Nat \ {0}, NEW a \in Nat
    PROVE  a \div k \in Nat /\ a % k \in 0..k - 1 /\ a = k * (a \div k) + (a % k)
<1> DEFINE q == a \div k
           r == a % k
<1>1. q \in Int /\ r \in 0..k - 1 /\ a = k * q + r
  OBVIOUS
<1> HIDE DEF q, r
<1>2. q >= 0
  <2>1. SUFFICES ASSUME q <= -1 PROVE FALSE
    BY <1>1
  <2>2. k * q <= k * (-1)
    BY <1>1, <2>1
  <2>3. QED
    BY <1>1, <2>2
<1>3. QED
  BY <1>1, <1>2 DEF q, r

LEMMA PagesAreNumbers ==
    ASSUME NEW h \in ProgramHeaders
    PROVE  /\ PageCount(h) \in Nat
           /\ \A i \in 1..PageCount(h) : /\ PagesOf(h)[i] = (h.vaddr \div PageWords) + i - 1
                                         /\ PagesOf(h)[i] \in Nat
           /\ DOMAIN PagesOf(h) = 1..PageCount(h)
<1>1. h.memsz + PageWords - 1 \in Nat /\ h.vaddr \in Nat
  BY SpaceNumbers DEF ProgramHeaders
<1>2. PageCount(h) \in Nat /\ h.vaddr \div PageWords \in Nat
  BY <1>1, SpaceNumbers, Division DEF PageCount
<1>3. QED
  BY <1>2 DEF PagesOf

LEMMA SegmentPagesAre ==
    ASSUME NEW file \in ElfFileType, NEW h \in ProgramHeaders, InFile(file, h)
    PROVE  SegmentPages(file, h) \in PageLists /\ Len(SegmentPages(file, h)) = PageCount(h)
<1> DEFINE n == PageCount(h)
<1>1. n \in Nat /\ \A i \in 1..n : PagesOf(h)[i] \in Nat
  BY PagesAreNumbers
<1>2. ASSUME NEW i \in 1..n PROVE PageWordsOf(file, h, i) \in PageContents
  <2> DEFINE m == (i - 1) * PageWords
  <2>1. i - 1 \in Nat /\ PageWords \in Nat
    BY <1>1, SpaceNumbers
  <2>2. m \in Nat
    BY <2>1
  <2>3. h.offset \in Nat /\ h.filesz \in Nat /\ file.words \in Seq(Nat)
    BY DEF ProgramHeaders, ElfFileType
  <2>4. h.offset + h.filesz <= Len(file.words) /\ Len(file.words) \in Nat
    BY <2>3, LenProperties DEF InFile
  <2> HIDE DEF m
  <2>5. ASSUME NEW w \in 1..PageWords, w <= h.filesz - m
        PROVE  file.words[h.offset + m + w] \in Nat
    <3>1. h.offset + m + w \in 1..Len(file.words)
      <4> DEFINE o == h.offset
                 z == h.filesz
                 l == Len(file.words)
      <4>1. /\ o \in Nat /\ z \in Nat /\ l \in Nat /\ m \in Nat /\ w \in 1..PageWords
            /\ o + z <= l /\ w <= z - m /\ PageWords \in Nat
        BY <2>1, <2>2, <2>3, <2>4, <2>5
      <4> HIDE DEF o, z, l
      <4>2. o + m + w \in 1..l
        BY <4>1
      <4>3. QED
        BY <4>2 DEF o, l
    <3>2. QED
      BY <2>3, <3>1, ElementOfSeq
  <2>6. PageWordsOf(file, h, i) =
          [w \in 1..PageWords |-> IF w <= h.filesz - m THEN file.words[h.offset + m + w] ELSE 0]
    BY DEF PageWordsOf, m
  <2>7. QED
    BY <2>5, <2>6 DEF PageContents
<1>3. SegmentPages(file, h) \in [1..n -> [page : Nat, words : PageContents]]
  BY <1>1, <1>2 DEF SegmentPages
<1>4. QED
  BY <1>1, <1>3, FunctionIsSeq DEF PageLists

\* If c has succeeded, it has the pages of the first k segments and no other.
HasSegments(c, file, k) ==
    LET headers == LoadHeaders(file)
    IN c.ok =>
         /\ DOMAIN c.table = UNION {ToSet(PagesOf(headers[j])) : j \in 1..k}
         /\ \A j \in 1..k : \A i \in 1..PageCount(headers[j]) :
              At(c, PagesOf(headers[j])[i]) = PageWordsOf(file, headers[j], i)

LEMMA PagesAsSet ==
    ASSUME NEW h \in ProgramHeaders
    PROVE  ToSet(PagesOf(h)) = {PagesOf(h)[i] : i \in 1..PageCount(h)}
BY PagesAreNumbers DEF ToSet

LEMMA SegmentAdded ==
    ASSUME NEW c, NEW d, NEW file, NEW k \in Nat,
           NEW h \in ProgramHeaders, h = LoadHeaders(file)[k + 1],
           HasSegments(c, file, k), HasAdded(c, d, SegmentPages(file, h), PageCount(h))
    PROVE  HasSegments(d, file, k + 1)
<1> DEFINE headers == LoadHeaders(file)
           list == SegmentPages(file, h)
           n == PageCount(h)
           Before == UNION {ToSet(PagesOf(headers[j])) : j \in 1..k}
<1>1. SUFFICES ASSUME d.ok
               PROVE  /\ DOMAIN d.table = UNION {ToSet(PagesOf(headers[j])) : j \in 1..k + 1}
                      /\ \A j \in 1..k + 1 : \A i \in 1..PageCount(headers[j]) :
                           At(d, PagesOf(headers[j])[i]) = PageWordsOf(file, headers[j], i)
  BY DEF HasSegments
<1>2. /\ c.ok /\ DOMAIN d.table = DOMAIN c.table \cup {list[i].page : i \in 1..n}
      /\ \A p \in DOMAIN c.table : At(d, p) = At(c, p)
      /\ \A i \in 1..n : At(d, list[i].page) = list[i].words
  BY <1>1 DEF HasAdded
<1>3. /\ DOMAIN c.table = Before
      /\ \A j \in 1..k : \A i \in 1..PageCount(headers[j]) :
           At(c, PagesOf(headers[j])[i]) = PageWordsOf(file, headers[j], i)
  BY <1>2 DEF HasSegments
<1>4. \A i \in 1..n : list[i].page = PagesOf(h)[i] /\ list[i].words = PageWordsOf(file, h, i)
  BY DEF SegmentPages
<1>5. {list[i].page : i \in 1..n} = ToSet(PagesOf(h))
  <2> HIDE DEF list
  <2>1. QED
    BY <1>4, PagesAsSet
<1>6. 1..k + 1 = 1..k \cup {k + 1}
  OBVIOUS
<1>7. UNION {ToSet(PagesOf(headers[j])) : j \in 1..k + 1} = Before \cup ToSet(PagesOf(h))
  BY <1>6
<1> HIDE DEF list
<1>8. ASSUME NEW j \in 1..k + 1, NEW i \in 1..PageCount(headers[j])
      PROVE  At(d, PagesOf(headers[j])[i]) = PageWordsOf(file, headers[j], i)
  <2>1. CASE j = k + 1
    <3>1. headers[j] = h
      BY <2>1
    <3>2. QED
      BY <1>2, <1>4, <3>1
  <2>2. CASE j \in 1..k
    <3>1. PagesOf(headers[j])[i] \in ToSet(PagesOf(headers[j]))
      BY DEF ToSet, PagesOf
    <3>2. PagesOf(headers[j])[i] \in DOMAIN c.table
      BY <1>3, <2>2, <3>1
    <3>3. QED
      BY <1>2, <1>3, <2>2, <3>2
  <2>3. QED
    BY <1>6, <2>1, <2>2
<1>9. QED
  BY <1>2, <1>3, <1>5, <1>7, <1>8

\* The headers of a file whose segments lie in it, and their lists of pages.
LEMMA SegmentsAre ==
    ASSUME NEW file \in ElfFileType,
           \A i \in 1..Len(LoadHeaders(file)) : InFile(file, LoadHeaders(file)[i])
    PROVE  /\ LoadHeaders(file) \in Seq(ProgramHeaders) /\ Len(LoadHeaders(file)) \in Nat
           /\ \A i \in 1..Len(LoadHeaders(file)) :
                LET h == LoadHeaders(file)[i]
                IN /\ h \in ProgramHeaders /\ SegmentPages(file, h) \in PageLists
                   /\ Len(SegmentPages(file, h)) = PageCount(h)
<1> DEFINE headers == LoadHeaders(file)
           n == Len(headers)
<1>1. headers \in Seq(ProgramHeaders) /\ n \in Nat
  BY HeadersAreHeaders, LenProperties
<1>2. ASSUME NEW i \in 1..n
      PROVE  /\ headers[i] \in ProgramHeaders
             /\ SegmentPages(file, headers[i]) \in PageLists
             /\ Len(SegmentPages(file, headers[i])) = PageCount(headers[i])
  <2>1. headers[i] \in ProgramHeaders
    BY <1>1, ElementOfSeq
  <2>2. QED
    BY <2>1, SegmentPagesAre
<1>3. QED
  BY <1>1, <1>2

\* PutSegments is the list of builds it is written as.
LEMMA PutSegmentsSteps ==
    ASSUME NEW b, Apart(b), NEW file \in ElfFileType, nextFrame \in Nat,
           \A i \in 1..Len(LoadHeaders(file)) : InFile(file, LoadHeaders(file)[i])
    PROVE  \E after : /\ after[0] = b /\ PutSegments(b, file) = after[Len(LoadHeaders(file))]
                     /\ \A i \in 1..Len(LoadHeaders(file)) :
                          after[i] = PutAll(after[i - 1],
                                            SegmentPages(file, LoadHeaders(file)[i]))
<1> DEFINE headers == LoadHeaders(file)
           n == Len(headers)
           R == {c \in Builds : Apart(c)}
           G == [x \in Nat \X R |->
                   IF x[1] \in 1..n THEN PutAll(x[2], SegmentPages(file, headers[x[1]]))
                   ELSE x[2]]
           after[i \in 0..Len(headers)] ==
             IF i = 0 THEN b ELSE PutAll(after[i - 1], SegmentPages(file, headers[i]))
<1>1. PutSegments(b, file) = after[n]
  BY DEF PutSegments
<1>2. headers \in Seq(ProgramHeaders) /\ n \in Nat /\ b \in R
  BY SegmentsAre DEF Apart
<1>3. \A i \in 1..n : /\ headers[i] \in ProgramHeaders
                     /\ SegmentPages(file, headers[i]) \in PageLists
                     /\ Len(SegmentPages(file, headers[i])) = PageCount(headers[i])
  BY SegmentsAre
<1>4. G \in [Nat \X R -> R]
  <2>1. ASSUME NEW x \in Nat \X R
        PROVE  (IF x[1] \in 1..n THEN PutAll(x[2], SegmentPages(file, headers[x[1]]))
                ELSE x[2]) \in R
    <3>1. x[2] \in R /\ Apart(x[2])
      OBVIOUS
    <3>2. CASE x[1] \in 1..n
      <4>1. SegmentPages(file, headers[x[1]]) \in PageLists
        BY <1>3, <3>2
      <4>2. Apart(PutAll(x[2], SegmentPages(file, headers[x[1]])))
        BY <3>1, <4>1, PutAllKeeps
      <4>3. QED
        BY <3>2, <4>2 DEF Apart
    <3>3. QED
      BY <3>1, <3>2
  <2>2. QED
    BY <2>1
<1>5. PICK f : Follows(f, b, G, n, R)
  <2> HIDE DEF G, R, n
  <2>1. QED
    BY <1>2, <1>4, StepwiseFunction
<1>6. ASSUME NEW i \in 1..n PROVE f[i] = PutAll(f[i - 1], SegmentPages(file, headers[i]))
  <2>1. i \in Nat /\ i - 1 \in 0..n
    BY <1>2
  <2>2. f[i] = G[<<i, f[i - 1]>>] /\ f[i - 1] \in R
    <3> HIDE DEF G, R, n
    <3>1. QED
      BY <1>5, <2>1 DEF Follows
  <2>3. QED
    BY <2>1, <2>2
<1>7. f = [i \in 0..Len(headers) |->
             IF i = 0 THEN b ELSE PutAll(f[i - 1], SegmentPages(file, headers[i]))]
  <2> DEFINE step(i) == PutAll(f[i - 1], SegmentPages(file, headers[i]))
  <2>1. f \in [0..n -> R] /\ f[0] = b /\ \A i \in 1..n : f[i] = step(i)
    BY <1>5, <1>6 DEF Follows
  <2>2. f = [i \in 0..n |-> IF i = 0 THEN b ELSE step(i)]
    <3> HIDE DEF G, R, n, step
    <3>1. QED
      BY <1>2, <2>1
  <2>3. QED
    BY <2>2
<1>8. after = [i \in 0..Len(headers) |->
                 IF i = 0 THEN b ELSE PutAll(after[i - 1], SegmentPages(file, headers[i]))]
  BY <1>7
<1> HIDE DEF after, G
<1>9. /\ after[0] = b
      /\ \A i \in 1..n : after[i] = PutAll(after[i - 1], SegmentPages(file, headers[i]))
  BY <1>2, <1>8
<1>10. QED
  BY <1>1, <1>9

LEMMA PutSegmentsKeeps ==
    ASSUME NEW b, Apart(b), b.table = NoPages, NEW file \in ElfFileType, nextFrame \in Nat,
           \A i \in 1..Len(LoadHeaders(file)) : InFile(file, LoadHeaders(file)[i])
    PROVE  /\ Apart(PutSegments(b, file))
           /\ HasSegments(PutSegments(b, file), file, Len(LoadHeaders(file)))
<1> DEFINE headers == LoadHeaders(file)
           n == Len(headers)
<1>1. PICK after :
        /\ after[0] = b /\ PutSegments(b, file) = after[n]
        /\ \A i \in 1..n : after[i] = PutAll(after[i - 1], SegmentPages(file, headers[i]))
  BY PutSegmentsSteps
<1>2. n \in Nat
  BY SegmentsAre
<1>3. \A i \in 1..n : /\ headers[i] \in ProgramHeaders
                     /\ SegmentPages(file, headers[i]) \in PageLists
                     /\ Len(SegmentPages(file, headers[i])) = PageCount(headers[i])
  BY SegmentsAre
<1> DEFINE S == {i \in Nat : i <= n => Apart(after[i]) /\ HasSegments(after[i], file, i)}
<1>9. 0 \in S
  <2>1. after[0] = b
    BY <1>1
  <2>2. HasSegments(b, file, 0)
    <3>1. DOMAIN b.table = {}
      BY DEF NoPages
    <3>2. QED
      BY <3>1 DEF HasSegments
  <2>3. QED
    BY <2>1, <2>2
<1>10. ASSUME NEW i \in Nat, i \in S PROVE i + 1 \in S
  <2>1. SUFFICES ASSUME i + 1 <= n
                 PROVE  Apart(after[i + 1]) /\ HasSegments(after[i + 1], file, i + 1)
    BY <1>10
  <2> DEFINE h == headers[i + 1]
  <2>2. (i + 1) - 1 = i /\ i + 1 \in 1..n
    BY <1>2, <2>1
  <2>3. Apart(after[i]) /\ HasSegments(after[i], file, i)
    BY <1>2, <1>10, <2>1
  <2>4. after[i + 1] = PutAll(after[i], SegmentPages(file, h))
    BY <1>1, <2>2
  <2>5. /\ h \in ProgramHeaders /\ SegmentPages(file, h) \in PageLists
        /\ Len(SegmentPages(file, h)) = PageCount(h)
    BY <1>3, <2>2
  <2>6. /\ Apart(after[i + 1])
        /\ HasAdded(after[i], after[i + 1], SegmentPages(file, h), PageCount(h))
    BY <2>3, <2>4, <2>5, PutAllKeeps
  <2>7. HasSegments(after[i + 1], file, i + 1)
    BY <2>3, <2>5, <2>6, SegmentAdded
  <2>8. QED
    BY <2>6, <2>7
<1>11. Nat \subseteq S
  <2> HIDE DEF S
  <2>1. QED
    BY <1>9, <1>10, SetInduction
<1>12. QED
  BY <1>1, <1>2, <1>11

-----------------------------------------------------------------------------
(* What is built.                                                          *)

Views == UNION {[D -> PageContents] : D \in SUBSET Nat}

\* A build that, if it has succeeded, shows what it should.
Right(b, sees) ==
    /\ Apart(b) /\ sees \in Views /\ KnownPages \subseteq DOMAIN sees
    /\ b.ok => DOMAIN b.table = DOMAIN sees /\ \A p \in DOMAIN sees : At(b, p) = sees[p]

Frames == nextFrame \in 0..NFrames /\ mem \in Memories

LEMMA NewBuildIsApart ==
    ASSUME Frames
    PROVE  Apart(NewBuild) /\ NewBuild.table = NoPages
<1> DEFINE b == [next |-> nextFrame, mem |-> mem, table |-> NoPages, ok |-> TRUE]
<1>1. NoPages \in Tables /\ DOMAIN NoPages = {}
  <2>1. DOMAIN NoPages = {} /\ NoPages \in [{} -> 1..NFrames]
    BY DEF NoPages
  <2>2. QED
    BY <2>1, TablesAre
<1>2. b \in Builds
  BY <1>1 DEF Builds, Frames
<1>3. /\ NewBuild \in Builds /\ nextFrame <= NewBuild.next
      /\ NewBuild.mem = mem /\ NewBuild.table = NoPages
  <2>1. NewBuild = Take(b, 1)
    BY DEF NewBuild
  <2>2. b.next = nextFrame /\ b.mem = mem /\ b.table = NoPages
    OBVIOUS
  <2> HIDE DEF b
  <2>3. QED
    BY <1>2, <2>1, <2>2, TakeIs
<1>4. QED
  BY <1>1, <1>3 DEF Apart

LEMMA ImageIsRight ==
    ASSUME Frames, NEW image \in Seq(Nat)
    PROVE  Right(FromImage(image), ImageExpected(image))
<1> DEFINE sees == ImageExpected(image)
           b == FromImage(image)
<1>1. nextFrame \in Nat
  BY SpaceNumbers DEF Frames
<1>2. Padded(image) \in PageContents /\ AsFound \in PageContents /\ Zeros \in PageContents
  BY ContentsAre
<1>3. KnownPages \subseteq Nat
  BY SpaceNumbers DEF KnownPages
<1>4. sees \in Views /\ DOMAIN sees = KnownPages
  <2>1. sees \in [KnownPages -> PageContents]
    BY <1>2 DEF ImageExpected
  <2>2. QED
    BY <1>3, <2>1 DEF Views
<1>5. /\ sees[CodePage] = Padded(image) /\ sees[StackPage] = AsFound
      /\ \A p \in HeapPages : sees[p] = Zeros
  BY SpaceNumbers DEF ImageExpected, KnownPages
<1>6. CASE Len(image) > PageWords
  <2>1. b = [next |-> nextFrame, mem |-> mem, table |-> NoPages, ok |-> FALSE]
    BY <1>6 DEF FromImage
  <2>2. DOMAIN NoPages = {} /\ NoPages \in [{} -> 1..NFrames]
    BY DEF NoPages
  <2>3. NoPages \in Tables
    BY <2>2, TablesAre
  <2>4. b \in Builds /\ b.table = NoPages /\ b.next = nextFrame /\ b.mem = mem /\ ~b.ok
    BY <2>1, <2>3 DEF Builds, Frames
  <2> HIDE DEF b
  <2>5. Apart(b)
    BY <1>1, <2>2, <2>4 DEF Apart
  <2>6. QED
    BY <1>4, <2>4, <2>5 DEF Right, b
<1>7. CASE ~(Len(image) > PageWords)
  <2> DEFINE c == Put(NewBuild, CodePage, Padded(image))
  <2>1. b = PutAll(c, StackAndHeap)
    BY <1>7 DEF FromImage
  <2>2. /\ Apart(c)
        /\ c.ok => DOMAIN c.table = {CodePage} /\ At(c, CodePage) = Padded(image)
    <3>1. Apart(NewBuild) /\ DOMAIN NewBuild.table = {}
      BY NewBuildIsApart DEF NoPages
    <3>2. CodePage \in Nat /\ Padded(image) \in PageContents
      BY <1>2, SpaceNumbers
    <3>3. /\ Apart(c)
          /\ c.ok => /\ DOMAIN c.table = DOMAIN NewBuild.table \cup {CodePage}
                     /\ At(c, CodePage) = Padded(image)
      BY <1>1, <3>1, <3>2, PutKeeps
    <3> HIDE DEF c
    <3>4. QED
      BY <3>1, <3>3
  <2> HIDE DEF b, c
  <2>3. Apart(b) /\ HasAdded(c, b, StackAndHeap, HeapCount + 1)
    BY <1>1, <2>1, <2>2, PutAllKeeps, StackAndHeapPages
  <2>4. ASSUME b.ok
        PROVE  DOMAIN b.table = DOMAIN sees /\ \A p \in DOMAIN sees : At(b, p) = sees[p]
    <3>1. /\ c.ok /\ DOMAIN b.table = DOMAIN c.table \cup {StackPage} \cup HeapPages
          /\ \A p \in DOMAIN c.table : At(b, p) = At(c, p)
          /\ \A i \in 1..HeapCount + 1 : At(b, StackAndHeap[i].page) = StackAndHeap[i].words
      BY <2>3, <2>4, StackAndHeapPages DEF HasAdded
    <3>2. At(b, CodePage) = Padded(image)
      BY <2>2, <3>1
    <3>3. At(b, StackPage) = AsFound
      BY <3>1, StackAndHeapPages, SpaceNumbers
    <3>4. ASSUME NEW p \in HeapPages PROVE At(b, p) = Zeros
      <4>1. PICK i \in 1..HeapCount + 1 : StackAndHeap[i] = [page |-> p, words |-> Zeros]
        BY StackAndHeapPages
      <4>2. At(b, StackAndHeap[i].page) = StackAndHeap[i].words
        BY <3>1
      <4>3. QED
        BY <4>1, <4>2
    <3>5. QED
      BY <1>4, <1>5, <2>2, <3>1, <3>2, <3>3, <3>4 DEF KnownPages
  <2>5. QED
    BY <1>4, <2>3, <2>4 DEF Right, b
<1>8. QED
  BY <1>6, <1>7

\* The page and the place in it of an address.
LEMMA PageOfAddress ==
    ASSUME NEW k \in Nat \ {0}, NEW p \in Nat, NEW r \in 0..k - 1
    PROVE  (p * k + r) \div k = p
<1> DEFINE a == p * k + r
           q == a \div k
           s == a % k
<1>1. a \in Nat
  OBVIOUS
<1>2. q \in Nat /\ s \in 0..k - 1 /\ a = k * q + s
  BY <1>1, Division
<1> HIDE DEF q, s
<1>3. p * k + r = k * q + s
  BY <1>2
<1>4. ~(q <= p - 1)
  <2>1. SUFFICES ASSUME q <= p - 1 PROVE FALSE
    OBVIOUS
  <2>2. k * q <= k * (p - 1) /\ k * (p - 1) = p * k - k
    BY <1>2, <2>1
  <2>3. QED
    BY <1>2, <1>3, <2>2
<1>5. ~(q >= p + 1)
  <2>1. SUFFICES ASSUME q >= p + 1 PROVE FALSE
    OBVIOUS
  <2>2. k * q >= k * (p + 1) /\ k * (p + 1) = p * k + k
    BY <1>2, <2>1
  <2>3. QED
    BY <1>2, <1>3, <2>2
<1>6. QED
  BY <1>2, <1>4, <1>5 DEF q

LEMMA ProductsInOrder ==
    ASSUME NEW k \in Nat \ {0}, NEW a \in Nat, NEW b \in Nat
    PROVE  (a * k < b * k => a < b) /\ (a * k <= b * k => a <= b)
<1>1. ASSUME a >= b PROVE a * k >= b * k
  BY <1>1
<1>2. ASSUME a >= b + 1 PROVE a * k >= b * k + k
  <2>1. a * k >= (b + 1) * k /\ (b + 1) * k = b * k + k
    BY <1>2
  <2>2. QED
    BY <2>1
<1> DEFINE x == a * k
           y == b * k
<1>3. x \in Nat /\ y \in Nat /\ (a >= b => x >= y) /\ (a >= b + 1 => x >= y + k)
  BY <1>1, <1>2
<1> HIDE DEF x, y
<1>4. (x < y => a < b) /\ (x <= y => a <= b)
  BY <1>3
<1>5. QED
  BY <1>4 DEF x, y

\* The page of an address within a segment is one of the segment's.
LEMMA CoveredPage ==
    ASSUME NEW h \in ProgramHeaders, h.vaddr % PageWords = 0, NEW page \in Nat,
           Covers(h, page * PageWords)
    PROVE  page \in ToSet(PagesOf(h))
<1> DEFINE k == h.vaddr \div PageWords
           m == PageCount(h)
           W == PageWords
<1>1. h.vaddr \in Nat /\ h.memsz \in Nat /\ W \in Nat \ {0}
  BY SpaceNumbers DEF ProgramHeaders
<1>2. k \in Nat /\ h.vaddr = W * k
  <2>1. k \in Nat /\ h.vaddr = W * k + (h.vaddr % W)
    BY <1>1, Division
  <2>2. W * k + 0 = W * k
    BY <1>1, <2>1
  <2>3. QED
    BY <2>1, <2>2
<1>3. m \in Nat /\ h.memsz <= W * m
  <2> DEFINE x == h.memsz + W - 1
  <2>1. x \in Nat
    BY <1>1
  <2>2. x \div W \in Nat /\ x % W \in 0..W - 1 /\ x = W * (x \div W) + (x % W)
    BY <1>1, <2>1, Division
  <2>3. m = x \div W
    BY DEF PageCount
  <2> DEFINE t == W * m
             r == x % W
  <2>4. t \in Nat /\ r \in 0..W - 1 /\ h.memsz + W - 1 = t + r
    BY <1>1, <2>2, <2>3
  <2> HIDE DEF t, r, m
  <2>5. h.memsz <= t
    BY <1>1, <2>4
  <2>6. QED
    BY <2>2, <2>3, <2>5 DEF t
<1>4. h.vaddr <= page * W /\ page * W < h.vaddr + h.memsz
  BY DEF Covers
<1> HIDE DEF k, m
<1>5. k <= page
  <2>1. k * W <= page * W
    BY <1>1, <1>2, <1>4
  <2>2. QED
    BY <1>1, <1>2, <2>1, ProductsInOrder
<1>6. page < k + m
  <2>1. (k + m) * W = W * k + W * m
    BY <1>1, <1>2, <1>3
  <2> DEFINE u == W * k
             v == W * m
             x == page * W
  <2>2. u \in Nat /\ v \in Nat /\ x \in Nat
    BY <1>1, <1>2, <1>3
  <2>3. x < u + h.memsz /\ h.memsz <= v
    BY <1>2, <1>3, <1>4
  <2>4. x < u + v
    <3> HIDE DEF u, v, x
    <3>1. QED
      BY <1>1, <2>2, <2>3
  <2>5. page * W < (k + m) * W /\ k + m \in Nat
    BY <1>2, <1>3, <2>1, <2>4
  <2>6. QED
    BY <1>1, <2>5, ProductsInOrder
<1>7. page - k + 1 \in 1..m
  BY <1>2, <1>3, <1>5, <1>6
<1>8. PagesOf(h)[page - k + 1] = page
  <2>1. PagesOf(h)[page - k + 1] = k + (page - k + 1) - 1
    BY <1>7, PagesAreNumbers DEF k, m
  <2>2. QED
    BY <1>2, <2>1
<1>9. QED
  BY <1>7, <1>8, PagesAsSet DEF m

\* What a page of an ELF file should hold is what its owner's place in the file gives it.
LEMMA ElfPageIs ==
    ASSUME NEW file \in ElfFileType, NEW p \in ElfPages(file),
           \A h \in ToSet(LoadHeaders(file)) : h \in ProgramHeaders /\ h.vaddr % PageWords = 0
    PROVE  \E h \in ToSet(LoadHeaders(file)) : \E i \in 1..PageCount(h) :
             /\ PagesOf(h)[i] = p
             /\ [w \in 1..PageWords |-> ElfWord(file, p * PageWords + w - 1)] =
                  PageWordsOf(file, h, i)
<1> DEFINE hs == ToSet(LoadHeaders(file))
           W == PageWords
           Owns(h) == p \in ToSet(PagesOf(h))
           o == CHOOSE h \in hs : Owns(h)
<1>1. o \in hs /\ p \in ToSet(PagesOf(o))
  <2>1. \E h \in hs : Owns(h)
    BY DEF ElfPages
  <2>2. QED
    BY <2>1
<1> HIDE DEF o
<1>2. o \in ProgramHeaders /\ o.vaddr % W = 0 /\ W \in Nat \ {0}
  BY <1>1, SpaceNumbers
<1>3. PICK i \in 1..PageCount(o) : PagesOf(o)[i] = p
  BY <1>1, <1>2, PagesAsSet
<1> DEFINE k == o.vaddr \div W
<1>4. k \in Nat /\ o.vaddr = W * k
  <2>1. o.vaddr \in Nat
    BY <1>2 DEF ProgramHeaders
  <2>2. k \in Nat /\ o.vaddr = W * k + (o.vaddr % W)
    BY <1>2, <2>1, Division
  <2>3. QED
    BY <1>2, <2>2
<1>5. PageCount(o) \in Nat /\ p = k + i - 1 /\ p \in Nat
  BY <1>2, <1>3, PagesAreNumbers
<1>6. ASSUME NEW w \in 1..W
      PROVE  ElfWord(file, p * W + w - 1) =
               IF w <= o.filesz - (i - 1) * W THEN file.words[o.offset + (i - 1) * W + w] ELSE 0
  <2> DEFINE a == p * W + w - 1
             m == (i - 1) * W
             at == a - o.vaddr
  <2>1. a = p * W + (w - 1) /\ w - 1 \in 0..W - 1
    <3>1. p * W \in Nat /\ w \in Nat
      BY <1>2, <1>5
    <3>2. QED
      BY <1>2, <3>1
  <2>2. a \div W = p
    BY <1>2, <1>5, <2>1, PageOfAddress
  <2>3. ElfWord(file, a) =
          IF a - o.vaddr < o.filesz THEN file.words[o.offset + (a - o.vaddr) + 1] ELSE 0
    <3>1. (CHOOSE h \in hs : a \div W \in ToSet(PagesOf(h))) = o
      BY <2>2 DEF o
    <3> HIDE DEF a
    <3>2. ElfWord(file, a) =
            LET owner == CHOOSE h \in hs : a \div W \in ToSet(PagesOf(h))
            IN IF a - owner.vaddr < owner.filesz
               THEN file.words[owner.offset + (a - owner.vaddr) + 1] ELSE 0
      BY DEF ElfWord
    <3>3. QED
      BY <3>1, <3>2
  <2>4. m \in Nat /\ at = m + w - 1
    <3>1. i - 1 \in Nat
      BY <1>5
    <3>2. p * W = W * k + (i - 1) * W
      <4>1. p = k + (i - 1)
        BY <1>4, <1>5
      <4>2. (k + (i - 1)) * W = W * k + (i - 1) * W
        BY <1>2, <1>4, <3>1
      <4>3. QED
        BY <4>1, <4>2
    <3>3. m \in Nat /\ W * k \in Nat
      BY <1>2, <1>4, <3>1
    <3>4. QED
      BY <1>2, <1>4, <1>5, <3>2, <3>3
  <2>5. o.filesz \in Nat /\ o.offset \in Nat
    BY <1>2 DEF ProgramHeaders
  <2> DEFINE z == o.filesz
             f == o.offset
  <2> HIDE DEF at, m, z, f
  <2>6. (at < z <=> w <= z - m) /\ f + at + 1 = f + m + w
    BY <1>2, <2>4, <2>5 DEF z, f
  <2>7. QED
    BY <2>3, <2>6 DEF at, m, z, f
<1>7. [w \in 1..W |-> ElfWord(file, p * W + w - 1)] = PageWordsOf(file, o, i)
  BY <1>6 DEF PageWordsOf
<1>8. QED
  BY <1>1, <1>3, <1>7

LEMMA ElfIsRight ==
    ASSUME Frames, NEW file \in ElfFileType, Accepted(file)
    PROVE  Right(FromElf(file), ElfExpected(file))
<1> DEFINE headers == LoadHeaders(file)
           n == Len(headers)
           sees == ElfExpected(file)
           c == PutSegments(NewBuild, file)
           b == PutAll(c, StackAndHeap)
           Words(p) == [w \in 1..PageWords |-> ElfWord(file, p * PageWords + w - 1)]
<1>1. nextFrame \in Nat
  BY SpaceNumbers DEF Frames
<1>2. headers \in Seq(ProgramHeaders) /\ n \in Nat /\ ToSet(headers) = {headers[j] : j \in 1..n}
  BY HeadersAreHeaders, LenProperties DEF ToSet
<1>3. ASSUME NEW h \in ToSet(headers)
      PROVE  h \in ProgramHeaders /\ InFile(file, h) /\ h.vaddr % PageWords = 0
  <2>1. h \in ProgramHeaders
    BY <1>2, ElementOfSeq
  <2>2. InFile(file, h)
    BY DEF Accepted, Parses
  <2>3. h.vaddr % PageWords = 0
    BY DEF Accepted, BadShape
  <2>4. QED
    BY <2>1, <2>2, <2>3
<1>4. Apart(c) /\ HasSegments(c, file, n)
  <2>1. Apart(NewBuild) /\ NewBuild.table = NoPages
    BY NewBuildIsApart
  <2>2. \A i \in 1..Len(LoadHeaders(file)) : InFile(file, LoadHeaders(file)[i])
    BY <1>2, <1>3
  <2>3. QED
    BY <1>1, <2>1, <2>2, PutSegmentsKeeps
<1>5. Apart(b) /\ HasAdded(c, b, StackAndHeap, HeapCount + 1)
  BY <1>1, <1>4, PutAllKeeps, StackAndHeapPages
<1>6. ElfPages(file) = UNION {ToSet(PagesOf(headers[j])) : j \in 1..n}
  BY <1>2 DEF ElfPages
<1>7. ElfPages(file) \subseteq Nat
  <2>1. ASSUME NEW h \in ToSet(headers) PROVE ToSet(PagesOf(h)) \subseteq Nat
    BY <1>3, PagesAreNumbers, PagesAsSet
  <2>2. QED
    BY <2>1 DEF ElfPages
<1>8. CodePage \in ElfPages(file)
  <2>1. PICK h \in ToSet(headers) : Covers(h, CodePage * PageWords)
    BY DEF Accepted, EntryAddress
  <2>2. CodePage \in ToSet(PagesOf(h))
    BY <1>3, <2>1, CoveredPage, SpaceNumbers
  <2>3. QED
    BY <2>2 DEF ElfPages
<1>9. ASSUME NEW p \in ElfPages(file)
      PROVE  /\ Words(p) \in PageContents
             /\ c.ok => p \in DOMAIN c.table /\ At(c, p) = Words(p)
  <2>1. PICK h \in ToSet(headers) : \E i \in 1..PageCount(h) :
               PagesOf(h)[i] = p /\ Words(p) = PageWordsOf(file, h, i)
    BY <1>3, ElfPageIs
  <2>2. PICK i \in 1..PageCount(h) : PagesOf(h)[i] = p /\ Words(p) = PageWordsOf(file, h, i)
    BY <2>1
  <2>3. Words(p) \in PageContents
    <3>1. SegmentPages(file, h) \in PageLists /\ Len(SegmentPages(file, h)) = PageCount(h)
      BY <1>3, SegmentPagesAre
    <3>2. SegmentPages(file, h)[i] \in [page : Nat, words : PageContents]
      BY <3>1, ElementOfSeq DEF PageLists
    <3>3. SegmentPages(file, h)[i].words = PageWordsOf(file, h, i)
      BY DEF SegmentPages
    <3>4. QED
      BY <2>2, <3>2, <3>3
  <2>4. PICK j \in 1..n : h = headers[j]
    BY <1>2
  <2>5. ASSUME c.ok PROVE p \in DOMAIN c.table /\ At(c, p) = Words(p)
    <3>1. DOMAIN c.table = ElfPages(file)
      BY <1>4, <1>6, <2>5 DEF HasSegments
    <3>2. At(c, PagesOf(headers[j])[i]) = PageWordsOf(file, headers[j], i)
      BY <1>4, <2>4, <2>5 DEF HasSegments
    <3>3. QED
      BY <2>2, <2>4, <3>1, <3>2
  <2>6. QED
    BY <2>3, <2>5
<1> HIDE DEF Words
<1> DEFINE D == ElfPages(file) \cup {StackPage} \cup HeapPages
<1>10. sees = [p \in D |-> IF p \in ElfPages(file) THEN Words(p)
                           ELSE IF p = StackPage THEN AsFound ELSE Zeros]
  BY DEF ElfExpected, Words
<1>11. sees \in Views /\ DOMAIN sees = D
  <2>1. D \in SUBSET Nat
    BY <1>7, SpaceNumbers
  <2>2. sees \in [D -> PageContents]
    BY <1>9, <1>10, ContentsAre
  <2>3. QED
    BY <2>1, <2>2 DEF Views
<1>12. KnownPages \subseteq DOMAIN sees
  BY <1>8, <1>11 DEF KnownPages
<1> HIDE DEF b, c, sees
<1>13. ASSUME b.ok
       PROVE  DOMAIN b.table = DOMAIN sees /\ \A p \in DOMAIN sees : At(b, p) = sees[p]
  <2>1. /\ c.ok /\ DOMAIN b.table = DOMAIN c.table \cup {StackPage} \cup HeapPages
        /\ \A p \in DOMAIN c.table : At(b, p) = At(c, p)
        /\ \A i \in 1..HeapCount + 1 : /\ StackAndHeap[i].page \notin DOMAIN c.table
                                      /\ At(b, StackAndHeap[i].page) = StackAndHeap[i].words
    BY <1>5, <1>13, StackAndHeapPages DEF HasAdded
  <2>2. DOMAIN c.table = ElfPages(file)
    BY <1>4, <1>6, <2>1 DEF HasSegments
  <2>3. \A p \in ElfPages(file) : At(b, p) = sees[p]
    BY <1>9, <1>10, <2>1
  <2>4. At(b, StackPage) = sees[StackPage]
    <3>1. 1 \in 1..HeapCount + 1
      BY SpaceNumbers
    <3>2. StackPage \notin ElfPages(file) /\ At(b, StackPage) = AsFound
      BY <2>1, <2>2, <3>1, StackAndHeapPages
    <3>3. QED
      BY <1>10, <3>2
  <2>5. ASSUME NEW p \in HeapPages PROVE At(b, p) = sees[p]
    <3>1. PICK i \in 1..HeapCount + 1 : StackAndHeap[i] = [page |-> p, words |-> Zeros]
      BY StackAndHeapPages
    <3>2. p \notin ElfPages(file) /\ At(b, p) = Zeros
      <4>1. StackAndHeap[i].page = p /\ StackAndHeap[i].words = Zeros
        BY <3>1
      <4>2. QED
        BY <2>1, <2>2, <4>1
    <3>3. p # StackPage
      BY SpaceNumbers
    <3>4. QED
      BY <1>10, <3>2, <3>3
  <2>6. QED
    BY <1>11, <2>1, <2>2, <2>3, <2>4, <2>5
<1>14. QED
  BY <1>5, <1>11, <1>12, <1>13 DEF Right, FromElf, b, c, sees

-----------------------------------------------------------------------------
(* The invariant.                                                          *)

\* A process that is there has its known pages, and every page a frame of its own.
Mapped ==
    /\ \A s \in Slots : DOMAIN pages[s] # {} => KnownPages \subseteq DOMAIN pages[s]
    /\ \A s \in Slots : \A p \in DOMAIN pages[s] : pages[s][p] \in 1..nextFrame
    /\ \A s, t \in Slots : \A p \in DOMAIN pages[s], q \in DOMAIN pages[t] :
         pages[s][p] = pages[t][q] => s = t /\ p = q

\* Who runs is there, and only a child runs above another process.
Runs ==
    running # <<>> =>
      \E s \in {Boot, Loaded} :
        /\ pages[s] # NoPages
        /\ running = <<s>> \/ (running = <<s, Child>> /\ pages[Child] # NoPages)

SpaceInv ==
    /\ Frames /\ pages \in [Slots -> Tables] /\ expected \in [Slots -> Views] /\ stores \in Nat
    /\ Mapped /\ Runs /\ MemoryIsPrivate

LEMMA KnownAreThree ==
    /\ KnownPages \subseteq Nat /\ CodePage \in KnownPages /\ StackPage \in KnownPages
    /\ NoPages \in Tables /\ NoPages \in Views /\ DOMAIN NoPages = {}
<1>1. KnownPages \subseteq Nat /\ CodePage \in KnownPages /\ StackPage \in KnownPages
  BY SpaceNumbers DEF KnownPages
<1>2. DOMAIN NoPages = {} /\ NoPages \in [{} -> 1..NFrames] /\ NoPages \in [{} -> PageContents]
  BY DEF NoPages
<1>3. QED
  BY <1>1, <1>2 DEF Tables, Views

LEMMA IsThere ==
    ASSUME NEW t \in Tables
    PROVE  t = NoPages <=> DOMAIN t = {}
<1>1. ASSUME DOMAIN t = {} PROVE t = NoPages
  <2>1. t \in [{} -> 1..NFrames] /\ NoPages \in [{} -> 1..NFrames]
    BY <1>1, TablesAre DEF NoPages
  <2>2. QED
    BY <2>1
<1>2. QED
  BY <1>1, KnownAreThree

\* What the frames and tables of the other processes have to do with a build: nothing.
LEMMA FramesTakenKeeps ==
    ASSUME SpaceInv, NEW b, Apart(b), nextFrame' = b.next, mem' = b.mem,
           UNCHANGED <<pages, expected>>
    PROVE  Frames' /\ Mapped' /\ MemoryIsPrivate'
<1>1. /\ Frames /\ Mapped /\ MemoryIsPrivate /\ nextFrame <= b.next
      /\ b \in Builds /\ \A f \in 1..nextFrame : b.mem[f] = mem[f]
  BY DEF SpaceInv, Apart
<1>2. nextFrame \in 0..NFrames /\ nextFrame' \in 0..NFrames /\ NFrames \in Nat /\ mem' \in Memories
  BY <1>1, SpaceNumbers DEF Frames, Builds
<1>3. \A f \in 1..nextFrame : f \in 1..nextFrame' /\ mem'[f] = mem[f]
  BY <1>1, <1>2
<1>4. QED
  BY <1>1, <1>2, <1>3 DEF Frames, Mapped, MemoryIsPrivate

LEMMA InstallKeeps ==
    ASSUME SpaceInv, NEW s \in Slots, NEW b, NEW sees, Right(b, sees), Install(s, b, sees)
    PROVE  /\ Frames' /\ Mapped' /\ MemoryIsPrivate'
           /\ pages' \in [Slots -> Tables] /\ expected' \in [Slots -> Views]
           /\ \A t \in Slots : pages[t] # NoPages => pages'[t] # NoPages
           /\ b.ok => pages'[s] # NoPages
<1>1. /\ Frames /\ Mapped /\ MemoryIsPrivate
      /\ pages \in [Slots -> Tables] /\ expected \in [Slots -> Views]
  BY DEF SpaceInv
<1>2. Apart(b) /\ sees \in Views /\ KnownPages \subseteq DOMAIN sees
  BY DEF Right
<1>3. nextFrame' = b.next /\ mem' = b.mem
  BY DEF Install
<1>4. CASE ~b.ok
  <2>1. UNCHANGED <<pages, expected>>
    BY <1>4 DEF Install
  <2>2. Frames' /\ Mapped' /\ MemoryIsPrivate'
    BY <1>2, <1>3, <2>1, FramesTakenKeeps
  <2>3. QED
    BY <1>1, <1>4, <2>1, <2>2
<1>5. CASE b.ok
  <2>1. pages' = [pages EXCEPT ![s] = b.table] /\ expected' = [expected EXCEPT ![s] = sees]
    BY <1>5 DEF Install
  <2>2. /\ nextFrame <= b.next /\ b \in Builds /\ \A f \in 1..nextFrame : b.mem[f] = mem[f]
        /\ \A p \in DOMAIN b.table : b.table[p] \in nextFrame + 1..b.next
        /\ \A p, q \in DOMAIN b.table : b.table[p] = b.table[q] => p = q
    BY <1>2 DEF Apart
  <2>3. DOMAIN b.table = DOMAIN sees /\ \A p \in DOMAIN sees : b.mem[b.table[p]] = sees[p]
    BY <1>5 DEF Right, At
  <2>4. /\ nextFrame \in 0..NFrames /\ nextFrame' \in 0..NFrames /\ NFrames \in Nat
        /\ mem' \in Memories /\ b.table \in Tables
    BY <1>1, <1>3, <2>2, SpaceNumbers DEF Frames, Builds
  <2>5. /\ pages' \in [Slots -> Tables] /\ expected' \in [Slots -> Views]
        /\ pages'[s] = b.table /\ expected'[s] = sees
        /\ \A t \in Slots : t # s => pages'[t] = pages[t] /\ expected'[t] = expected[t]
    BY <1>1, <1>2, <2>1, <2>4
  <2>6. pages'[s] # NoPages
    BY <1>2, <2>3, <2>5, KnownAreThree
  <2>7. Mapped'
    <3>1. ASSUME NEW t \in Slots
          PROVE  /\ DOMAIN pages'[t] # {} => KnownPages \subseteq DOMAIN pages'[t]
                 /\ \A p \in DOMAIN pages'[t] : pages'[t][p] \in 1..nextFrame'
      <4>1. CASE t = s
        BY <1>2, <1>3, <2>2, <2>3, <2>4, <2>5, <4>1
      <4>2. CASE t # s
        <5>1. \A p \in DOMAIN pages[t] : pages[t][p] \in 1..nextFrame
          BY <1>1 DEF Mapped
        <5>2. \A g \in 1..nextFrame : g \in 1..nextFrame'
          BY <1>3, <2>2, <2>4
        <5>3. QED
          BY <1>1, <2>5, <4>2, <5>1, <5>2 DEF Mapped
      <4>3. QED
        BY <4>1, <4>2
    <3>2. ASSUME NEW t \in Slots, NEW u \in Slots, NEW p \in DOMAIN pages'[t],
                 NEW q \in DOMAIN pages'[u], pages'[t][p] = pages'[u][q]
          PROVE  t = u /\ p = q
      <4>1. \A v \in Slots \ {s} : \A r \in DOMAIN pages[v] :
              pages'[v][r] \in 1..nextFrame
        BY <1>1, <2>5 DEF Mapped
      <4>2. \A r \in DOMAIN pages'[s] : pages'[s][r] \in nextFrame + 1..b.next
        BY <2>2, <2>5
      <4>3. \A g \in 1..nextFrame : g \notin nextFrame + 1..b.next
        BY <1>3, <2>4
      <4>4. CASE t = s /\ u = s
        BY <2>2, <2>5, <3>2, <4>4
      <4>5. CASE t # s /\ u # s
        BY <1>1, <2>5, <3>2, <4>5 DEF Mapped
      <4>6. CASE t = s /\ u # s
        BY <2>5, <3>2, <4>1, <4>2, <4>3, <4>6
      <4>7. CASE t # s /\ u = s
        BY <2>5, <3>2, <4>1, <4>2, <4>3, <4>7
      <4>8. QED
        BY <4>4, <4>5, <4>6, <4>7
    <3>3. QED
      BY <3>1, <3>2 DEF Mapped
  <2>8. MemoryIsPrivate'
    <3>1. ASSUME NEW t \in Slots
          PROVE  /\ DOMAIN pages'[t] = DOMAIN expected'[t]
                 /\ \A p \in DOMAIN pages'[t] : mem'[pages'[t][p]] = expected'[t][p]
      <4>1. CASE t = s
        BY <1>3, <2>3, <2>5, <4>1
      <4>2. CASE t # s
        <5>1. \A p \in DOMAIN pages[t] : pages[t][p] \in 1..nextFrame
          BY <1>1 DEF Mapped
        <5>2. QED
          BY <1>1, <1>3, <2>2, <2>5, <4>2, <5>1 DEF MemoryIsPrivate
      <4>3. QED
        BY <4>1, <4>2
    <3>2. QED
      BY <3>1 DEF MemoryIsPrivate
  <2>9. QED
    BY <2>4, <2>5, <2>6, <2>7, <2>8 DEF Frames
<1>6. CASE b.ok \notin BOOLEAN
  BY <1>2, <1>6 DEF Apart, Builds
<1>7. QED
  BY <1>4, <1>5, <1>6

\* A child starts with what its parent sees.
LEMMA ForkIsRight ==
    ASSUME SpaceInv, NEW s \in Slots, pages[s] # NoPages
    PROVE  Right(ForkBuild(s), [p \in KnownPages |-> expected[s][p]])
<1> DEFINE code == mem[pages[s][CodePage]]
           build == FromImage(code)
           table == pages[s]
           Copied == {StackPage} \cup HeapPages
           sees == [p \in KnownPages |-> expected[s][p]]
<1>1. /\ Frames /\ Mapped /\ MemoryIsPrivate
      /\ table \in Tables /\ expected[s] \in Views
  BY DEF SpaceInv
<1>2. KnownPages \subseteq DOMAIN table
  BY <1>1, IsThere DEF Mapped
<1>3. /\ nextFrame \in 0..NFrames /\ NFrames \in Nat /\ mem \in Memories
      /\ \A p \in KnownPages : table[p] \in 1..nextFrame /\ expected[s][p] = mem[table[p]]
  BY <1>1, <1>2, SpaceNumbers DEF Frames, Mapped, MemoryIsPrivate
<1>4. \A p \in KnownPages : mem[table[p]] \in PageContents
  <2>1. \A f \in 1..nextFrame : mem[f] \in PageContents
    BY <1>3 DEF Memories
  <2>2. QED
    BY <1>3, <2>1
<1>5. code \in Seq(Nat) /\ Len(code) = PageWords /\ Padded(code) = code
  <2>1. code \in PageContents
    BY <1>4, KnownAreThree
  <2> HIDE DEF code
  <2>2. code \in Seq(Nat) /\ Len(code) = PageWords
    BY <2>1, FunctionIsSeq, SpaceNumbers DEF PageContents
  <2>3. Padded(code) = [i \in 1..PageWords |-> code[i]]
    BY <2>2, SpaceNumbers DEF Padded
  <2>4. code = [i \in 1..PageWords |-> code[i]]
    BY <2>1 DEF PageContents
  <2>5. QED
    BY <2>2, <2>3, <2>4
<1>6. sees \in Views /\ DOMAIN sees = KnownPages /\ KnownPages \subseteq Nat
  <2>1. sees \in [KnownPages -> PageContents]
    BY <1>3, <1>4
  <2>2. QED
    BY <2>1, KnownAreThree DEF Views
<1>7. Right(build, ImageExpected(code))
  BY <1>1, <1>5, ImageIsRight
<1>8. ForkBuild(s) = IF build.ok THEN CopyKnown(build, table) ELSE build
  BY DEF ForkBuild
<1>9. Apart(build)
  BY <1>7 DEF Right
<1>10. CASE ~build.ok
  BY <1>6, <1>8, <1>9, <1>10 DEF Right
<1>11. CASE build.ok
  <2> DEFINE c == CopyKnown(build, table)
             Of(f) == CHOOSE p \in Copied : build.table[p] = f
             Mem == [f \in 1..NFrames |-> IF \E p \in Copied : build.table[p] = f
                                          THEN mem[table[Of(f)]] ELSE build.mem[f]]
  <2>1. /\ DOMAIN build.table = KnownPages /\ build.mem[build.table[CodePage]] = code
        /\ build \in Builds /\ nextFrame <= build.next
        /\ \A f \in 1..nextFrame : build.mem[f] = mem[f]
        /\ \A p \in KnownPages : build.table[p] \in nextFrame + 1..build.next
        /\ \A p, q \in KnownPages : build.table[p] = build.table[q] => p = q
    <3>1. DOMAIN ImageExpected(code) = KnownPages
      BY DEF ImageExpected
    <3> HIDE DEF build, code
    <3>2. ImageExpected(code)[CodePage] = code
      <4>1. CodePage \in KnownPages
        BY KnownAreThree
      <4>2. ImageExpected(code)[CodePage] = Padded(code)
        BY <4>1, SpaceNumbers DEF ImageExpected
      <4>3. QED
        BY <1>5, <4>2
    <3>3. DOMAIN build.table = KnownPages /\ At(build, CodePage) = code
      BY <1>7, <1>11, <3>1, <3>2, KnownAreThree DEF Right
    <3>4. QED
      BY <1>9, <3>3 DEF Apart, At
  <2> HIDE DEF build, code, table
  <2>2. build.next \in 0..NFrames /\ build.mem \in Memories /\ build.table \in Tables
    BY <2>1 DEF Builds
  <2>3. DOMAIN build.mem = 1..NFrames
    BY <2>2 DEF Memories
  <2>4. c = [next |-> build.next, mem |-> Mem, table |-> build.table, ok |-> TRUE]
    <3>1. c = [build EXCEPT !.mem = Mem]
      BY <2>3 DEF CopyKnown
    <3>2. build = [next |-> build.next, mem |-> build.mem, table |-> build.table, ok |-> build.ok]
      BY <2>1 DEF Builds
    <3> HIDE DEF Mem, c
    <3>3. QED
      BY <1>11, <3>1, <3>2
  <2>5. Copied \subseteq KnownPages /\ KnownPages = {CodePage} \cup Copied /\ CodePage \notin Copied
    BY SpaceNumbers DEF KnownPages
  <2>6. ASSUME NEW f, \E p \in Copied : build.table[p] = f
        PROVE  Of(f) \in Copied /\ build.table[Of(f)] = f
    BY <2>6
  <2>7. \A p \in Copied : Of(build.table[p]) = p
    BY <2>1, <2>5, <2>6
  <2> HIDE DEF Of, Copied
  <2>8. Mem \in Memories
    <3>1. ASSUME NEW f \in 1..NFrames
          PROVE  (IF \E p \in Copied : build.table[p] = f
                  THEN mem[table[Of(f)]] ELSE build.mem[f]) \in PageContents
      <4>1. build.mem[f] \in PageContents
        BY <2>2 DEF Memories
      <4>2. (\E p \in Copied : build.table[p] = f) => mem[table[Of(f)]] \in PageContents
        BY <1>4, <2>5, <2>6
      <4>3. QED
        BY <4>1, <4>2
    <3>2. QED
      BY <3>1 DEF Memories
  <2>9. \A p \in KnownPages : build.table[p] \in 1..NFrames /\ build.table[p] \notin 1..nextFrame
    BY <1>3, <2>1, <2>2
  <2>10. \A f \in 1..nextFrame : Mem[f] = mem[f]
    <3>1. \A f \in 1..nextFrame : f \in 1..NFrames /\ ~\E p \in Copied : build.table[p] = f
      BY <1>3, <2>5, <2>9
    <3>2. QED
      BY <2>1, <3>1
  <2>11. \A p \in KnownPages : Mem[build.table[p]] = expected[s][p]
    <3>1. ASSUME NEW p \in Copied PROVE Mem[build.table[p]] = expected[s][p]
      <4>1. Mem[build.table[p]] = mem[table[Of(build.table[p])]]
        BY <2>5, <2>9
      <4>2. QED
        BY <1>3, <2>5, <2>7, <4>1
    <3>2. Mem[build.table[CodePage]] = expected[s][CodePage]
      <4>1. ~\E p \in Copied : build.table[p] = build.table[CodePage]
        BY <2>1, <2>5
      <4>2. Mem[build.table[CodePage]] = build.mem[build.table[CodePage]]
        BY <2>5, <2>9, <4>1
      <4>3. QED
        BY <1>3, <2>1, <2>5, <4>2 DEF code, table
    <3>3. QED
      BY <2>5, <3>1, <3>2
  <2> HIDE DEF Mem, c
  <2>12. Apart(c)
    <3>1. c \in Builds /\ c.next = build.next /\ c.mem = Mem /\ c.table = build.table
      BY <2>2, <2>4, <2>8 DEF Builds
    <3>2. QED
      BY <2>1, <2>10, <3>1 DEF Apart
  <2>13. \A p \in KnownPages : At(c, p) = sees[p]
    BY <2>4, <2>11 DEF At
  <2>14. Right(c, sees)
    <3>1. DOMAIN c.table = KnownPages
      BY <2>1, <2>4
    <3> HIDE DEF sees
    <3>2. QED
      BY <1>6, <2>12, <2>13, <3>1 DEF Right
  <2>15. QED
    BY <1>8, <1>11, <2>14 DEF c
<1>12. QED
  BY <1>10, <1>11

-----------------------------------------------------------------------------
(* The steps.                                                              *)

LEMMA RunnerIsThere ==
    ASSUME SpaceInv, running # <<>>
    PROVE  /\ Runner \in Slots /\ pages[Runner] # NoPages
           /\ KnownPages \subseteq DOMAIN pages[Runner]
           /\ Len(running) = 1 => Runner \in {Boot, Loaded} /\ running = <<Runner>>
           /\ Len(running) # 1 => Runner = Child /\ \E s \in {Boot, Loaded} :
                pages[s] # NoPages /\ running = <<s, Child>>
<1>1. PICK s \in {Boot, Loaded} :
        /\ pages[s] # NoPages
        /\ running = <<s>> \/ (running = <<s, Child>> /\ pages[Child] # NoPages)
  BY DEF SpaceInv, Runs
<1>2. CASE running = <<s>>
  <2>1. Len(running) = 1 /\ Runner = s
    BY <1>2 DEF Runner
  <2>2. s \in Slots
    BY DEF Slots
  <2>3. KnownPages \subseteq DOMAIN pages[s]
    BY <1>1, <2>2, IsThere DEF SpaceInv, Mapped
  <2>4. QED
    BY <1>1, <1>2, <2>1, <2>2, <2>3
<1>3. CASE running = <<s, Child>> /\ pages[Child] # NoPages
  <2>1. Len(running) = 2 /\ Runner = Child
    BY <1>3 DEF Runner
  <2>2. Child \in Slots
    BY DEF Slots
  <2>3. KnownPages \subseteq DOMAIN pages[Child]
    BY <1>3, <2>2, IsThere DEF SpaceInv, Mapped
  <2>4. QED
    BY <1>1, <1>3, <2>1, <2>2, <2>3
<1>4. QED
  BY <1>1, <1>2, <1>3

LEMMA SlotsDiffer == Boot # Child /\ Loaded # Child /\ {Boot, Loaded, Child} = Slots
BY DEF Boot, Loaded, Child, Slots

\* A word or a page of the program that runs is changed, and nobody else's.
LEMMA WrittenKeeps ==
    ASSUME SpaceInv, NEW s \in Slots, NEW p \in DOMAIN pages[s], NEW c \in PageContents,
           mem' = [mem EXCEPT ![pages[s][p]] = c],
           expected' = [expected EXCEPT ![s][p] = c],
           UNCHANGED <<nextFrame, pages>>
    PROVE  Frames' /\ Mapped' /\ MemoryIsPrivate' /\ expected' \in [Slots -> Views]
<1> DEFINE f == pages[s][p]
<1>1. /\ Frames /\ Mapped /\ MemoryIsPrivate
      /\ pages \in [Slots -> Tables] /\ expected \in [Slots -> Views]
  BY DEF SpaceInv
<1>2. nextFrame \in 0..NFrames /\ mem \in Memories /\ f \in 1..nextFrame /\ f \in 1..NFrames
  BY <1>1, SpaceNumbers DEF Frames, Mapped
<1>3. mem' \in Memories /\ mem'[f] = c /\ \A g \in 1..NFrames : g # f => mem'[g] = mem[g]
  BY <1>2 DEF Memories
<1>4. p \in DOMAIN expected[s]
  BY <1>1 DEF MemoryIsPrivate
<1>5. /\ expected' \in [Slots -> Views] /\ expected'[s][p] = c
      /\ DOMAIN expected'[s] = DOMAIN expected[s]
      /\ \A q \in DOMAIN expected[s] : q # p => expected'[s][q] = expected[s][q]
      /\ \A t \in Slots : t # s => expected'[t] = expected[t]
  <2>1. PICK D \in SUBSET Nat : expected[s] \in [D -> PageContents]
    BY <1>1 DEF Views
  <2>2. [expected[s] EXCEPT ![p] = c] \in [D -> PageContents]
    BY <2>1
  <2>3. [expected[s] EXCEPT ![p] = c] \in Views
    BY <2>2 DEF Views
  <2>4. expected' = [expected EXCEPT ![s] = [expected[s] EXCEPT ![p] = c]]
    BY <1>1
  <2>5. QED
    BY <1>1, <1>4, <2>1, <2>3, <2>4
<1>6. Frames' /\ Mapped'
  BY <1>1, <1>3 DEF Frames, Mapped
<1>7. MemoryIsPrivate'
  <2>1. ASSUME NEW t \in Slots
        PROVE  /\ DOMAIN pages[t] = DOMAIN expected'[t]
               /\ \A q \in DOMAIN pages[t] : mem'[pages[t][q]] = expected'[t][q]
    <3>1. DOMAIN pages[t] = DOMAIN expected[t]
      BY <1>1 DEF MemoryIsPrivate
    <3>2. DOMAIN pages[t] = DOMAIN expected'[t]
      BY <1>5, <3>1
    <3>3. ASSUME NEW q \in DOMAIN pages[t] PROVE mem'[pages[t][q]] = expected'[t][q]
      <4>1. CASE t = s /\ q = p
        BY <1>3, <1>5, <4>1
      <4>2. CASE ~(t = s /\ q = p)
        <5>1. pages[t][q] # f /\ pages[t][q] \in 1..nextFrame
          BY <1>1, <4>2 DEF Mapped
        <5>2. pages[t][q] \in 1..NFrames
          BY <1>2, <5>1, SpaceNumbers
        <5>3. mem'[pages[t][q]] = expected[t][q]
          BY <1>1, <1>3, <5>1, <5>2 DEF MemoryIsPrivate
        <5>4. expected'[t][q] = expected[t][q]
          BY <1>5, <3>1, <4>2
        <5>5. QED
          BY <5>3, <5>4
      <4>3. QED
        BY <4>1, <4>2
    <3>4. QED
      BY <3>2, <3>3
  <2>2. QED
    BY <2>1 DEF MemoryIsPrivate
<1>8. QED
  BY <1>5, <1>6, <1>7

LEMMA StoreKeeps ==
    ASSUME SpaceInv, NEW page, NEW w \in 1..PageWords, Store(page, w)
    PROVE  SpaceInv'
<1> DEFINE s == Runner
           c == [mem[pages[s][page]] EXCEPT ![w] = 50 + stores']
<1>1. /\ running # <<>> /\ page \in DOMAIN pages[s]
      /\ stores' = stores + 1
      /\ mem' = [mem EXCEPT ![pages[s][page]][w] = 50 + stores']
      /\ expected' = [expected EXCEPT ![s][page][w] = 50 + stores']
      /\ UNCHANGED <<nextFrame, pages, running>>
  BY DEF Store, InProgram
<1>2. /\ Frames /\ Mapped /\ MemoryIsPrivate /\ s \in Slots
      /\ pages \in [Slots -> Tables] /\ expected \in [Slots -> Views] /\ stores \in Nat
  BY <1>1, RunnerIsThere DEF SpaceInv
<1> HIDE DEF s
<1>3. mem \in Memories /\ pages[s][page] \in 1..NFrames
  BY <1>1, <1>2, SpaceNumbers DEF Frames, Mapped
<1>4. c \in PageContents /\ mem' = [mem EXCEPT ![pages[s][page]] = c]
  <2>1. mem[pages[s][page]] \in PageContents /\ 50 + stores' \in Nat
    BY <1>1, <1>2, <1>3 DEF Memories
  <2>2. c \in PageContents
    BY <2>1 DEF PageContents
  <2>3. mem' = [mem EXCEPT ![pages[s][page]] = c]
    BY <1>1, <1>3 DEF Memories
  <2>4. QED
    BY <2>2, <2>3
<1>5. expected' = [expected EXCEPT ![s][page] = c]
  <2>1. page \in DOMAIN expected[s] /\ expected[s][page] = mem[pages[s][page]]
    BY <1>1, <1>2 DEF MemoryIsPrivate
  <2>2. QED
    BY <1>1, <1>2, <2>1
<1> HIDE DEF c
<1>6. UNCHANGED <<nextFrame, pages>> /\ page \in DOMAIN pages[s] /\ s \in Slots
  BY <1>1, <1>2
<1>7. mem' = [mem EXCEPT ![pages[s][page]] = c] /\ c \in PageContents
  BY <1>4
<1>8. Frames' /\ Mapped' /\ MemoryIsPrivate' /\ expected' \in [Slots -> Views]
  BY <1>5, <1>6, <1>7, WrittenKeeps
<1>9. QED
  BY <1>1, <1>2, <1>8 DEF SpaceInv, Runs

LEMMA ExecKeeps ==
    ASSUME SpaceInv, NEW image \in Images, Exec(image)
    PROVE  SpaceInv'
<1> DEFINE s == Runner
           c == Padded(image)
<1>1. /\ running # <<>>
      /\ mem' = [mem EXCEPT ![pages[s][CodePage]] = c]
      /\ expected' = [expected EXCEPT ![s][CodePage] = c]
      /\ UNCHANGED <<nextFrame, pages, running, stores>>
  BY DEF Exec, InProgram
<1>2. s \in Slots /\ CodePage \in DOMAIN pages[s]
  BY <1>1, RunnerIsThere, KnownAreThree
<1>3. c \in PageContents
  BY AddressAssumption, ContentsAre
<1> HIDE DEF s, c
<1>4. UNCHANGED <<nextFrame, pages>>
  BY <1>1
<1>5. Frames' /\ Mapped' /\ MemoryIsPrivate' /\ expected' \in [Slots -> Views]
  BY <1>1, <1>2, <1>3, <1>4, WrittenKeeps
<1>6. QED
  BY <1>1, <1>5 DEF SpaceInv, Runs

LEMMA InstallingKeeps ==
    ASSUME SpaceInv, NEW image \in Images, CreateAtBoot(image) \/ RunFile(image)
    PROVE  SpaceInv'
<1>1. image \in Seq(Nat)
  BY AddressAssumption
<1>2. Right(FromImage(image), ImageExpected(image))
  BY <1>1, ImageIsRight DEF SpaceInv
<1>3. CASE CreateAtBoot(image)
  <2>1. Install(Boot, FromImage(image), ImageExpected(image)) /\ UNCHANGED <<running, stores>>
    BY <1>3 DEF CreateAtBoot
  <2>2. /\ Frames' /\ Mapped' /\ MemoryIsPrivate'
        /\ pages' \in [Slots -> Tables] /\ expected' \in [Slots -> Views]
        /\ \A t \in Slots : pages[t] # NoPages => pages'[t] # NoPages
    BY <1>2, <2>1, InstallKeeps, SlotsDiffer
  <2>3. Runs'
    BY <2>1, <2>2, SlotsDiffer DEF SpaceInv, Runs
  <2>4. QED
    BY <2>1, <2>2, <2>3 DEF SpaceInv
<1>4. CASE RunFile(image)
  <2>1. /\ Install(Loaded, FromImage(image), ImageExpected(image)) /\ UNCHANGED stores
        /\ running' = IF FromImage(image).ok THEN <<Loaded>> ELSE <<>>
    BY <1>4 DEF RunFile
  <2>2. /\ Frames' /\ Mapped' /\ MemoryIsPrivate'
        /\ pages' \in [Slots -> Tables] /\ expected' \in [Slots -> Views]
        /\ FromImage(image).ok => pages'[Loaded] # NoPages
    BY <1>2, <2>1, InstallKeeps, SlotsDiffer
  <2>3. Runs'
    BY <2>1, <2>2 DEF Runs
  <2>4. QED
    BY <2>1, <2>2, <2>3 DEF SpaceInv
<1>5. QED
  BY <1>3, <1>4

LEMMA RunElfKeeps ==
    ASSUME SpaceInv, NEW file \in ElfFiles, RunElf(file)
    PROVE  SpaceInv'
<1>1. file \in ElfFileType
  BY AddressAssumption
<1>2. /\ running' = IF Accepted(file) /\ FromElf(file).ok THEN <<Loaded>> ELSE <<>>
      /\ UNCHANGED stores
      /\ IF Accepted(file) THEN Install(Loaded, FromElf(file), ElfExpected(file))
         ELSE UNCHANGED <<nextFrame, mem, pages, expected>>
  BY DEF RunElf
<1>3. CASE Accepted(file)
  <2>1. Right(FromElf(file), ElfExpected(file))
    BY <1>1, <1>3, ElfIsRight DEF SpaceInv
  <2>2. /\ Frames' /\ Mapped' /\ MemoryIsPrivate'
        /\ pages' \in [Slots -> Tables] /\ expected' \in [Slots -> Views]
        /\ FromElf(file).ok => pages'[Loaded] # NoPages
    BY <1>2, <1>3, <2>1, InstallKeeps, SlotsDiffer
  <2>3. Runs'
    BY <1>2, <2>2 DEF Runs
  <2>4. QED
    BY <1>2, <2>2, <2>3 DEF SpaceInv
<1>4. CASE ~Accepted(file)
  <2>1. running' = <<>> /\ UNCHANGED <<nextFrame, mem, pages, expected, stores>>
    BY <1>2, <1>4
  <2>2. QED
    BY <2>1 DEF SpaceInv, Runs, Frames, Mapped, MemoryIsPrivate
<1>5. QED
  BY <1>3, <1>4

LEMMA ForkKeeps ==
    ASSUME SpaceInv, Fork
    PROVE  SpaceInv'
<1> DEFINE s == Runner
           sees == [p \in KnownPages |-> expected[s][p]]
<1>1. running # <<>> /\ UNCHANGED <<running, stores>>
  BY DEF Fork, InProgram
<1>2. s \in Slots /\ pages[s] # NoPages
  BY <1>1, RunnerIsThere
<1>3. Right(ForkBuild(s), sees)
  BY <1>2, ForkIsRight
<1>4. CASE pages[Child] = NoPages
  <2>1. Install(Child, ForkBuild(s), sees)
    BY <1>4 DEF Fork
  <2> HIDE DEF s, sees
  <2>2. /\ Frames' /\ Mapped' /\ MemoryIsPrivate'
        /\ pages' \in [Slots -> Tables] /\ expected' \in [Slots -> Views]
        /\ \A t \in Slots : pages[t] # NoPages => pages'[t] # NoPages
    BY <1>3, <2>1, InstallKeeps, SlotsDiffer
  <2>3. Runs'
    BY <1>1, <2>2, SlotsDiffer DEF SpaceInv, Runs
  <2>4. QED
    BY <1>1, <2>2, <2>3 DEF SpaceInv
<1>5. CASE pages[Child] # NoPages
  <2>1. /\ nextFrame' = ForkBuild(s).next /\ mem' = ForkBuild(s).mem
        /\ UNCHANGED <<pages, expected>>
    BY <1>5 DEF Fork
  <2> HIDE DEF s, sees
  <2>2. Frames' /\ Mapped' /\ MemoryIsPrivate'
    BY <1>3, <2>1, FramesTakenKeeps DEF Right
  <2>3. QED
    BY <1>1, <2>1, <2>2 DEF SpaceInv, Runs
<1>6. QED
  BY <1>4, <1>5

\* The child's entry is emptied; its frames are nobody's from then on.
LEMMA ChildGoneKeeps ==
    ASSUME SpaceInv, pages' = [pages EXCEPT ![Child] = NoPages],
           expected' = [expected EXCEPT ![Child] = NoPages], UNCHANGED <<nextFrame, mem>>
    PROVE  /\ Frames' /\ Mapped' /\ MemoryIsPrivate'
           /\ pages' \in [Slots -> Tables] /\ expected' \in [Slots -> Views]
           /\ \A t \in {Boot, Loaded} : pages'[t] = pages[t]
<1>1. /\ Frames /\ Mapped /\ MemoryIsPrivate
      /\ pages \in [Slots -> Tables] /\ expected \in [Slots -> Views]
  BY DEF SpaceInv
<1>2. /\ pages' \in [Slots -> Tables] /\ expected' \in [Slots -> Views]
      /\ DOMAIN pages'[Child] = {} /\ DOMAIN expected'[Child] = {}
      /\ \A t \in Slots : t # Child => pages'[t] = pages[t] /\ expected'[t] = expected[t]
  BY <1>1, KnownAreThree, SlotsDiffer
<1>3. Mapped'
  BY <1>1, <1>2 DEF Mapped
<1>4. MemoryIsPrivate'
  BY <1>1, <1>2 DEF MemoryIsPrivate
<1>5. QED
  BY <1>1, <1>2, <1>3, <1>4, SlotsDiffer DEF Frames

LEMMA SameMemoryKeeps ==
    ASSUME SpaceInv, UNCHANGED <<nextFrame, mem, pages, expected>>
    PROVE  Frames' /\ Mapped' /\ MemoryIsPrivate'
BY DEF SpaceInv, Frames, Mapped, MemoryIsPrivate

\* One process and another above it.
LEMMA OneAndTwo ==
    ASSUME NEW s, NEW t
    PROVE  Append(<<s>>, t) = <<s, t>> /\ SubSeq(<<s, t>>, 1, 1) = <<s>>
<1> DEFINE S == {s, t}
<1>1. <<s>> \in Seq(S) /\ <<s, t>> \in Seq(S) /\ t \in S
  OBVIOUS
<1>2. Append(<<s>>, t) = <<s, t>>
  <2>1. Append(<<s>>, t) \in Seq(S)
    BY <1>1, AppendProperties
  <2>2. Len(Append(<<s>>, t)) = Len(<<s, t>>)
    OBVIOUS
  <2>3. \A i \in 1..Len(Append(<<s>>, t)) : Append(<<s>>, t)[i] = <<s, t>>[i]
    OBVIOUS
  <2>4. QED
    BY <1>1, <2>1, <2>2, <2>3, SeqEqual
<1>3. SubSeq(<<s, t>>, 1, 1) = <<s>>
  <2>1. SubSeq(<<s, t>>, 1, 1) \in Seq(S)
    BY <1>1, SubSeqProperties
  <2>2. Len(SubSeq(<<s, t>>, 1, 1)) = Len(<<s>>)
    OBVIOUS
  <2>3. \A i \in 1..Len(SubSeq(<<s, t>>, 1, 1)) : SubSeq(<<s, t>>, 1, 1)[i] = <<s>>[i]
    OBVIOUS
  <2>4. QED
    BY <1>1, <2>1, <2>2, <2>3, SeqEqual
<1>4. QED
  BY <1>2, <1>3

LEMMA RunningKeeps ==
    ASSUME SpaceInv, RunBoot \/ WaitForChild \/ KillChild \/ Ends
    PROVE  SpaceInv'
<1>1. CASE RunBoot
  <2>1. /\ pages[Boot] # NoPages /\ running' = <<Boot>>
        /\ UNCHANGED <<nextFrame, mem, pages, expected, stores>>
    BY <1>1 DEF RunBoot
  <2>2. Runs'
    BY <2>1 DEF Runs
  <2>3. QED
    BY <2>1, <2>2 DEF SpaceInv, Frames, Mapped, MemoryIsPrivate
<1>2. CASE WaitForChild
  <2>1. /\ running # <<>> /\ Len(running) = 1 /\ pages[Child] # NoPages
        /\ running' = Append(running, Child)
        /\ UNCHANGED <<nextFrame, mem, pages, expected, stores>>
    BY <1>2 DEF WaitForChild, InProgram
  <2>2. Runner \in {Boot, Loaded} /\ running = <<Runner>> /\ pages[Runner] # NoPages
    BY <2>1, RunnerIsThere
  <2>3. PICK s \in {Boot, Loaded} : running = <<s>> /\ pages[s] # NoPages
    BY <2>2
  <2>4. running' = <<s, Child>>
    BY <2>1, <2>3, OneAndTwo
  <2>5. Runs'
    BY <2>1, <2>3, <2>4 DEF Runs
  <2>6. Frames' /\ Mapped' /\ MemoryIsPrivate'
    BY <2>1, SameMemoryKeeps
  <2>7. QED
    BY <2>1, <2>5, <2>6 DEF SpaceInv
<1>3. CASE KillChild
  <2>1. /\ running # <<>> /\ Len(running) = 1
        /\ pages' = [pages EXCEPT ![Child] = NoPages]
        /\ expected' = [expected EXCEPT ![Child] = NoPages]
        /\ UNCHANGED <<nextFrame, mem, running, stores>>
    BY <1>3 DEF KillChild, InProgram
  <2>2. Runner \in {Boot, Loaded} /\ running = <<Runner>> /\ pages[Runner] # NoPages
    BY <2>1, RunnerIsThere
  <2>3. /\ Frames' /\ Mapped' /\ MemoryIsPrivate'
        /\ pages' \in [Slots -> Tables] /\ expected' \in [Slots -> Views]
        /\ \A t \in {Boot, Loaded} : pages'[t] = pages[t]
    BY <2>1, ChildGoneKeeps
  <2>4. Runs'
    BY <2>1, <2>2, <2>3 DEF Runs
  <2>5. QED
    BY <2>1, <2>3, <2>4 DEF SpaceInv
<1>4. CASE Ends
  <2>1. /\ running # <<>> /\ running' = SubSeq(running, 1, Len(running) - 1)
        /\ UNCHANGED <<nextFrame, mem, stores>>
    BY <1>4 DEF Ends, InProgram
  <2>2. CASE Len(running) = 1
    <3>1. Runner \in {Boot, Loaded} /\ running = <<Runner>>
      BY <2>1, <2>2, RunnerIsThere
    <3>2. running' = <<>>
      BY <2>1, <3>1
    <3>3. UNCHANGED <<pages, expected>>
      BY <1>4, <3>1, SlotsDiffer DEF Ends
    <3>4. QED
      BY <2>1, <3>2, <3>3 DEF SpaceInv, Runs, Frames, Mapped, MemoryIsPrivate
  <2>3. CASE Len(running) # 1
    <3>1. Runner = Child /\ \E s \in {Boot, Loaded} : pages[s] # NoPages /\ running = <<s, Child>>
      BY <2>1, <2>3, RunnerIsThere
    <3>2. PICK s \in {Boot, Loaded} : pages[s] # NoPages /\ running = <<s, Child>>
      BY <3>1
    <3>3. running' = <<s>>
      <4>1. running' = SubSeq(<<s, Child>>, 1, 1)
        BY <2>1, <3>2
      <4>2. SubSeq(<<s, Child>>, 1, 1) = <<s>>
        BY OneAndTwo
      <4>3. QED
        BY <4>1, <4>2
    <3>4. /\ pages' = [pages EXCEPT ![Child] = NoPages]
          /\ expected' = [expected EXCEPT ![Child] = NoPages]
      BY <1>4, <3>1 DEF Ends
    <3>5. /\ Frames' /\ Mapped' /\ MemoryIsPrivate'
          /\ pages' \in [Slots -> Tables] /\ expected' \in [Slots -> Views]
          /\ \A t \in {Boot, Loaded} : pages'[t] = pages[t]
      BY <2>1, <3>4, ChildGoneKeeps
    <3>6. Runs'
      BY <3>2, <3>3, <3>5 DEF Runs
    <3>7. QED
      BY <2>1, <3>5, <3>6 DEF SpaceInv
  <2>4. QED
    BY <2>2, <2>3
<1>5. QED
  BY <1>1, <1>2, <1>3, <1>4

LEMMA SpacesAtFirst == SpacesInit => SpaceInv
<1>1. SUFFICES ASSUME SpacesInit PROVE SpaceInv
  OBVIOUS
<1>2. /\ nextFrame = 0 /\ mem = [f \in 1..NFrames |-> AsFound] /\ running = <<>> /\ stores = 0
      /\ pages = [s \in Slots |-> NoPages] /\ expected = [s \in Slots |-> NoPages]
  BY <1>1 DEF SpacesInit
<1>3. Frames
  BY <1>2, ContentsAre, SpaceNumbers DEF Frames, Memories
<1>4. pages \in [Slots -> Tables] /\ expected \in [Slots -> Views]
  BY <1>2, KnownAreThree
<1>5. \A s \in Slots : DOMAIN pages[s] = {} /\ DOMAIN expected[s] = {}
  BY <1>2, KnownAreThree
<1>6. Mapped /\ Runs /\ MemoryIsPrivate
  BY <1>2, <1>5 DEF Mapped, Runs, MemoryIsPrivate
<1>7. QED
  BY <1>2, <1>3, <1>4, <1>6 DEF SpaceInv

LEMMA SpacesKept == SpaceInv /\ [SpacesNext]_spaceVars => SpaceInv'
<1>1. SUFFICES ASSUME SpaceInv, [SpacesNext]_spaceVars PROVE SpaceInv'
  OBVIOUS
<1>2. CASE UNCHANGED spaceVars \/ ForkUnderRunElf \/ SpacesHalted
  <2>1. UNCHANGED <<nextFrame, mem, pages, running, stores, expected>>
    BY <1>2 DEF spaceVars, ForkUnderRunElf, SpacesHalted
  <2>2. QED
    BY <1>1, <2>1 DEF SpaceInv, Runs, Frames, Mapped, MemoryIsPrivate
<1>3. ASSUME NEW image \in Images, CreateAtBoot(image) \/ RunFile(image) \/ Exec(image)
      PROVE  SpaceInv'
  BY <1>1, <1>3, InstallingKeeps, ExecKeeps
<1>4. ASSUME NEW file \in ElfFiles, RunElf(file) PROVE SpaceInv'
  BY <1>1, <1>4, RunElfKeeps
<1>5. CASE RunBoot \/ WaitForChild \/ KillChild \/ Ends
  BY <1>1, <1>5, RunningKeeps
<1>6. CASE Fork
  BY <1>1, <1>6, ForkKeeps
<1>7. ASSUME NEW page \in 0..UserPages - 1, NEW w \in 1..PageWords, Store(page, w) PROVE SpaceInv'
  BY <1>1, <1>7, StoreKeeps
<1>8. QED
  BY <1>1, <1>2, <1>3, <1>4, <1>5, <1>6, <1>7 DEF SpacesNext

\* Whatever is loaded, forked, executed and stored, and however often frames run out half-way, every
\* process finds on its pages what its file and it itself have put there and nothing of another's.
THEOREM MemoryStaysPrivate == SpacesSpec => []MemoryIsPrivate
<1>1. SpaceInv => MemoryIsPrivate
  BY DEF SpaceInv
<1>2. QED
  BY <1>1, SpacesAtFirst, SpacesKept, PTL DEF SpacesSpec
-----------------------------------------------------------------------------
(* Which files are loaded.                                                 *)

\* The frames of a page table with the pages D, besides its PML4.
Cost(D) == IF D = {} THEN 0 ELSE 2 + Cardinality(Spans(D)) + Cardinality(D)

\* The frames a build has taken are the ones its page table needs.
Counted(b) ==
    /\ IsFiniteSet(DOMAIN b.table)
    /\ b.ok => b.next = nextFrame + 1 + Cost(DOMAIN b.table)

\* There are frames for an address space with the pages D.
Fits(D) == nextFrame + 1 + Cost(D) <= NFrames

\* The spans of a finite set of pages, and of one page more.
LEMMA SpansOneMore ==
    \A D, p : Spans(D \cup {p}) = Spans(D) \cup {p \div TableSpan}
BY DEF Spans

LEMMA SpansAreFinite ==
    ASSUME NEW D, IsFiniteSet(D)
    PROVE  IsFiniteSet(Spans(D)) /\ Cardinality(Spans(D)) \in Nat /\ Cardinality(D) \in Nat
<1> DEFINE f == [p \in D |-> p \div TableSpan]
<1>1. f \in Surjection(D, Spans(D))
  BY DEF Surjection, Spans
<1>2. IsFiniteSet(Spans(D))
  <2> HIDE DEF f
  <2>1. QED
    BY <1>1, FS_Surjection
<1>3. QED
  BY <1>2, FS_CardinalityType

LEMMA CostIsNumber ==
    ASSUME NEW D, IsFiniteSet(D)
    PROVE  Cost(D) \in Nat
BY SpansAreFinite DEF Cost

\* A page more costs its frame and the tables map_to makes for it.
LEMMA CostOfOneMore ==
    ASSUME NEW t, IsFiniteSet(DOMAIN t), NEW p, p \notin DOMAIN t
    PROVE  /\ TablesFor(t, p) \in Nat
           /\ Cost(DOMAIN t \cup {p}) = Cost(DOMAIN t) + TablesFor(t, p) + 1
<1> DEFINE D == DOMAIN t
           E == D \cup {p}
           q == p \div TableSpan
           new == IF \E r \in D : r \div TableSpan = q THEN 0 ELSE 1
<1>1. /\ Cardinality(E) = Cardinality(D) + 1 /\ IsFiniteSet(E) /\ E # {}
  BY FS_AddElement
<1>2. /\ IsFiniteSet(Spans(D)) /\ Cardinality(Spans(D)) \in Nat /\ Cardinality(D) \in Nat
  BY SpansAreFinite
<1>3. Cardinality(Spans(E)) = Cardinality(Spans(D)) + new
  <2>1. Spans(E) = Spans(D) \cup {q}
    BY SpansOneMore
  <2>2. q \in Spans(D) <=> \E r \in D : r \div TableSpan = q
    BY DEF Spans
  <2>3. Cardinality(Spans(D) \cup {q}) =
          IF q \in Spans(D) THEN Cardinality(Spans(D)) ELSE Cardinality(Spans(D)) + 1
    BY <1>2, FS_AddElement
  <2>4. new = IF q \in Spans(D) THEN 0 ELSE 1
    BY <2>2
  <2> HIDE DEF new, q, E, D
  <2>5. QED
    BY <1>2, <2>1, <2>3, <2>4
<1>4. TablesFor(t, p) = (IF D = {} THEN 2 ELSE 0) + new
  BY DEF TablesFor
<1>5. D = {} => Cardinality(D) = 0 /\ Cardinality(Spans(D)) = 0
  <2>1. D = {} => Spans(D) = {}
    BY DEF Spans
  <2>2. QED
    BY <2>1, FS_EmptySet
<1> HIDE DEF D, E
<1>6. new \in {0, 1}
  OBVIOUS
<1> HIDE DEF new
<1>7. CASE D = {}
  BY <1>1, <1>2, <1>3, <1>4, <1>5, <1>6, <1>7 DEF Cost, D, E
<1>8. CASE D # {}
  BY <1>1, <1>2, <1>3, <1>4, <1>6, <1>8 DEF Cost, D, E
<1>9. QED
  BY <1>7, <1>8

LEMMA CostGrows ==
    ASSUME NEW E, IsFiniteSet(E), NEW D \in SUBSET E
    PROVE  Cost(D) <= Cost(E)
<1>1. IsFiniteSet(D) /\ Cardinality(D) <= Cardinality(E)
  BY FS_Subset
<1>2. Spans(D) \in SUBSET Spans(E)
  BY DEF Spans
<1>3. /\ Cardinality(Spans(D)) \in Nat /\ Cardinality(D) \in Nat /\ IsFiniteSet(Spans(E))
      /\ Cardinality(Spans(E)) \in Nat /\ Cardinality(E) \in Nat
  BY <1>1, SpansAreFinite
<1>4. Cardinality(Spans(D)) <= Cardinality(Spans(E))
  BY <1>2, <1>3, FS_Subset
<1>5. D # {} => E # {}
  OBVIOUS
<1>6. QED
  BY <1>1, <1>3, <1>4, <1>5 DEF Cost

LEMMA PutCounts ==
    ASSUME NEW b, Apart(b), Counted(b), NEW page \in Nat, NEW words \in PageContents,
           nextFrame \in Nat
    PROVE  LET c == Put(b, page, words)
           IN /\ Counted(c)
              /\ c.ok <=> b.ok /\ page \notin DOMAIN b.table /\ Fits(DOMAIN b.table \cup {page})
<1> DEFINE framed == Take(b, 1)
           k == TablesFor(b.table, page)
           tabled == Take(framed, k)
           made == [tabled EXCEPT !.table = With(@, page, framed.next), !.mem[framed.next] = words]
           c == Put(b, page, words)
           D == DOMAIN b.table
<1>1. k \in Nat
  BY DEF TablesFor
<1>2. b \in Builds /\ nextFrame <= b.next /\ b.next \in Nat /\ NFrames \in Nat
  BY SpaceNumbers DEF Apart, Builds
<1>3. /\ framed \in Builds
      /\ framed.table = b.table
      /\ framed.ok => framed.next = b.next + 1
      /\ framed.ok <=> b.ok /\ b.next + 1 <= NFrames
  BY <1>2, TakeIs
<1>4. /\ tabled \in Builds
      /\ tabled.table = b.table
      /\ tabled.ok => tabled.next = framed.next + k
      /\ tabled.ok <=> framed.ok /\ framed.next + k <= NFrames
  BY <1>1, <1>3, TakeIs
<1>5. c = IF ~b.ok THEN b
          ELSE IF ~framed.ok \/ page \in D THEN [framed EXCEPT !.ok = FALSE]
          ELSE IF ~tabled.ok THEN tabled ELSE made
  BY <1>3 DEF Put
<1> HIDE DEF framed, tabled, c, k
<1>6. /\ IsFiniteSet(D) /\ Cost(D) \in Nat
      /\ b.ok => b.next = nextFrame + 1 + Cost(D)
  BY CostIsNumber DEF Counted
<1>7. CASE ~b.ok
  <2>1. c = b
    BY <1>5, <1>7
  <2>2. QED
    BY <1>7, <2>1 DEF c
<1>8. CASE b.ok /\ page \in D
  <2>1. c = [framed EXCEPT !.ok = FALSE]
    BY <1>5, <1>8
  <2>2. c.table = b.table /\ ~c.ok
    BY <1>3, <2>1 DEF Builds
  <2>3. QED
    BY <1>6, <1>8, <2>2 DEF Counted, c
<1>9. CASE b.ok /\ page \notin D
  <2>1. Cost(D \cup {page}) = Cost(D) + k + 1
    BY <1>6, <1>9, CostOfOneMore DEF k
  <2>2. Fits(D \cup {page}) <=> b.next + 1 + k <= NFrames
    <3> DEFINE x == Cost(D)
               y == Cost(D \cup {page})
    <3>1. x \in Nat /\ y = x + k + 1 /\ b.next = nextFrame + 1 + x
      BY <1>6, <1>9, <2>1
    <3> HIDE DEF x, y
    <3>2. nextFrame + 1 + y <= NFrames <=> b.next + 1 + k <= NFrames
      BY <1>1, <1>2, <3>1
    <3>3. QED
      BY <3>2 DEF Fits, y
  <2>3. CASE ~framed.ok
    <3>1. c = [framed EXCEPT !.ok = FALSE]
      BY <1>5, <1>9, <2>3
    <3>2. c.table = b.table /\ ~c.ok
      BY <1>3, <3>1 DEF Builds
    <3>3. ~Fits(D \cup {page})
      BY <1>1, <1>2, <1>3, <1>9, <2>2, <2>3
    <3>4. QED
      BY <1>6, <3>2, <3>3 DEF Counted, c
  <2>4. CASE framed.ok /\ ~tabled.ok
    <3>1. c = tabled
      BY <1>5, <1>9, <2>4
    <3>2. ~Fits(D \cup {page})
      BY <1>1, <1>2, <1>3, <1>4, <1>9, <2>2, <2>4
    <3>3. QED
      BY <1>4, <1>6, <2>4, <3>1, <3>2 DEF Counted, c
  <2>5. CASE framed.ok /\ tabled.ok
    <3>1. c = made
      BY <1>5, <1>9, <2>5
    <3>2. c.next = tabled.next /\ c.table = With(b.table, page, framed.next) /\ c.ok
      BY <1>4, <2>5, <3>1 DEF Builds
    <3>3. DOMAIN c.table = D \cup {page}
      BY <3>2 DEF With
    <3>4. c.next = nextFrame + 1 + Cost(D \cup {page})
      <4> DEFINE x == Cost(D)
                 y == Cost(D \cup {page})
      <4>1. x \in Nat /\ y = x + k + 1 /\ b.next = nextFrame + 1 + x
        BY <1>6, <1>9, <2>1
      <4>2. c.next = b.next + 1 + k
        BY <1>1, <1>2, <1>3, <1>4, <2>5, <3>2
      <4> HIDE DEF x, y
      <4>3. c.next = nextFrame + 1 + y
        BY <1>1, <1>2, <4>1, <4>2
      <4>4. QED
        BY <4>3 DEF y
    <3>5. IsFiniteSet(D \cup {page})
      BY <1>6, FS_AddElement
    <3>6. Fits(D \cup {page})
      BY <1>1, <1>2, <1>3, <1>4, <2>2, <2>5
    <3>7. QED
      BY <1>9, <3>2, <3>3, <3>4, <3>5, <3>6 DEF Counted, c
  <2>6. QED
    BY <2>3, <2>4, <2>5
<1>10. QED
  BY <1>7, <1>8, <1>9

\* A build that has put t pages, of which U is the set: it has succeeded if they all differ and
\* there were frames for them.
Counts(b, U, t) ==
    /\ Counted(b) /\ IsFiniteSet(U) /\ Cardinality(U) <= t
    /\ b.ok <=> Fits(U) /\ Cardinality(U) = t
    /\ b.ok => DOMAIN b.table = U

LEMMA PutThen ==
    ASSUME NEW b, Apart(b), NEW U, NEW t \in Nat, Counts(b, U, t),
           NEW page \in Nat, NEW words \in PageContents, nextFrame \in Nat
    PROVE  Counts(Put(b, page, words), U \cup {page}, t + 1)
<1> DEFINE c == Put(b, page, words)
           V == U \cup {page}
<1>1. /\ Counted(c)
      /\ c.ok <=> b.ok /\ page \notin DOMAIN b.table /\ Fits(DOMAIN b.table \cup {page})
  BY PutCounts DEF Counts
<1>2. c.ok => DOMAIN c.table = DOMAIN b.table \cup {page}
  BY PutKeeps
<1>3. /\ IsFiniteSet(V) /\ Cardinality(U) \in Nat
      /\ Cardinality(V) = IF page \in U THEN Cardinality(U) ELSE Cardinality(U) + 1
  BY FS_AddElement, FS_CardinalityType DEF Counts
<1>4. Fits(V) => Fits(U)
  <2>1. Cost(U) <= Cost(V) /\ Cost(U) \in Nat /\ Cost(V) \in Nat /\ NFrames \in Nat
    BY <1>3, CostGrows, CostIsNumber, SpaceNumbers DEF Counts
  <2>2. QED
    BY <2>1 DEF Fits
<1> HIDE DEF c, V
<1>5. Cardinality(V) <= t + 1
  BY <1>3 DEF Counts
<1>6. CASE b.ok
  <2>1. DOMAIN b.table = U /\ Cardinality(U) = t
    BY <1>6 DEF Counts
  <2>2. c.ok <=> page \notin U /\ Fits(V)
    BY <1>1, <1>6, <2>1 DEF V
  <2>3. page \notin U <=> Cardinality(V) = t + 1
    BY <1>3, <2>1
  <2>4. c.ok => DOMAIN c.table = V
    BY <1>2, <2>1 DEF V
  <2>5. QED
    BY <1>1, <1>3, <1>5, <2>2, <2>3, <2>4 DEF Counts, c, V
<1>7. CASE ~b.ok
  <2>1. ~c.ok
    BY <1>1, <1>7
  <2>2. ASSUME Fits(V), Cardinality(V) = t + 1 PROVE FALSE
    <3>1. Cardinality(U) <= t
      BY DEF Counts
    <3>2. Cardinality(U) = t
      BY <1>3, <2>2, <3>1
    <3>3. QED
      BY <1>4, <1>7, <2>2, <3>2 DEF Counts
  <2>3. QED
    BY <1>1, <1>3, <1>5, <2>1, <2>2 DEF Counts, c, V
<1>8. QED
  BY <1>6, <1>7

PagesIn(list, n) == {list[i].page : i \in 1..n}

LEMMA PutAllThen ==
    ASSUME NEW b, Apart(b), NEW U, NEW t \in Nat, Counts(b, U, t), NEW list \in PageLists,
           nextFrame \in Nat
    PROVE  Counts(PutAll(b, list), U \cup PagesIn(list, Len(list)), t + Len(list))
<1> DEFINE n == Len(list)
<1>1. PICK after :
        /\ after[0] = b /\ PutAll(b, list) = after[n]
        /\ \A i \in 1..n : after[i] = Put(after[i - 1], list[i].page, list[i].words)
  BY PutAllSteps
<1>2. n \in Nat
  BY DEF PageLists
<1>3. \A i \in 1..n : list[i].page \in Nat /\ list[i].words \in PageContents
  <2>1. ASSUME NEW i \in 1..n PROVE list[i] \in [page : Nat, words : PageContents]
    BY <1>2, ElementOfSeq DEF PageLists
  <2>2. QED
    BY <2>1
<1> DEFINE S == {i \in Nat : i <= n => /\ Apart(after[i])
                                       /\ Counts(after[i], U \cup PagesIn(list, i), t + i)}
<1>4. 0 \in S
  <2>1. U \cup PagesIn(list, 0) = U /\ t + 0 = t
    BY DEF PagesIn
  <2>2. QED
    BY <1>1, <2>1
<1>5. ASSUME NEW i \in Nat, i \in S PROVE i + 1 \in S
  <2> DEFINE V == U \cup PagesIn(list, i)
             page == list[i + 1].page
             words == list[i + 1].words
  <2>1. SUFFICES ASSUME i + 1 <= n
                 PROVE  /\ Apart(after[i + 1])
                        /\ Counts(after[i + 1], U \cup PagesIn(list, i + 1), t + (i + 1))
    BY <1>5
  <2>2. (i + 1) - 1 = i /\ i + 1 \in 1..n
    BY <1>2, <2>1
  <2>3. Apart(after[i]) /\ Counts(after[i], V, t + i)
    BY <1>2, <1>5, <2>1
  <2>4. after[i + 1] = Put(after[i], page, words) /\ page \in Nat /\ words \in PageContents
    BY <1>1, <1>3, <2>2
  <2>5. V \cup {page} = U \cup PagesIn(list, i + 1)
    <3>1. 1..i + 1 = 1..i \cup {i + 1}
      OBVIOUS
    <3>2. QED
      BY <3>1 DEF PagesIn
  <2> HIDE DEF V, page, words
  <2>6. t + i \in Nat /\ t + i + 1 = t + (i + 1)
    OBVIOUS
  <2>7. Apart(after[i + 1]) /\ Counts(after[i + 1], V \cup {page}, t + i + 1)
    BY <2>3, <2>4, <2>6, PutKeeps, PutThen
  <2>8. QED
    BY <2>5, <2>6, <2>7
<1>6. Nat \subseteq S
  <2> HIDE DEF S
  <2>1. QED
    BY <1>4, <1>5, SetInduction
<1>7. QED
  BY <1>1, <1>2, <1>6

\* TotalPages is the sum it is written as.
LEMMA TotalSteps ==
    ASSUME NEW headers \in Seq(ProgramHeaders)
    PROVE  \E upTo : /\ upTo[0] = 0 /\ TotalPages(headers) = upTo[Len(headers)]
                     /\ \A i \in 1..Len(headers) :
                          upTo[i] = upTo[i - 1] + PageCount(headers[i])
<1> DEFINE n == Len(headers)
           G == [x \in Nat \X Nat |-> IF x[1] \in 1..n THEN x[2] + PageCount(headers[x[1]])
                                      ELSE x[2]]
           upTo[i \in 0..Len(headers)] ==
             IF i = 0 THEN 0 ELSE upTo[i - 1] + PageCount(headers[i])
<1>1. TotalPages(headers) = upTo[n]
  BY DEF TotalPages
<1>2. n \in Nat /\ 0 \in Nat
  BY LenProperties
<1>3. G \in [Nat \X Nat -> Nat]
  <2>1. ASSUME NEW i \in 1..n PROVE PageCount(headers[i]) \in Nat
    BY <1>2, ElementOfSeq, PagesAreNumbers
  <2>2. QED
    BY <2>1
<1>4. PICK f : Follows(f, 0, G, n, Nat)
  <2> HIDE DEF G, n
  <2>1. QED
    BY <1>2, <1>3, StepwiseFunction
<1>5. ASSUME NEW i \in 1..n PROVE f[i] = f[i - 1] + PageCount(headers[i])
  <2>1. i \in Nat /\ i - 1 \in 0..n
    BY <1>2
  <2>2. f[i] = G[<<i, f[i - 1]>>] /\ f[i - 1] \in Nat
    BY <1>4, <2>1 DEF Follows
  <2>3. QED
    BY <2>1, <2>2
<1>6. f = [i \in 0..Len(headers) |-> IF i = 0 THEN 0 ELSE f[i - 1] + PageCount(headers[i])]
  <2> DEFINE step(i) == f[i - 1] + PageCount(headers[i])
  <2>1. f \in [0..n -> Nat] /\ f[0] = 0 /\ \A i \in 1..n : f[i] = step(i)
    BY <1>4, <1>5 DEF Follows
  <2>2. f = [i \in 0..n |-> IF i = 0 THEN 0 ELSE step(i)]
    <3> HIDE DEF G, n, step
    <3>1. QED
      BY <1>2, <2>1
  <2>3. QED
    BY <2>2
<1>7. upTo = [i \in 0..Len(headers) |->
                IF i = 0 THEN 0 ELSE upTo[i - 1] + PageCount(headers[i])]
  BY <1>6
<1> HIDE DEF upTo, G
<1>8. upTo[0] = 0 /\ \A i \in 1..n : upTo[i] = upTo[i - 1] + PageCount(headers[i])
  BY <1>2, <1>7
<1>9. QED
  BY <1>1, <1>8

\* The pages of the first k headers.
FirstPages(headers, k) == UNION {ToSet(PagesOf(headers[j])) : j \in 1..k}

LEMMA NewBuildCounts ==
    ASSUME Frames
    PROVE  Counts(NewBuild, {}, 0)
<1> DEFINE b == [next |-> nextFrame, mem |-> mem, table |-> NoPages, ok |-> TRUE]
<1>1. Apart(NewBuild) /\ NewBuild.table = NoPages
  BY NewBuildIsApart
<1>2. b \in Builds /\ b.ok /\ b.next = nextFrame
  BY KnownAreThree DEF Builds, Frames
<1>3. /\ NewBuild.ok <=> nextFrame + 1 <= NFrames
      /\ NewBuild.ok => NewBuild.next = nextFrame + 1
  <2>1. NewBuild = Take(b, 1)
    BY DEF NewBuild
  <2> HIDE DEF b
  <2>2. QED
    BY <1>2, <2>1, TakeIs
<1>4. /\ DOMAIN NewBuild.table = {} /\ IsFiniteSet({}) /\ Cardinality({}) = 0
      /\ nextFrame \in Nat /\ Cost({}) = 0
  BY <1>1, KnownAreThree, FS_EmptySet, SpaceNumbers DEF Frames, Cost
<1>5. /\ nextFrame + 1 + Cost({}) = nextFrame + 1
  BY <1>4
<1>6. QED
  BY <1>3, <1>4, <1>5 DEF Counts, Counted, Fits

LEMMA PutSegmentsThen ==
    ASSUME NEW b, Apart(b), Counts(b, {}, 0), NEW file \in ElfFileType, nextFrame \in Nat,
           \A i \in 1..Len(LoadHeaders(file)) : InFile(file, LoadHeaders(file)[i])
    PROVE  /\ Apart(PutSegments(b, file))
           /\ TotalPages(LoadHeaders(file)) \in Nat
           /\ Counts(PutSegments(b, file), ElfPages(file), TotalPages(LoadHeaders(file)))
<1> DEFINE headers == LoadHeaders(file)
           n == Len(headers)
<1>1. PICK after :
        /\ after[0] = b /\ PutSegments(b, file) = after[n]
        /\ \A i \in 1..n : after[i] = PutAll(after[i - 1], SegmentPages(file, headers[i]))
  BY PutSegmentsSteps
<1>2. headers \in Seq(ProgramHeaders) /\ n \in Nat
  BY SegmentsAre
<1>3. \A i \in 1..n : /\ headers[i] \in ProgramHeaders
                     /\ SegmentPages(file, headers[i]) \in PageLists
                     /\ Len(SegmentPages(file, headers[i])) = PageCount(headers[i])
  BY SegmentsAre
<1>4. PICK upTo : /\ upTo[0] = 0 /\ TotalPages(headers) = upTo[n]
                  /\ \A i \in 1..n : upTo[i] = upTo[i - 1] + PageCount(headers[i])
  BY <1>2, TotalSteps
<1> HIDE DEF headers
<1> DEFINE S == {i \in Nat : i <= n => /\ Apart(after[i]) /\ upTo[i] \in Nat
                                       /\ Counts(after[i], FirstPages(headers, i), upTo[i])}
<1>5. 0 \in S
  <2>1. FirstPages(headers, 0) = {}
    BY DEF FirstPages
  <2>2. Counts(after[0], FirstPages(headers, 0), upTo[0])
    BY <1>1, <1>4, <2>1, Zenon
  <2>3. Apart(after[0]) /\ upTo[0] \in Nat
    BY <1>1, <1>4
  <2>4. QED
    BY <2>2, <2>3
<1>6. ASSUME NEW i \in Nat, i \in S PROVE i + 1 \in S
  <2> DEFINE U == FirstPages(headers, i)
             h == headers[i + 1]
             list == SegmentPages(file, h)
             m == PageCount(h)
  <2>1. SUFFICES ASSUME i + 1 <= n
                 PROVE  /\ Apart(after[i + 1]) /\ upTo[i + 1] \in Nat
                        /\ Counts(after[i + 1], FirstPages(headers, i + 1), upTo[i + 1])
    BY <1>6
  <2>2. (i + 1) - 1 = i /\ i + 1 \in 1..n
    BY <1>2, <2>1
  <2>3. Apart(after[i]) /\ upTo[i] \in Nat /\ Counts(after[i], U, upTo[i])
    BY <1>2, <1>6, <2>1
  <2>4. after[i + 1] = PutAll(after[i], list) /\ upTo[i + 1] = upTo[i] + m
    BY <1>1, <1>4, <2>2
  <2>5. h \in ProgramHeaders /\ list \in PageLists /\ Len(list) = m /\ m \in Nat
    BY <1>3, <2>2, PagesAreNumbers
  <2>6. U \cup PagesIn(list, Len(list)) = FirstPages(headers, i + 1)
    <3>1. 1..i + 1 = 1..i \cup {i + 1}
      OBVIOUS
    <3>2. FirstPages(headers, i + 1) = U \cup ToSet(PagesOf(h))
      BY <3>1 DEF FirstPages
    <3>3. \A j \in 1..m : list[j].page = PagesOf(h)[j]
      BY DEF SegmentPages
    <3> HIDE DEF list, m, h, U
    <3>4. PagesIn(list, m) = {PagesOf(h)[j] : j \in 1..m}
      BY <3>3 DEF PagesIn
    <3>5. ToSet(PagesOf(h)) = {PagesOf(h)[j] : j \in 1..m}
      BY <2>5, PagesAsSet DEF m
    <3>6. QED
      BY <2>5, <3>2, <3>4, <3>5
  <2> HIDE DEF U, h, list, m
  <2>7. Apart(after[i + 1])
    BY <2>3, <2>4, <2>5, PutAllKeeps
  <2>8. Counts(PutAll(after[i], list), U \cup PagesIn(list, Len(list)), upTo[i] + Len(list))
    BY <2>3, <2>5, PutAllThen
  <2>9. Counts(after[i + 1], FirstPages(headers, i + 1), upTo[i + 1])
    BY <2>4, <2>5, <2>6, <2>8, Zenon
  <2>10. upTo[i + 1] \in Nat
    BY <2>3, <2>4, <2>5
  <2>11. QED
    BY <2>7, <2>9, <2>10
<1>7. Nat \subseteq S
  <2> HIDE DEF S
  <2>1. QED
    BY <1>5, <1>6, SetInduction
<1>8. Apart(after[n]) /\ upTo[n] \in Nat /\ Counts(after[n], FirstPages(headers, n), upTo[n])
  <2>1. n \in S
    <3> HIDE DEF S, n
    <3>1. QED
      BY <1>2, <1>7
  <2> HIDE DEF n
  <2>2. QED
    BY <1>2, <2>1
<1>9. FirstPages(headers, n) = ElfPages(file)
  <2>1. ToSet(headers) = {headers[j] : j \in 1..n}
    BY <1>2, LenProperties DEF ToSet
  <2>2. QED
    BY <2>1 DEF ElfPages, FirstPages, headers
<1>10. QED
  BY <1>1, <1>4, <1>8, <1>9 DEF headers

\* process.rs:1718-1790: a file the checks accept is loaded exactly when its pages differ and there
\* are frames for all of them.
LEMMA LoadSucceeds ==
    ASSUME Frames, NEW file \in ElfFileType, Accepted(file)
    PROVE  FromElf(file).ok <=> Disjoint(file) /\ nextFrame + FramesFor(file) <= NFrames
<1> DEFINE headers == LoadHeaders(file)
           n == Len(headers)
           t == TotalPages(headers)
           E == ElfPages(file)
           H == {StackPage} \cup HeapPages
           c == PutSegments(NewBuild, file)
           m == HeapCount + 1
           b == PutAll(c, StackAndHeap)
<1>1. nextFrame \in Nat /\ m \in Nat /\ NFrames \in Nat
  BY SpaceNumbers DEF Frames
<1>2. \A i \in 1..n : InFile(file, headers[i])
  <2>1. headers \in Seq(ProgramHeaders)
    BY HeadersAreHeaders
  <2>2. \A i \in 1..n : headers[i] \in ToSet(headers)
    BY <2>1, LenProperties DEF ToSet
  <2>3. QED
    BY <2>2 DEF Accepted, Parses
<1>3. Apart(c) /\ t \in Nat /\ Counts(c, E, t)
  BY <1>1, <1>2, NewBuildIsApart, NewBuildCounts, PutSegmentsThen
<1>4. Counts(b, E \cup H, t + m)
  <2>1. StackAndHeap \in PageLists /\ Len(StackAndHeap) = m /\ PagesIn(StackAndHeap, m) = H
    BY StackAndHeapPages DEF PagesIn
  <2> HIDE DEF c, t, E, m, H
  <2>2. Counts(PutAll(c, StackAndHeap), E \cup PagesIn(StackAndHeap, Len(StackAndHeap)),
               t + Len(StackAndHeap))
    BY <1>1, <1>3, <2>1, PutAllThen
  <2>3. QED
    BY <2>1, <2>2
<1>5. IsFiniteSet(H) /\ Cardinality(H) = m
  <2>1. /\ HeapStart \in Int /\ HeapStart + HeapCount - 1 \in Int
        /\ HeapCount \in Nat
    BY SpaceNumbers
  <2>2. IsFiniteSet(HeapPages) /\ Cardinality(HeapPages) = HeapCount
    BY <2>1, FS_Interval DEF HeapPages
  <2>3. IsFiniteSet(HeapPages \cup {StackPage}) /\ Cardinality(HeapPages \cup {StackPage}) = m
    BY <2>1, <2>2, FS_AddElement, SpaceNumbers
  <2>4. HeapPages \cup {StackPage} = H
    OBVIOUS
  <2>5. QED
    BY <2>3, <2>4
<1>6. IsFiniteSet(E) /\ Cardinality(E) <= t /\ Cardinality(E) \in Nat
  BY <1>3, FS_CardinalityType DEF Counts
<1>7. Cardinality(E \cup H) = Cardinality(E) + m - Cardinality(E \cap H)
  BY <1>5, <1>6, FS_Union
<1>8. Cardinality(E \cap H) \in Nat /\ (Cardinality(E \cap H) = 0 <=> E \cap H = {})
  BY <1>6, FS_Intersection, FS_CardinalityType, FS_EmptySet
<1>9. Cardinality(E \cup H) = t + m <=> Disjoint(file)
  <2> DEFINE x == Cardinality(E)
             y == Cardinality(E \cap H)
             z == Cardinality(E \cup H)
  <2>1. x \in Nat /\ x <= t /\ y \in Nat
    BY <1>6, <1>8
  <2>2. z = x + m - y
    BY <1>7
  <2> HIDE DEF x, y, z, t, m
  <2>3. z = t + m <=> x = t /\ y = 0
    BY <1>1, <1>3, <2>1, <2>2
  <2>4. QED
    BY <1>8, <2>3 DEF Disjoint, x, y, z, t
<1>10. Fits(E \cup H) <=> nextFrame + FramesFor(file) <= NFrames
  <2> DEFINE A == E \cup H
  <2>1. A # {} /\ A = ElfPages(file) \cup {StackPage} \cup HeapPages /\ IsFiniteSet(A)
    BY <1>4 DEF Counts
  <2>2. Cardinality(Spans(A)) \in Nat /\ Cardinality(A) \in Nat
    BY <2>1, SpansAreFinite
  <2>3. FramesFor(file) = 3 + Cardinality(Spans(A)) + Cardinality(A)
    BY <2>1 DEF FramesFor
  <2>4. Cost(A) = 2 + Cardinality(Spans(A)) + Cardinality(A)
    BY <2>1 DEF Cost
  <2> HIDE DEF A
  <2>5. nextFrame + 1 + Cost(A) = nextFrame + FramesFor(file)
    BY <1>1, <2>2, <2>3, <2>4
  <2>6. QED
    BY <2>5 DEF Fits, A
<1>11. b.ok <=> Fits(E \cup H) /\ Cardinality(E \cup H) = t + m
  BY <1>4 DEF Counts
<1>12. QED
  BY <1>9, <1>10, <1>11 DEF FromElf

\* A segment needs at most m pages when it has at most m pages of words.
LEMMA CeilingIs ==
    ASSUME NEW h \in ProgramHeaders, NEW m \in Int
    PROVE  PageCount(h) <= m <=> h.memsz <= m * PageWords
<1> DEFINE k == PageWords
           a == h.memsz + k - 1
           n == PageCount(h)
           r == a % k
<1>1. k \in Nat \ {0} /\ h.memsz \in Nat /\ a \in Nat
  BY SpaceNumbers DEF ProgramHeaders
<1>2. n \in Nat /\ r \in 0..k - 1 /\ a = k * n + r
  BY <1>1, Division DEF PageCount
<1> DEFINE x == k * n
           y == m * k
<1>3. x \in Nat /\ y \in Int
  BY <1>1, <1>2
<1>4. h.memsz = x + r - k + 1
  <2>1. h.memsz + k - 1 = x + r
    BY <1>2
  <2> HIDE DEF x, r, n, k
  <2>2. QED
    BY <1>1, <1>2, <1>3, <2>1
<1> HIDE DEF a, r, n, k
<1>5. ASSUME n <= m PROVE h.memsz <= y
  <2>1. n * k <= m * k
    BY <1>1, <1>2, <1>5
  <2>2. n * k = x
    BY <1>1, <1>2
  <2> HIDE DEF x
  <2>3. x <= y
    BY <2>1, <2>2
  <2> HIDE DEF y
  <2>4. QED
    BY <1>1, <1>2, <1>3, <1>4, <2>3
<1>6. ASSUME h.memsz <= y PROVE n <= m
  <2>1. m >= 0
    <3>1. SUFFICES ASSUME m <= -1 PROVE FALSE
      OBVIOUS
    <3>2. m * k <= (-1) * k
      BY <1>1, <3>1
    <3>3. QED
      BY <1>1, <1>6, <3>2
  <2>2. m + 1 \in Nat /\ (m + 1) * k = m * k + k
    BY <1>1, <2>1
  <2>3. n * k = x
    BY <1>1, <1>2
  <2> DEFINE z == (m + 1) * k
             v == n * k
  <2>4. z = y + k /\ v = x
    BY <2>2, <2>3
  <2> HIDE DEF x, y, z, v
  <2>5. v < z
    BY <1>1, <1>2, <1>3, <1>4, <1>6, <2>4
  <2>6. n < m + 1
    BY <1>1, <1>2, <2>2, <2>5, ProductsInOrder DEF z, v
  <2>7. QED
    BY <1>2, <2>6
<1>7. QED
  BY <1>5, <1>6 DEF n, y, k

\* process.rs:1662-1684: the checks of a segment, as bounds on its addresses.
LEMMA ShapeIs ==
    ASSUME NEW h \in ProgramHeaders
    PROVE  ~BadShape(h) /\ (\A p \in ToSet(PagesOf(h)) : p < UserPages)
           <=> /\ h.memsz > 0 /\ h.vaddr % PageWords = 0
               /\ h.vaddr + h.memsz <= UserPages * PageWords
               /\ h.memsz <= MaxSegmentPages * PageWords
<1> DEFINE k == PageWords
           q == h.vaddr \div k
           n == PageCount(h)
           U == UserPages
<1>1. /\ k \in Nat \ {0} /\ h.memsz \in Nat /\ h.vaddr \in Nat
      /\ U \in Nat /\ MaxSegmentPages \in Nat
  BY SpaceNumbers, AddressAssumption DEF ProgramHeaders
<1>2. n \in Nat /\ q \in Nat /\ h.vaddr = k * q + (h.vaddr % k)
  BY <1>1, PagesAreNumbers, Division
<1>3. SUFFICES ASSUME h.vaddr % k = 0
      PROVE  h.memsz # 0 /\ ~(n > MaxSegmentPages) /\ (\A p \in ToSet(PagesOf(h)) : p < U)
             <=> /\ h.memsz > 0 /\ h.vaddr + h.memsz <= U * k
                 /\ h.memsz <= MaxSegmentPages * k
  BY DEF BadShape
<1>4. n <= MaxSegmentPages <=> h.memsz <= MaxSegmentPages * k
  BY <1>1, CeilingIs
<1>5. h.memsz # 0 => n >= 1
  <2>1. n <= 0 <=> h.memsz <= 0 * k
    BY CeilingIs
  <2>2. 0 * k = 0
    BY <1>1
  <2> HIDE DEF n, k
  <2>3. QED
    BY <1>1, <1>2, <2>1, <2>2
<1>6. ToSet(PagesOf(h)) = {q + i - 1 : i \in 1..n}
  BY PagesAsSet, PagesAreNumbers
<1>7. n >= 1 => ((\A p \in ToSet(PagesOf(h)) : p < U) <=> n <= U - q)
  <2> HIDE DEF n, q, U
  <2>1. SUFFICES ASSUME n >= 1 PROVE (\A i \in 1..n : q + i - 1 < U) <=> n <= U - q
    BY <1>6
  <2>2. ASSUME \A i \in 1..n : q + i - 1 < U PROVE n <= U - q
    <3>1. n \in 1..n
      BY <1>2, <2>1
    <3>2. q + n - 1 < U
      BY <2>2, <3>1
    <3>3. QED
      BY <1>1, <1>2, <3>2
  <2>3. ASSUME n <= U - q PROVE \A i \in 1..n : q + i - 1 < U
    BY <1>1, <1>2, <2>3
  <2>4. QED
    BY <2>2, <2>3
<1>8. n <= U - q <=> h.vaddr + h.memsz <= U * k
  <2> DEFINE x == k * q
             y == U * k
             z == (U - q) * k
  <2>1. z = y - x /\ x \in Int /\ y \in Int
    BY <1>1, <1>2
  <2>2. h.vaddr = x + 0
    BY <1>2, <1>3
  <2>3. n <= U - q <=> h.memsz <= z
    <3>1. U - q \in Int
      BY <1>1, <1>2
    <3>2. QED
      BY <3>1, CeilingIs
  <2> HIDE DEF x, y, z
  <2>4. h.memsz <= z <=> h.vaddr + h.memsz <= y
    BY <1>1, <2>1, <2>2
  <2>5. QED
    BY <2>3, <2>4 DEF y
<1> HIDE DEF n, q, U, k
<1>9. QED
  BY <1>1, <1>2, <1>4, <1>5, <1>7, <1>8

\* What the doc comments ask of a file is what the checks let pass and map_to does not refuse.
LEMMA ValidIsAccepted ==
    ASSUME NEW file \in ElfFileType
    PROVE  ValidElf(file) <=> Accepted(file) /\ Disjoint(file)
<1> DEFINE headers == LoadHeaders(file)
           loads == {h \in ToSet(file.table) : h.type = Load}
           Asked(h) == /\ h.filesz <= h.memsz /\ h.memsz > 0
                       /\ h.offset + h.filesz <= Len(file.words)
                       /\ h.vaddr % PageWords = 0
                       /\ h.vaddr + h.memsz <= UserPages * PageWords
                       /\ h.memsz <= MaxSegmentPages * PageWords
           Checked(h) == /\ h.memsz >= h.filesz /\ InFile(file, h)
                         /\ ~BadShape(h) /\ \A p \in ToSet(PagesOf(h)) : p < UserPages
           Covered == \E h \in loads : Covers(h, file.entry)
<1>1. headers \in Seq(ProgramHeaders) /\ ToSet(headers) = loads
  BY HeadersAreHeaders
<1>2. ASSUME NEW h \in loads PROVE h \in ProgramHeaders
  BY <1>1, LenProperties, ElementOfSeq DEF ToSet
<1>3. ASSUME NEW h \in loads PROVE Asked(h) <=> Checked(h)
  <2>1. h.filesz \in Nat /\ h.memsz \in Nat
    BY <1>2 DEF ProgramHeaders
  <2>2. h.memsz >= h.filesz <=> h.filesz <= h.memsz
    BY <2>1
  <2>3. InFile(file, h) <=> h.offset + h.filesz <= Len(file.words)
    BY DEF InFile
  <2>4. ~BadShape(h) /\ (\A p \in ToSet(PagesOf(h)) : p < UserPages)
        <=> /\ h.memsz > 0 /\ h.vaddr % PageWords = 0
            /\ h.vaddr + h.memsz <= UserPages * PageWords
            /\ h.memsz <= MaxSegmentPages * PageWords
    BY <1>2, ShapeIs
  <2>5. QED
    BY <2>2, <2>3, <2>4
<1>4. Covered => file.table # <<>> /\ headers # <<>>
  <2>1. ToSet(<<>>) = {}
    BY DEF ToSet
  <2>2. Covered => ToSet(file.table) # {} /\ ToSet(headers) # {}
    BY <1>1
  <2>3. QED
    BY <2>1, <2>2
<1>5. ValidElf(file) <=>
        /\ file.header /\ file.tableFits /\ file.entry = EntryAddress
        /\ Len(headers) <= MaxLoadSegments /\ Covered
        /\ \A h \in loads : Asked(h)
        /\ TotalPages(headers) <= MaxElfPages /\ Disjoint(file)
  BY DEF ValidElf
<1>6. Accepted(file) <=>
        /\ file.header /\ file.tableFits /\ file.entry = EntryAddress
        /\ Len(headers) <= MaxLoadSegments /\ Covered
        /\ \A h \in loads : Checked(h)
        /\ TotalPages(headers) <= MaxElfPages
  <2>1. Parses(file) <=>
          /\ file.header /\ file.table # <<>> /\ file.tableFits
          /\ headers # <<>> /\ Len(headers) <= MaxLoadSegments
          /\ \A h \in loads : h.memsz >= h.filesz /\ InFile(file, h)
    BY <1>1 DEF Parses
  <2>2. Accepted(file) <=>
          /\ Parses(file) /\ file.entry = EntryAddress /\ Covered
          /\ \A h \in loads : ~BadShape(h) /\ \A p \in ToSet(PagesOf(h)) : p < UserPages
          /\ TotalPages(headers) <= MaxElfPages
    BY <1>1 DEF Accepted
  <2> HIDE DEF Covered, headers, loads
  <2>3. QED
    BY <1>4, <2>1, <2>2
<1> HIDE DEF Covered, headers, loads, Asked, Checked
<1>7. QED
  BY <1>3, <1>5, <1>6

\* process.rs:1755: the address at which the loader panics is beyond the canonical ones.
LEMMA PanicIsNotCanonical ==
    ASSUME NEW file \in ElfFileType, Panics(file)
    PROVE  ~(\A h \in ToSet(LoadHeaders(file)) : h.vaddr < CanonicalPages * PageWords)
<1> DEFINE headers == LoadHeaders(file)
<1>1. headers \in Seq(ProgramHeaders) /\ DOMAIN headers = 1..Len(headers)
  BY HeadersAreHeaders, LenProperties
<1>2. PICK i \in DOMAIN headers :
        ~BadShape(headers[i]) /\ PagesOf(headers[i])[1] >= CanonicalPages
  BY DEF Panics
<1> DEFINE h == headers[i]
           k == PageWords
           q == h.vaddr \div k
<1>3. h \in ProgramHeaders /\ h \in ToSet(headers)
  BY <1>1, ElementOfSeq DEF ToSet
<1>4. /\ k \in Nat \ {0} /\ h.memsz \in Nat /\ h.vaddr \in Nat /\ CanonicalPages \in Nat
      /\ h.memsz # 0 /\ h.vaddr % k = 0
  BY <1>2, <1>3, SpaceNumbers, AddressAssumption DEF ProgramHeaders, BadShape
<1>5. PageCount(h) \in Nat /\ q \in Nat /\ h.vaddr = k * q + 0
  BY <1>3, <1>4, PagesAreNumbers, Division
<1>6. PagesOf(h)[1] = q + 1 - 1
  <2>1. PageCount(h) <= 0 <=> h.memsz <= 0 * k
    BY <1>3, CeilingIs
  <2>2. 0 * k = 0
    BY <1>4
  <2> HIDE DEF h, k
  <2>3. 1 \in 1..PageCount(h)
    BY <1>4, <1>5, <2>1, <2>2
  <2>4. QED
    BY <1>3, <2>3, PagesAreNumbers DEF k
<1>7. q >= CanonicalPages
  <2> HIDE DEF q
  <2>1. QED
    BY <1>2, <1>5, <1>6
<1>8. q * k >= CanonicalPages * k
  <2> HIDE DEF h, q, k
  <2>1. QED
    BY <1>4, <1>5, <1>7
<1>9. h.vaddr = q * k
  BY <1>4, <1>5
<1>10. ~(h.vaddr < CanonicalPages * k)
  <2> DEFINE x == q * k
             y == CanonicalPages * k
  <2>1. x \in Int /\ y \in Int
    BY <1>4, <1>5
  <2> HIDE DEF x, y
  <2>2. QED
    BY <1>8, <1>9, <2>1 DEF x, y
<1>11. QED
  BY <1>3, <1>10

LEMMA LoadsKept ==
    SpaceInv /\ LoadsExactlyWhatIsValid /\ [SpacesNext]_spaceVars => LoadsExactlyWhatIsValid'
<1>1. SUFFICES ASSUME SpaceInv, LoadsExactlyWhatIsValid, [SpacesNext]_spaceVars
               PROVE  LoadsExactlyWhatIsValid'
  OBVIOUS
<1>2. ASSUME NEW file \in ElfFiles, RunElf(file) PROVE LoadsExactlyWhatIsValid'
  <2> DEFINE loads == Accepted(file) /\ FromElf(file).ok
  <2>1. file \in ElfFileType
    BY AddressAssumption
  <2>2. lastLoad' = [result |-> IF loads THEN "loaded" ELSE IF Panics(file) THEN "panic"
                                ELSE "refused",
                     valid |-> ValidElf(file),
                     canonical |-> \A h \in ToSet(LoadHeaders(file)) :
                                     h.vaddr < CanonicalPages * PageWords,
                     enough |-> nextFrame + FramesFor(file) <= NFrames]
    BY <1>2 DEF RunElf
  <2>3. loads <=> ValidElf(file) /\ nextFrame + FramesFor(file) <= NFrames
    BY <1>1, <2>1, LoadSucceeds, ValidIsAccepted DEF SpaceInv
  <2>4. Panics(file) => ~(\A h \in ToSet(LoadHeaders(file)) :
                            h.vaddr < CanonicalPages * PageWords)
    BY <2>1, PanicIsNotCanonical
  <2> HIDE DEF loads
  <2>5. lastLoad'.result = "loaded" <=> loads
    BY <2>2
  <2>6. /\ lastLoad'.valid <=> ValidElf(file)
        /\ lastLoad'.enough <=> nextFrame + FramesFor(file) <= NFrames
    BY <2>2
  <2>7. lastLoad'.result = "panic" => ~lastLoad'.canonical
    BY <2>2, <2>4
  <2>8. QED
    BY <2>3, <2>5, <2>6, <2>7 DEF LoadsExactlyWhatIsValid
<1>3. ASSUME UNCHANGED lastLoad PROVE LoadsExactlyWhatIsValid'
  BY <1>1, <1>3 DEF LoadsExactlyWhatIsValid
<1>4. CASE UNCHANGED spaceVars \/ ForkUnderRunElf \/ SpacesHalted
  BY <1>3, <1>4 DEF spaceVars, ForkUnderRunElf, SpacesHalted
<1>5. ASSUME NEW image \in Images, CreateAtBoot(image) \/ RunFile(image) \/ Exec(image)
      PROVE  LoadsExactlyWhatIsValid'
  BY <1>3, <1>5 DEF CreateAtBoot, RunFile, Exec
<1>6. CASE RunBoot \/ WaitForChild \/ KillChild \/ Ends \/ Fork
  BY <1>3, <1>6 DEF RunBoot, WaitForChild, KillChild, Ends, Fork
<1>7. ASSUME NEW page \in 0..UserPages - 1, NEW w \in 1..PageWords, Store(page, w)
      PROVE  LoadsExactlyWhatIsValid'
  BY <1>3, <1>7 DEF Store
<1>8. QED
  BY <1>1, <1>2, <1>4, <1>5, <1>6, <1>7 DEF SpacesNext

\* elf.rs:100 and process.rs:1656: runelf loads exactly the files the doc comments allow, as long as
\* there are frames for their pages and page tables, and panics only on an address that is not
\* canonical, for every file, every size of a page and every state of the memory before.
THEOREM ValidFilesLoad == SpacesSpec => []LoadsExactlyWhatIsValid
<1>1. SpacesInit => LoadsExactlyWhatIsValid
  BY DEF SpacesInit, LoadsExactlyWhatIsValid
<1>2. QED
  BY <1>1, SpacesAtFirst, SpacesKept, LoadsKept, PTL DEF SpacesSpec
=============================================================================
