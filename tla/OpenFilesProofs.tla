-------------------------- MODULE OpenFilesProofs --------------------------
(***************************************************************************)
(* Proofs about OpenFiles, for every number of paths, descriptors and      *)
(* bytes: types, and that the copies descriptors hold cannot be told from  *)
(* one shared file unless one of the listed things has happened.           *)
(***************************************************************************)
EXTENDS OpenFiles, TLAPS

(* Contents of files.                                                      *)

LEMMA ContentsAreSequences ==
    ASSUME NEW c \in Contents
    PROVE  /\ Len(c) \in 0 .. MaxBytes
           /\ DOMAIN c = 1 .. Len(c)
           /\ \A i \in 1 .. Len(c) : c[i] \in 0 .. MaxWrites
<1>1. PICK n \in 0 .. MaxBytes : c \in [1 .. n -> 0 .. MaxWrites]
  BY DEF Contents
<1>2. Len(c) = n
  BY <1>1
<1>3. QED
  BY <1>1, <1>2

LEMMA SequencesAreContents ==
    ASSUME NEW n \in 0 .. MaxBytes, NEW c \in [1 .. n -> 0 .. MaxWrites]
    PROVE  c \in Contents /\ Len(c) = n
BY DEF Contents

LEMMA EmptyIsContents == <<>> \in Contents /\ Len(<<>>) = 0
<1>1. 0 \in 0 .. MaxBytes
  BY OpenFilesAssumption
<1>2. <<>> \in [1 .. 0 -> 0 .. MaxWrites]
  OBVIOUS
<1>3. QED
  BY <1>1, <1>2, SequencesAreContents

LEMMA ChunkIsContents ==
    ASSUME NEW byte \in 0 .. MaxWrites, NEW n \in 0 .. MaxBytes
    PROVE  /\ Chunk(byte, n) \in Contents /\ Len(Chunk(byte, n)) = n
           /\ \A i \in 1 .. n : Chunk(byte, n)[i] = byte
<1>1. Chunk(byte, n) \in [1 .. n -> 0 .. MaxWrites]
  BY DEF Chunk
<1>2. QED
  BY <1>1, SequencesAreContents DEF Chunk

LEMMA OverlaidIsContents ==
    ASSUME NEW content \in Contents, NEW bytes \in Contents, NEW pos \in Nat,
           pos + Len(bytes) <= MaxBytes
    PROVE  /\ Overlaid(content, pos, bytes) \in Contents
           /\ Len(Overlaid(content, pos, bytes)) >= pos + Len(bytes)
<1> DEFINE n == IF Len(content) < pos + Len(bytes) THEN pos + Len(bytes) ELSE Len(content)
<1>1. /\ Len(content) \in 0 .. MaxBytes /\ Len(bytes) \in 0 .. MaxBytes
      /\ \A i \in 1 .. Len(content) : content[i] \in 0 .. MaxWrites
      /\ \A i \in 1 .. Len(bytes) : bytes[i] \in 0 .. MaxWrites
  BY ContentsAreSequences
<1>2. n \in 0 .. MaxBytes /\ n >= pos + Len(bytes)
  BY <1>1, OpenFilesAssumption
<1>3. Overlaid(content, pos, bytes) \in [1 .. n -> 0 .. MaxWrites]
  <2>1. ASSUME NEW i \in 1 .. n
        PROVE  (IF i \in pos + 1 .. pos + Len(bytes) THEN bytes[i - pos]
                ELSE IF i <= Len(content) THEN content[i] ELSE 0) \in 0 .. MaxWrites
    BY <1>1, <1>2, OpenFilesAssumption
  <2>2. QED
    BY <2>1 DEF Overlaid
<1>4. QED
  <2> HIDE DEF n
  <2>1. QED
    BY <1>2, <1>3, SequencesAreContents

\* The new contents laid over old ones as far as those go.
LEMMA CutOffIsContents ==
    ASSUME NEW old \in Contents, NEW new \in Contents
    PROVE  [i \in 1 .. Len(old) |-> IF i <= Len(new) THEN new[i] ELSE 0] \in Contents
<1>1. Len(old) \in 0 .. MaxBytes /\ Len(new) \in 0 .. MaxBytes
      /\ \A i \in 1 .. Len(new) : new[i] \in 0 .. MaxWrites
  BY ContentsAreSequences
<1>2. [i \in 1 .. Len(old) |-> IF i <= Len(new) THEN new[i] ELSE 0]
        \in [1 .. Len(old) -> 0 .. MaxWrites]
  BY <1>1, OpenFilesAssumption
<1>3. QED
  BY <1>1, <1>2, SequencesAreContents

-----------------------------------------------------------------------------
(* The disk and the tables, element by element.                            *)

DiskOK(files) == DOMAIN files \subseteq Paths /\ \A p \in DOMAIN files : files[p] \in Contents

FileOK(f) == f \in OpenFileType /\ f.pos <= Len(f.buffer)

TablesOK(table) ==
  /\ DOMAIN table = Owners
  /\ \A o \in Owners : DOMAIN table[o] \subseteq FdSlots
  /\ \A o \in Owners : \A d \in DOMAIN table[o] : FileOK(table[o][d])

LEMMA AsReadIsContents ==
    ASSUME NEW files, DiskOK(files), NEW p \in Paths
    PROVE  AsRead(files, p) \in Contents
BY EmptyIsContents DEF DiskOK, AsRead

LEMMA AfterWriteIsOK ==
    ASSUME DiskOK(disk), NEW p \in Paths, NEW new \in Contents, NEW files \in AfterWrite(p, new)
    PROVE  /\ DiskOK(files)
           /\ \A q \in Paths \ {p} : AsRead(files, q) = AsRead(disk, q)
           /\ AsRead(WithFd(disk, p, new), p) = new
<1>1. CASE files = WithFd(disk, p, new)
  BY <1>1 DEF DiskOK, WithFd, AsRead
<1>2. CASE files = disk
  BY <1>2 DEF DiskOK, WithFd, AsRead
<1>3. CASE /\ p \in DOMAIN disk
           /\ files = [disk EXCEPT ![p] =
                         [i \in 1 .. Len(@) |-> IF i <= Len(new) THEN new[i] ELSE 0]]
  <2>1. [i \in 1 .. Len(disk[p]) |-> IF i <= Len(new) THEN new[i] ELSE 0] \in Contents
    BY <1>3, CutOffIsContents DEF DiskOK
  <2>2. QED
    BY <1>3, <2>1 DEF DiskOK, WithFd, AsRead
<1>4. QED
  BY <1>1, <1>2, <1>3 DEF AfterWrite

\* Facts about the copies of a file in a table, without the sets of handles.
CopiesAre(table, p, c) ==
  \A o \in Owners : \A d \in DOMAIN table[o] : table[o][d].path = p => table[o][d].buffer = c
Clean(table, p) ==
  \A o \in Owners : \A d \in DOMAIN table[o] : table[o][d].path = p => ~table[o][d].dirty
NotOpen(table, p) ==
  \A o \in Owners : \A d \in DOMAIN table[o] : table[o][d].path # p

LEMMA HandlesAndCopies ==
    ASSUME NEW table, TablesOK(table), NEW p, NEW c
    PROVE  /\ (\A h \in OpenOn(table, p) : table[h[1]][h[2]].buffer = c) <=> CopiesAre(table, p, c)
           /\ DirtyOn(table, p) = {} <=> Clean(table, p)
           /\ OpenOn(table, p) = {} <=> NotOpen(table, p)
<1>1. ASSUME NEW o \in Owners, NEW d \in DOMAIN table[o], table[o][d].path = p
      PROVE  <<o, d>> \in OpenOn(table, p)
  BY <1>1 DEF OpenOn, TablesOK
<1>2. ASSUME NEW h \in OpenOn(table, p)
      PROVE  h[1] \in Owners /\ h[2] \in DOMAIN table[h[1]] /\ table[h[1]][h[2]].path = p
  BY DEF OpenOn
<1>3. (\A h \in OpenOn(table, p) : table[h[1]][h[2]].buffer = c) <=> CopiesAre(table, p, c)
  BY <1>1, <1>2 DEF CopiesAre
<1>4. DirtyOn(table, p) = {} <=> Clean(table, p)
  <2>1. ASSUME NEW o \in Owners, NEW d \in DOMAIN table[o], table[o][d].path = p,
               table[o][d].dirty
        PROVE  <<o, d>> \in DirtyOn(table, p)
    BY <1>1, <2>1 DEF DirtyOn
  <2>2. ASSUME NEW h \in DirtyOn(table, p)
        PROVE  ~Clean(table, p)
    <3>1. h \in OpenOn(table, p) /\ table[h[1]][h[2]].dirty
      BY DEF DirtyOn
    <3>2. QED
      BY <1>2, <3>1 DEF Clean
  <2>3. QED
    BY <2>1, <2>2 DEF Clean
<1>5. OpenOn(table, p) = {} <=> NotOpen(table, p)
  BY <1>1, <1>2 DEF NotOpen
<1>6. QED
  BY <1>3, <1>4, <1>5

LEMMA AgreementByCopies ==
    ASSUME TablesOK(fds)
    PROVE  OpenFilesAgree <=>
             \A p \in Paths : ~spoilt[p] =>
               CopiesAre(fds, p, truth[p]) /\ (Clean(fds, p) => AsRead(disk, p) = truth[p])
BY HandlesAndCopies DEF OpenFilesAgree

-----------------------------------------------------------------------------
(* The invariant.                                                          *)

\* A child that is not there has no descriptors: fork may overwrite its table.
ControlOK ==
  /\ hasChild \in BOOLEAN /\ turn \in Owners \cup {"shell"}
  /\ turn = "child" => hasChild
  /\ ~hasChild => DOMAIN fds["child"] = {}
  /\ writes \in 0 .. MaxWrites

OpenInv ==
  /\ DiskOK(disk) /\ TablesOK(fds) /\ ControlOK
  /\ truth \in [Paths -> Contents] /\ spoilt \in [Paths -> BOOLEAN]
  /\ OpenFilesAgree

\* What a step has to show about the new disk and tables for the history to stay in agreement.
LEMMA SettleAgrees ==
    ASSUME OpenInv, DiskOK(disk'), TablesOK(fds'), ControlOK',
           NEW causes, NEW shared \in [Paths -> Contents], Settle(causes, shared),
           \A p \in Paths : ~spoilt[p] /\ p \notin causes =>
             /\ CopiesAre(fds', p, shared[p])
             /\ Clean(fds', p) => AsRead(disk', p) = shared[p]
    PROVE  OpenInv'
<1>1. spoilt' \in [Paths -> BOOLEAN]
      /\ \A p \in Paths : spoilt'[p] = ((spoilt[p] \/ p \in causes) /\ OpenOn(fds', p) # {})
  BY DEF Settle, OpenInv
<1>2. truth' \in [Paths -> Contents]
      /\ \A p \in Paths : truth'[p] = IF ~(spoilt[p] \/ p \in causes) THEN shared[p]
                                      ELSE IF OpenOn(fds', p) = {} THEN AsRead(disk', p) ELSE <<>>
  BY AsReadIsContents, EmptyIsContents DEF Settle
<1>3. ASSUME NEW p \in Paths, ~spoilt'[p]
      PROVE  CopiesAre(fds', p, truth'[p]) /\ (Clean(fds', p) => AsRead(disk', p) = truth'[p])
  <2>1. CASE ~spoilt[p] /\ p \notin causes
    BY <1>2, <2>1
  <2>2. CASE spoilt[p] \/ p \in causes
    <3>1. OpenOn(fds', p) = {}
      BY <1>1, <1>3, <2>2
    <3>2. NotOpen(fds', p)
      BY <3>1, HandlesAndCopies
    <3>3. QED
      BY <1>2, <2>2, <3>1, <3>2 DEF NotOpen, CopiesAre
  <2>3. QED
    BY <2>1, <2>2
<1>4. \A p \in Paths : ~spoilt'[p] =>
        /\ \A h \in OpenOn(fds', p) : fds'[h[1]][h[2]].buffer = truth'[p]
        /\ DirtyOn(fds', p) = {} => AsRead(disk', p) = truth'[p]
  BY <1>3, HandlesAndCopies
<1>5. OpenFilesAgree'
  BY <1>4 DEF OpenFilesAgree
<1>6. QED
  BY <1>1, <1>2, <1>5 DEF OpenInv

\* A table with one descriptor more, or another one in its place.
LEMMA SetFdTables ==
    ASSUME TablesOK(fds), NEW o \in Owners, NEW d \in FdSlots, NEW f, FileOK(f)
    PROVE  /\ TablesOK(SetFd(o, d, f))
           /\ \A p, c : CopiesAre(SetFd(o, d, f), p, c) <=>
                /\ f.path = p => f.buffer = c
                /\ \A x \in Owners : \A y \in DOMAIN fds[x] :
                     <<x, y>> # <<o, d>> /\ fds[x][y].path = p => fds[x][y].buffer = c
           /\ \A p : Clean(SetFd(o, d, f), p) <=>
                /\ f.path = p => ~f.dirty
                /\ \A x \in Owners : \A y \in DOMAIN fds[x] :
                     <<x, y>> # <<o, d>> /\ fds[x][y].path = p => ~fds[x][y].dirty
<1> DEFINE t == SetFd(o, d, f)
<1>1. /\ DOMAIN t = Owners /\ \A x \in Owners \ {o} : t[x] = fds[x]
      /\ DOMAIN t[o] = DOMAIN fds[o] \cup {d}
      /\ t[o][d] = f
      /\ \A y \in DOMAIN fds[o] \ {d} : t[o][y] = fds[o][y]
  BY DEF SetFd, WithFd, TablesOK
<1> HIDE DEF t
<1>2. TablesOK(t)
  BY <1>1 DEF TablesOK
<1>3. ASSUME NEW p, NEW c
      PROVE  CopiesAre(t, p, c) <=>
               /\ f.path = p => f.buffer = c
               /\ \A x \in Owners : \A y \in DOMAIN fds[x] :
                    <<x, y>> # <<o, d>> /\ fds[x][y].path = p => fds[x][y].buffer = c
  <2>1. ASSUME CopiesAre(t, p, c)
        PROVE  /\ f.path = p => f.buffer = c
               /\ \A x \in Owners : \A y \in DOMAIN fds[x] :
                    <<x, y>> # <<o, d>> /\ fds[x][y].path = p => fds[x][y].buffer = c
    BY <1>1, <2>1 DEF CopiesAre
  <2>2. ASSUME f.path = p => f.buffer = c,
               \A x \in Owners : \A y \in DOMAIN fds[x] :
                 <<x, y>> # <<o, d>> /\ fds[x][y].path = p => fds[x][y].buffer = c,
               NEW x \in Owners, NEW y \in DOMAIN t[x], t[x][y].path = p
        PROVE  t[x][y].buffer = c
    BY <1>1, <2>2
  <2>3. QED
    BY <2>1, <2>2 DEF CopiesAre
<1>4. ASSUME NEW p
      PROVE  Clean(t, p) <=>
               /\ f.path = p => ~f.dirty
               /\ \A x \in Owners : \A y \in DOMAIN fds[x] :
                    <<x, y>> # <<o, d>> /\ fds[x][y].path = p => ~fds[x][y].dirty
  <2>1. ASSUME Clean(t, p)
        PROVE  /\ f.path = p => ~f.dirty
               /\ \A x \in Owners : \A y \in DOMAIN fds[x] :
                    <<x, y>> # <<o, d>> /\ fds[x][y].path = p => ~fds[x][y].dirty
    BY <1>1, <2>1 DEF Clean
  <2>2. ASSUME f.path = p => ~f.dirty,
               \A x \in Owners : \A y \in DOMAIN fds[x] :
                 <<x, y>> # <<o, d>> /\ fds[x][y].path = p => ~fds[x][y].dirty,
               NEW x \in Owners, NEW y \in DOMAIN t[x], t[x][y].path = p
        PROVE  ~t[x][y].dirty
    BY <1>1, <2>2
  <2>3. QED
    BY <2>1, <2>2 DEF Clean
<1>5. QED
  BY <1>2, <1>3, <1>4 DEF t

LEMMA SetFdControl ==
    ASSUME OpenInv, NEW o \in Owners, Running(o), NEW d \in FdSlots, NEW f,
           fds' = SetFd(o, d, f), UNCHANGED <<hasChild, turn>>, writes' \in 0 .. MaxWrites
    PROVE  ControlOK'
<1>1. o = "child" \/ fds'["child"] = fds["child"]
  BY DEF Owners, SetFd, OpenInv, TablesOK
<1>2. o = "child" => hasChild
  BY DEF OpenInv, ControlOK, Running
<1>3. QED
  BY <1>1, <1>2 DEF OpenInv, ControlOK

-----------------------------------------------------------------------------
(* The steps.                                                              *)

LEMMA OpenPathKeeps ==
    ASSUME OpenInv, NEW o \in Owners, NEW p \in Paths, OpenPath(o, p)
    PROVE  OpenInv'
<1>1. PICK d \in FdSlots, readFails \in BOOLEAN :
        /\ FreeFd(o, d)
        /\ fds' = SetFd(o, d, [path |-> p, buffer |-> IF readFails THEN <<>> ELSE AsRead(disk, p),
                               pos |-> 0, dirty |-> FALSE])
        /\ UNCHANGED <<disk, hasChild, turn, writes>>
        /\ Settle(IF (readFails /\ p \in DOMAIN disk) \/ DirtyOn(fds, p) # {}
                  THEN {p} ELSE {}, truth)
  BY DEF OpenPath
<1> DEFINE f == [path |-> p, buffer |-> IF readFails THEN <<>> ELSE AsRead(disk, p),
                 pos |-> 0, dirty |-> FALSE]
           causes == IF (readFails /\ p \in DOMAIN disk) \/ DirtyOn(fds, p) # {} THEN {p} ELSE {}
<1>2. FileOK(f)
  <2>1. f.buffer \in Contents
    BY AsReadIsContents, EmptyIsContents DEF OpenInv
  <2>2. 0 \in 0 .. MaxBytes /\ 0 <= Len(f.buffer)
    BY <2>1, ContentsAreSequences, OpenFilesAssumption
  <2>3. QED
    BY <2>1, <2>2 DEF FileOK, OpenFileType
<1>3. /\ f.path = p /\ ~f.dirty
      /\ ~(readFails /\ p \in DOMAIN disk) => f.buffer = AsRead(disk, p)
      /\ Settle(causes, truth) /\ fds' = SetFd(o, d, f)
  BY <1>1 DEF AsRead
<1> HIDE DEF f, causes
<1>4. TablesOK(fds') /\ DiskOK(disk')
  BY <1>1, <1>2, <1>3, SetFdTables DEF OpenInv
<1>5. ASSUME NEW q \in Paths, ~spoilt[q], q \notin causes
      PROVE  CopiesAre(fds', q, truth[q]) /\ (Clean(fds', q) => AsRead(disk', q) = truth[q])
  <2>1. CopiesAre(fds, q, truth[q]) /\ (Clean(fds, q) => AsRead(disk, q) = truth[q])
    BY <1>5, AgreementByCopies DEF OpenInv
  <2>2. q = p => Clean(fds, q) /\ f.buffer = AsRead(disk, q)
    BY <1>3, <1>5, HandlesAndCopies DEF causes, OpenInv
  <2>3. f.path = q => f.buffer = truth[q]
    BY <1>3, <2>1, <2>2
  <2>4. CopiesAre(fds', q, truth[q])
    <3>1. \A x \in Owners : \A y \in DOMAIN fds[x] :
            <<x, y>> # <<o, d>> /\ fds[x][y].path = q => fds[x][y].buffer = truth[q]
      BY <2>1 DEF CopiesAre
    <3>2. QED
      BY <1>2, <1>3, <2>3, <3>1, SetFdTables DEF OpenInv
  <2>5. ASSUME Clean(fds', q) PROVE Clean(fds, q)
    <3>1. d \notin DOMAIN fds[o]
      BY <1>1 DEF FreeFd
    <3>2. \A x \in Owners : \A y \in DOMAIN fds[x] :
            <<x, y>> # <<o, d>> /\ fds[x][y].path = q => ~fds[x][y].dirty
      BY <1>2, <1>3, <2>5, SetFdTables DEF OpenInv
    <3>3. QED
      BY <3>1, <3>2 DEF Clean
  <2>6. QED
    BY <1>1, <2>1, <2>4, <2>5
<1>6. ControlOK'
  BY <1>1, <1>3, SetFdControl DEF OpenPath, OpenInv, ControlOK
<1>7. QED
  BY <1>3, <1>4, <1>5, <1>6, SettleAgrees DEF OpenInv

LEMMA ReadOpenKeeps ==
    ASSUME OpenInv, NEW o \in Owners, NEW d \in FdSlots, ReadOpen(o, d)
    PROVE  OpenInv'
<1>1. PICK n \in 0 .. MaxChunk :
        fds' = [fds EXCEPT ![o][d].pos = LeastOf(@ + n, Len(fds[o][d].buffer))]
  BY DEF ReadOpen
<1>2. d \in DOMAIN fds[o] /\ UNCHANGED <<disk, hasChild, turn, writes, truth, spoilt>>
  BY DEF ReadOpen, IsOpen
<1> DEFINE newPos == LeastOf(fds[o][d].pos + n, Len(fds[o][d].buffer))
<1>3. FileOK(fds[o][d])
  BY <1>2 DEF OpenInv, TablesOK
<1>4. newPos \in 0 .. MaxBytes /\ newPos <= Len(fds[o][d].buffer)
  <2>1. /\ fds[o][d].buffer \in Contents /\ fds[o][d].pos \in 0 .. MaxBytes
        /\ fds[o][d].pos <= Len(fds[o][d].buffer) /\ n \in Nat
    BY <1>3, OpenFilesAssumption DEF FileOK, OpenFileType
  <2>2. Len(fds[o][d].buffer) \in 0 .. MaxBytes
    BY <2>1, ContentsAreSequences
  <2> DEFINE pos == fds[o][d].pos  len == Len(fds[o][d].buffer)
  <2>3. pos \in Nat /\ pos <= len /\ len \in 0 .. MaxBytes /\ MaxBytes \in Nat
    BY <2>1, <2>2, OpenFilesAssumption
  <2> HIDE DEF pos, len
  <2>4. LeastOf(pos + n, len) \in 0 .. MaxBytes /\ LeastOf(pos + n, len) <= len
    BY <2>1, <2>3 DEF LeastOf
  <2>5. QED
    BY <2>4 DEF pos, len
<1>5. /\ DOMAIN fds' = Owners
      /\ \A x \in Owners : DOMAIN fds'[x] = DOMAIN fds[x]
      /\ \A x \in Owners : \A y \in DOMAIN fds[x] :
           <<x, y>> # <<o, d>> => fds'[x][y] = fds[x][y]
      /\ fds'[o][d] = [fds[o][d] EXCEPT !.pos = newPos]
  BY <1>1, <1>2 DEF OpenInv, TablesOK
<1> HIDE DEF newPos
<1>6. /\ FileOK(fds'[o][d]) /\ fds'[o][d].path = fds[o][d].path
      /\ fds'[o][d].buffer = fds[o][d].buffer /\ fds'[o][d].dirty = fds[o][d].dirty
  BY <1>3, <1>4, <1>5 DEF FileOK, OpenFileType
<1>7. TablesOK(fds')
  <2>1. ASSUME NEW x \in Owners, NEW y \in DOMAIN fds'[x] PROVE FileOK(fds'[x][y])
    <3>1. CASE <<x, y>> = <<o, d>>
      BY <1>6, <3>1
    <3>2. CASE <<x, y>> # <<o, d>>
      BY <1>5, <3>2 DEF OpenInv, TablesOK
    <3>3. QED
      BY <3>1, <3>2
  <2>2. QED
    BY <1>5, <2>1 DEF OpenInv, TablesOK
<1>8. \A x \in Owners : \A y \in DOMAIN fds[x] :
        /\ fds'[x][y].path = fds[x][y].path /\ fds'[x][y].buffer = fds[x][y].buffer
        /\ fds'[x][y].dirty = fds[x][y].dirty
  BY <1>5, <1>6
<1>9. ASSUME NEW p \in Paths, ~spoilt[p]
      PROVE  CopiesAre(fds', p, truth[p]) /\ (Clean(fds', p) => AsRead(disk, p) = truth[p])
  <2>1. CopiesAre(fds, p, truth[p]) /\ (Clean(fds, p) => AsRead(disk, p) = truth[p])
    BY <1>9, AgreementByCopies DEF OpenInv
  <2>2. CopiesAre(fds', p, truth[p])
    BY <1>5, <1>8, <2>1 DEF CopiesAre
  <2>3. Clean(fds', p) => Clean(fds, p)
    BY <1>5, <1>8 DEF Clean
  <2>4. QED
    BY <2>1, <2>2, <2>3
<1>10. OpenFilesAgree'
  <2>1. \A p \in Paths : ~spoilt'[p] =>
          /\ \A h \in OpenOn(fds', p) : fds'[h[1]][h[2]].buffer = truth'[p]
          /\ DirtyOn(fds', p) = {} => AsRead(disk', p) = truth'[p]
    BY <1>2, <1>7, <1>9, HandlesAndCopies
  <2>2. QED
    BY <2>1 DEF OpenFilesAgree
<1>11. ControlOK' /\ DiskOK(disk')
  BY <1>2, <1>5 DEF OpenInv, ControlOK, DiskOK, Owners
<1>12. QED
  BY <1>2, <1>7, <1>10, <1>11 DEF OpenInv

\* What write_fd makes of a descriptor; the bytes it takes end within MAX_FILE_BYTES.
LEMMA WrittenIsOK ==
    ASSUME NEW f, FileOK(f), NEW n \in 0 .. MaxChunk, NEW byte \in 0 .. MaxWrites
    PROVE  LET bytes == Chunk(byte, AcceptedBytes(f, n))
           IN /\ bytes \in Contents /\ f.pos + Len(bytes) <= MaxBytes
              /\ FileOK(Written(f, bytes))
              /\ Written(f, bytes).path = f.path /\ Written(f, bytes).dirty
              /\ Written(f, bytes).buffer = Overlaid(f.buffer, f.pos, bytes)
<1> DEFINE k == AcceptedBytes(f, n)
           bytes == Chunk(byte, k)
           laid == Overlaid(f.buffer, f.pos, bytes)
<1>1. /\ f \in OpenFileType /\ f.buffer \in Contents /\ f.pos \in 0 .. MaxBytes
      /\ n \in Nat /\ MaxBytes \in Nat
  BY OpenFilesAssumption DEF FileOK, OpenFileType
<1>2. k \in 0 .. MaxBytes /\ f.pos + k <= MaxBytes
  <2> DEFINE pos == f.pos
  <2>1. pos \in 0 .. MaxBytes
    BY <1>1
  <2> HIDE DEF pos
  <2>2. LeastOf(n, MaxBytes - pos) \in 0 .. MaxBytes /\ pos + LeastOf(n, MaxBytes - pos) <= MaxBytes
    BY <1>1, <2>1 DEF LeastOf
  <2>3. QED
    BY <2>2 DEF AcceptedBytes, pos
<1> HIDE DEF k
<1>3. bytes \in Contents /\ Len(bytes) = k
  BY <1>2, ChunkIsContents
<1> HIDE DEF bytes
<1>4. laid \in Contents /\ Len(laid) >= f.pos + k
  BY <1>1, <1>2, <1>3, OverlaidIsContents
<1>5. Written(f, bytes) = [f EXCEPT !.buffer = laid, !.pos = f.pos + k, !.dirty = TRUE]
  BY <1>3 DEF Written
<1> HIDE DEF laid
<1>6. f.pos + k \in 0 .. MaxBytes
  BY <1>1, <1>2
<1>7. /\ Written(f, bytes) = [path |-> f.path, buffer |-> laid, pos |-> f.pos + k, dirty |-> TRUE]
      /\ f.path \in Paths
  BY <1>1, <1>5 DEF OpenFileType
<1>8. FileOK(Written(f, bytes))
  BY <1>4, <1>6, <1>7 DEF FileOK, OpenFileType
<1>9. QED
  BY <1>2, <1>3, <1>7, <1>8 DEF bytes, k, laid

LEMMA WriteOpenKeeps ==
    ASSUME OpenInv, NEW o \in Owners, NEW d \in FdSlots, WriteOpen(o, d)
    PROVE  OpenInv'
<1> DEFINE f == fds[o][d]
<1>1. PICK n \in 0 .. MaxChunk :
        LET bytes == Chunk(writes', AcceptedBytes(f, n))
        IN /\ fds' = SetFd(o, d, Written(f, bytes))
           /\ UNCHANGED <<disk, hasChild, turn>>
           /\ Settle(IF OpenOn(fds, f.path) # {<<o, d>>} THEN {f.path} ELSE {},
                     [truth EXCEPT ![f.path] = Overlaid(@, f.pos, bytes)])
  BY DEF WriteOpen
<1>2. /\ d \in DOMAIN fds[o] /\ Running(o) /\ writes' \in 0 .. MaxWrites
      /\ FileOK(f) /\ f.path \in Paths /\ f.pos \in Nat
  BY OpenFilesAssumption
  DEF WriteOpen, IsOpen, OpenInv, ControlOK, TablesOK, FileOK, OpenFileType
<1> DEFINE bytes == Chunk(writes', AcceptedBytes(f, n))
           new == Written(f, bytes)
           causes == IF OpenOn(fds, f.path) # {<<o, d>>} THEN {f.path} ELSE {}
           shared == [truth EXCEPT ![f.path] = Overlaid(@, f.pos, bytes)]
<1>3. fds' = SetFd(o, d, new) /\ UNCHANGED <<disk, hasChild, turn>> /\ Settle(causes, shared)
  BY <1>1
<1>4. /\ bytes \in Contents /\ f.pos + Len(bytes) <= MaxBytes
      /\ FileOK(new) /\ new.path = f.path /\ new.dirty
      /\ new.buffer = Overlaid(f.buffer, f.pos, bytes)
  BY <1>2, WrittenIsOK
<1> HIDE DEF bytes, new
<1>5. shared \in [Paths -> Contents]
  <2>1. Overlaid(truth[f.path], f.pos, bytes) \in Contents
    BY <1>2, <1>4, OverlaidIsContents DEF OpenInv
  <2>2. QED
    BY <1>2, <2>1 DEF OpenInv
<1>6. \A q \in Paths : shared[q] = IF q = f.path THEN Overlaid(truth[q], f.pos, bytes) ELSE truth[q]
  BY <1>2 DEF OpenInv
<1>7. f.path \notin causes => OpenOn(fds, f.path) = {<<o, d>>}
  OBVIOUS
<1> HIDE DEF causes, shared
<1>8. TablesOK(fds') /\ DiskOK(disk')
  BY <1>3, <1>4, SetFdTables DEF OpenInv
<1>9. ASSUME NEW q \in Paths, ~spoilt[q], q \notin causes
      PROVE  CopiesAre(fds', q, shared[q]) /\ (Clean(fds', q) => AsRead(disk', q) = shared[q])
  <2>1. CopiesAre(fds, q, truth[q]) /\ (Clean(fds, q) => AsRead(disk, q) = truth[q])
    BY <1>9, AgreementByCopies DEF OpenInv
  <2>2. CASE q # f.path
    <3>1. \A x \in Owners : \A y \in DOMAIN fds[x] :
            <<x, y>> # <<o, d>> /\ fds[x][y].path = q => fds[x][y].buffer = truth[q]
      BY <2>1 DEF CopiesAre
    <3>2. CopiesAre(fds', q, shared[q])
      BY <1>3, <1>4, <1>6, <2>2, <3>1, SetFdTables DEF OpenInv
    <3>3. Clean(fds', q) => Clean(fds, q)
      <4>1. ASSUME Clean(fds', q)
            PROVE  \A x \in Owners : \A y \in DOMAIN fds[x] :
                     <<x, y>> # <<o, d>> /\ fds[x][y].path = q => ~fds[x][y].dirty
        BY <1>3, <1>4, <4>1, SetFdTables DEF OpenInv
      <4>2. QED
        BY <2>2, <4>1 DEF Clean
    <3>4. QED
      BY <1>3, <1>6, <2>1, <2>2, <3>2, <3>3
  <2>3. CASE q = f.path
    <3>1. OpenOn(fds, q) = {<<o, d>>}
      BY <1>7, <1>9, <2>3
    <3>2. \A x \in Owners : \A y \in DOMAIN fds[x] :
            <<x, y>> # <<o, d>> => fds[x][y].path # q
      BY <3>1 DEF OpenOn, OpenInv, TablesOK
    <3>3. f.buffer = truth[q]
      BY <1>2, <2>1, <2>3 DEF CopiesAre
    <3>4. new.buffer = shared[q]
      BY <1>4, <1>6, <2>3, <3>3
    <3>5. CopiesAre(fds', q, shared[q])
      BY <1>3, <1>4, <3>2, <3>4, SetFdTables DEF OpenInv
    <3>6. ~Clean(fds', q)
      BY <1>3, <1>4, <2>3, SetFdTables DEF OpenInv
    <3>7. QED
      BY <3>5, <3>6
  <2>4. QED
    BY <2>2, <2>3
<1>10. ControlOK'
  BY <1>2, <1>3, SetFdControl
<1>11. QED
  BY <1>3, <1>5, <1>8, <1>9, <1>10, SettleAgrees

\* A descriptor goes or is replaced, and what it held is written first if need be: close, dup2.
LEMMA ClosedFdKeeps ==
    ASSUME OpenInv, NEW o \in Owners, NEW d \in DOMAIN fds[o], NEW table, TablesOK(table),
           ClosedFd(o, d, table), ControlOK',
           \A p, c : CopiesAre(fds, p, c) => CopiesAre(table, p, c),
           \A p : Clean(table, p) =>
             \A x \in Owners : \A y \in DOMAIN fds[x] :
               <<x, y>> # <<o, d>> /\ fds[x][y].path = p => ~fds[x][y].dirty
    PROVE  OpenInv'
<1> DEFINE f == fds[o][d]
<1>1. fds' = table /\ d \in FdSlots /\ FileOK(f) /\ f.path \in Paths /\ f.buffer \in Contents
  BY DEF ClosedFd, OpenInv, TablesOK, FileOK, OpenFileType
<1>2. truth \in [Paths -> Contents]
  BY DEF OpenInv
<1>3. CASE f.dirty
  <2> DEFINE causes == IF disk' # WithFd(disk, f.path, f.buffer) THEN {f.path} ELSE {}
  <2>1. disk' \in AfterWrite(f.path, f.buffer) /\ Settle(causes, truth)
    BY <1>3 DEF ClosedFd
  <2>2. /\ DiskOK(disk')
        /\ \A q \in Paths \ {f.path} : AsRead(disk', q) = AsRead(disk, q)
        /\ AsRead(WithFd(disk, f.path, f.buffer), f.path) = f.buffer
    BY <1>1, <2>1, AfterWriteIsOK DEF OpenInv
  <2>3. f.path \notin causes => disk' = WithFd(disk, f.path, f.buffer)
    OBVIOUS
  <2> HIDE DEF causes
  <2>4. ASSUME NEW q \in Paths, ~spoilt[q], q \notin causes
        PROVE  CopiesAre(fds', q, truth[q]) /\ (Clean(fds', q) => AsRead(disk', q) = truth[q])
    <3>1. CopiesAre(fds, q, truth[q]) /\ (Clean(fds, q) => AsRead(disk, q) = truth[q])
      BY <2>4, AgreementByCopies DEF OpenInv
    <3>2. q = f.path => AsRead(disk', q) = truth[q]
      BY <2>2, <2>3, <2>4, <3>1 DEF CopiesAre
    <3>3. q # f.path /\ Clean(fds', q) => Clean(fds, q)
      BY <1>1 DEF Clean
    <3>4. QED
      BY <1>1, <2>2, <3>1, <3>2, <3>3
  <2>5. QED
    BY <1>1, <1>2, <2>1, <2>2, <2>4, SettleAgrees
<1>4. CASE ~f.dirty
  <2>1. UNCHANGED disk /\ Settle({}, truth)
    BY <1>4 DEF ClosedFd
  <2>2. ASSUME NEW q \in Paths, ~spoilt[q]
        PROVE  CopiesAre(fds', q, truth[q]) /\ (Clean(fds', q) => AsRead(disk', q) = truth[q])
    <3>1. CopiesAre(fds, q, truth[q]) /\ (Clean(fds, q) => AsRead(disk, q) = truth[q])
      BY <2>2, AgreementByCopies DEF OpenInv
    <3>2. Clean(fds', q) => Clean(fds, q)
      BY <1>1, <1>4 DEF Clean
    <3>3. QED
      BY <1>1, <2>1, <3>1, <3>2
  <2>3. DiskOK(disk')
    BY <2>1 DEF OpenInv
  <2>4. QED
    BY <1>1, <1>2, <2>1, <2>2, <2>3, SettleAgrees
<1>5. QED
  BY <1>3, <1>4

LEMMA CloseOpenKeeps ==
    ASSUME OpenInv, NEW o \in Owners, NEW d \in FdSlots, CloseOpen(o, d)
    PROVE  OpenInv'
<1> DEFINE table == [fds EXCEPT ![o] = Without(@, d)]
<1>1. d \in DOMAIN fds[o] /\ Running(o) /\ ClosedFd(o, d, table)
  BY DEF CloseOpen, IsOpen
<1>2. /\ DOMAIN table = Owners /\ \A x \in Owners \ {o} : table[x] = fds[x]
      /\ DOMAIN table[o] = DOMAIN fds[o] \ {d}
      /\ \A y \in DOMAIN fds[o] \ {d} : table[o][y] = fds[o][y]
  BY DEF Without, OpenInv, TablesOK
<1> HIDE DEF table
<1>3. TablesOK(table)
  BY <1>2 DEF OpenInv, TablesOK
<1>4. \A p, c : CopiesAre(fds, p, c) => CopiesAre(table, p, c)
  BY <1>2 DEF CopiesAre
<1>5. \A p : Clean(table, p) =>
        \A x \in Owners : \A y \in DOMAIN fds[x] :
          <<x, y>> # <<o, d>> /\ fds[x][y].path = p => ~fds[x][y].dirty
  BY <1>2 DEF Clean
<1>6. ControlOK'
  <2>1. fds' = table /\ UNCHANGED <<hasChild, turn, writes>>
    BY <1>1 DEF ClosedFd
  <2>2. "child" \in Owners
    BY DEF Owners
  <2>3. DOMAIN table["child"] \subseteq DOMAIN fds["child"]
    BY <1>2, <2>2
  <2>4. QED
    BY <2>1, <2>3 DEF OpenInv, ControlOK
<1>7. QED
  BY <1>1, <1>3, <1>4, <1>5, <1>6, ClosedFdKeeps

\* A copy of descriptor d in slot e.
LEMMA CopiedFd ==
    ASSUME OpenInv, NEW o \in Owners, NEW d \in DOMAIN fds[o], NEW e \in FdSlots
    PROVE  LET table == SetFd(o, e, fds[o][d])
           IN /\ TablesOK(table)
              /\ \A p, c : CopiesAre(fds, p, c) => CopiesAre(table, p, c)
              /\ \A p : Clean(table, p) =>
                   \A x \in Owners : \A y \in DOMAIN fds[x] :
                     <<x, y>> # <<o, e>> /\ fds[x][y].path = p => ~fds[x][y].dirty
<1> DEFINE table == SetFd(o, e, fds[o][d])
<1>1. FileOK(fds[o][d]) /\ TablesOK(fds)
  BY DEF OpenInv, TablesOK
<1>2. TablesOK(table)
  BY <1>1, SetFdTables
<1>3. ASSUME NEW p, NEW c, CopiesAre(fds, p, c) PROVE CopiesAre(table, p, c)
  <2>1. fds[o][d].path = p => fds[o][d].buffer = c
    BY <1>3 DEF CopiesAre
  <2>2. \A x \in Owners : \A y \in DOMAIN fds[x] :
          <<x, y>> # <<o, e>> /\ fds[x][y].path = p => fds[x][y].buffer = c
    BY <1>3 DEF CopiesAre
  <2>3. QED
    BY <1>1, <2>1, <2>2, SetFdTables
<1>4. ASSUME NEW p, Clean(table, p)
      PROVE  \A x \in Owners : \A y \in DOMAIN fds[x] :
               <<x, y>> # <<o, e>> /\ fds[x][y].path = p => ~fds[x][y].dirty
  BY <1>1, <1>4, SetFdTables
<1>5. QED
  BY <1>2, <1>3, <1>4

\* A step that adds copies, of which none is dirty unless another one is, and leaves the disk.
LEMMA CopyingKeeps ==
    ASSUME OpenInv, TablesOK(fds'), ControlOK', UNCHANGED disk, Settle({}, truth),
           \A p, c : CopiesAre(fds, p, c) => CopiesAre(fds', p, c),
           \A p : Clean(fds', p) => Clean(fds, p)
    PROVE  OpenInv'
<1>1. ASSUME NEW q \in Paths, ~spoilt[q]
      PROVE  CopiesAre(fds', q, truth[q]) /\ (Clean(fds', q) => AsRead(disk', q) = truth[q])
  <2>1. CopiesAre(fds, q, truth[q]) /\ (Clean(fds, q) => AsRead(disk, q) = truth[q])
    BY <1>1, AgreementByCopies DEF OpenInv
  <2>2. QED
    BY <2>1
<1>2. truth \in [Paths -> Contents] /\ DiskOK(disk')
  BY DEF OpenInv
<1>3. QED
  BY <1>1, <1>2, SettleAgrees

\* A copy into a slot that was free: dup, and dup2 onto a free target.
LEMMA CopyToFreeKeeps ==
    ASSUME OpenInv, NEW o \in Owners, Running(o), NEW d \in DOMAIN fds[o],
           NEW e \in FdSlots \ DOMAIN fds[o], fds' = SetFd(o, e, fds[o][d]),
           UNCHANGED <<disk, hasChild, turn, writes>>, Settle({}, truth)
    PROVE  OpenInv'
<1>1. TablesOK(fds') /\ \A p, c : CopiesAre(fds, p, c) => CopiesAre(fds', p, c)
  BY CopiedFd
<1>2. ASSUME NEW p, Clean(fds', p) PROVE Clean(fds, p)
  <2>1. \A x \in Owners : \A y \in DOMAIN fds[x] :
          <<x, y>> # <<o, e>> /\ fds[x][y].path = p => ~fds[x][y].dirty
    BY <1>2, CopiedFd
  <2>2. QED
    BY <2>1 DEF Clean
<1>3. ControlOK'
  BY SetFdControl DEF OpenInv, ControlOK
<1>4. QED
  BY <1>1, <1>2, <1>3, CopyingKeeps

LEMMA DupOpenKeeps ==
    ASSUME OpenInv, NEW o \in Owners, NEW d \in FdSlots, DupOpen(o, d)
    PROVE  OpenInv'
<1>1. PICK e \in FdSlots : FreeFd(o, e) /\ fds' = SetFd(o, e, fds[o][d])
  BY DEF DupOpen
<1>2. /\ d \in DOMAIN fds[o] /\ Running(o) /\ e \in FdSlots \ DOMAIN fds[o]
      /\ UNCHANGED <<disk, hasChild, turn, writes>> /\ Settle({}, truth)
  BY <1>1 DEF DupOpen, IsOpen, FreeFd
<1>3. QED
  BY <1>1, <1>2, CopyToFreeKeeps

LEMMA Dup2OpenKeeps ==
    ASSUME OpenInv, NEW o \in Owners, NEW d \in FdSlots, NEW e \in FdSlots, Dup2Open(o, d, e)
    PROVE  OpenInv'
<1> DEFINE table == SetFd(o, e, fds[o][d])
<1>1. d \in DOMAIN fds[o] /\ Running(o)
  BY DEF Dup2Open, IsOpen
<1>2. CASE e \in DOMAIN fds[o]
  <2>1. ClosedFd(o, e, table)
    BY <1>2 DEF Dup2Open, IsOpen
  <2>2. fds' = table /\ UNCHANGED <<hasChild, turn, writes>>
    BY <2>1 DEF ClosedFd
  <2>3. ControlOK'
    BY <1>1, <2>2, SetFdControl DEF OpenInv, ControlOK
  <2>4. /\ TablesOK(table)
        /\ \A p, c : CopiesAre(fds, p, c) => CopiesAre(table, p, c)
        /\ \A p : Clean(table, p) =>
             \A x \in Owners : \A y \in DOMAIN fds[x] :
               <<x, y>> # <<o, e>> /\ fds[x][y].path = p => ~fds[x][y].dirty
    BY <1>1, CopiedFd
  <2> HIDE DEF table
  <2>5. QED
    BY <1>2, <2>1, <2>3, <2>4, ClosedFdKeeps
<1>3. CASE e \notin DOMAIN fds[o]
  BY <1>1, <1>3, CopyToFreeKeeps DEF Dup2Open, IsOpen
<1>4. QED
  BY <1>2, <1>3

LEMMA ForkFdsKeeps ==
    ASSUME OpenInv, ForkFds
    PROVE  OpenInv'
<1>1. /\ fds' = [fds EXCEPT !["child"] = fds["resident"]] /\ ~hasChild /\ hasChild'
      /\ UNCHANGED <<disk, turn, writes>> /\ Settle({}, truth)
  BY DEF ForkFds
<1>2. DOMAIN fds["child"] = {} /\ DOMAIN fds = Owners
  BY <1>1 DEF OpenInv, ControlOK, TablesOK
<1>3. DOMAIN fds' = Owners /\ \A o \in Owners : fds'[o] = fds["resident"]
  BY <1>1, <1>2 DEF Owners
<1>4. "resident" \in Owners /\ \A o \in Owners : o = "resident" \/ o = "child"
  BY DEF Owners
<1>5. TablesOK(fds')
  BY <1>3, <1>4 DEF OpenInv, TablesOK
<1>6. \A p, c : CopiesAre(fds, p, c) => CopiesAre(fds', p, c)
  BY <1>3, <1>4 DEF CopiesAre
<1>7. \A p : Clean(fds', p) => Clean(fds, p)
  BY <1>2, <1>3, <1>4 DEF Clean
<1>8. ControlOK'
  BY <1>1 DEF ForkFds, OpenInv, ControlOK
<1>9. QED
  BY <1>1, <1>5, <1>6, <1>7, <1>8, CopyingKeeps

LEMMA DroppedKeeps ==
    ASSUME OpenInv, NEW o \in Owners, Dropped(o), hasChild' \in BOOLEAN,
           turn' \in Owners \cup {"shell"}, turn' = "child" => hasChild',
           o # "child" => hasChild' = hasChild
    PROVE  OpenInv'
<1> DEFINE causes == {p \in Paths : \E h \in DirtyOn(fds, p) : h[1] = o}
<1>1. fds' = [fds EXCEPT ![o] = Nothing] /\ UNCHANGED <<disk, writes>> /\ Settle(causes, truth)
  BY DEF Dropped
<1>2. /\ DOMAIN fds' = Owners /\ DOMAIN fds'[o] = {}
      /\ \A x \in Owners \ {o} : fds'[x] = fds[x]
  BY <1>1 DEF OpenInv, TablesOK, Nothing
<1>3. TablesOK(fds') /\ DiskOK(disk')
  BY <1>1, <1>2 DEF OpenInv, TablesOK
<1>4. ControlOK'
  <2>1. "child" \in Owners
    BY DEF Owners
  <2>2. QED
    BY <1>1, <1>2, <2>1 DEF OpenInv, ControlOK
<1>5. ASSUME NEW q \in Paths, q \notin causes, NEW d \in DOMAIN fds[o], fds[o][d].path = q
      PROVE  ~fds[o][d].dirty
  <2>1. <<o, d>> \in OpenOn(fds, q)
    BY <1>5 DEF OpenOn, OpenInv, TablesOK
  <2>2. QED
    BY <1>5, <2>1 DEF DirtyOn
<1> HIDE DEF causes
<1>6. ASSUME NEW q \in Paths, ~spoilt[q], q \notin causes
      PROVE  CopiesAre(fds', q, truth[q]) /\ (Clean(fds', q) => AsRead(disk', q) = truth[q])
  <2>1. CopiesAre(fds, q, truth[q]) /\ (Clean(fds, q) => AsRead(disk, q) = truth[q])
    BY <1>6, AgreementByCopies DEF OpenInv
  <2>2. CopiesAre(fds', q, truth[q])
    BY <1>2, <2>1 DEF CopiesAre
  <2>3. Clean(fds', q) => Clean(fds, q)
    BY <1>2, <1>5, <1>6 DEF Clean
  <2>4. QED
    BY <1>1, <2>1, <2>2, <2>3
<1>7. truth \in [Paths -> Contents]
  BY DEF OpenInv
<1>8. QED
  BY <1>1, <1>3, <1>4, <1>6, <1>7, SettleAgrees

LEMMA ShellChangeKeeps ==
    ASSUME OpenInv, NEW p \in Paths, ShellChange(p)
    PROVE  OpenInv'
<1>1. /\ DiskOK(disk') /\ writes' \in 0 .. MaxWrites
      /\ \A q \in Paths \ {p} : AsRead(disk', q) = AsRead(disk, q)
  <2>1. CASE disk' = Without(disk, p) /\ UNCHANGED writes
    BY <2>1 DEF Without, AsRead, DiskOK, OpenInv, ControlOK
  <2>2. CASE /\ writes < MaxWrites /\ writes' = writes + 1
             /\ \E n \in 0 .. MaxBytes : disk' \in AfterWrite(p, Chunk(writes', n))
    <3>1. writes' \in 0 .. MaxWrites
      BY <2>2, OpenFilesAssumption DEF OpenInv, ControlOK
    <3>2. PICK n \in 0 .. MaxBytes : disk' \in AfterWrite(p, Chunk(writes', n))
      BY <2>2
    <3>3. Chunk(writes', n) \in Contents
      BY <3>1, ChunkIsContents
    <3>4. QED
      BY <3>1, <3>2, <3>3, AfterWriteIsOK DEF OpenInv
  <2>3. QED
    BY <2>1, <2>2 DEF ShellChange
<1> DEFINE causes == IF OpenOn(fds, p) # {} THEN {p} ELSE {}
           shared == [truth EXCEPT ![p] = AsRead(disk', p)]
<1>2. UNCHANGED <<fds, hasChild, turn>> /\ Settle(causes, shared)
  BY DEF ShellChange
<1>3. /\ shared \in [Paths -> Contents] /\ shared[p] = AsRead(disk', p)
      /\ \A q \in Paths \ {p} : shared[q] = truth[q]
  BY <1>1, AsReadIsContents DEF OpenInv
<1>4. p \notin causes => NotOpen(fds, p)
  BY HandlesAndCopies DEF OpenInv
<1> HIDE DEF causes, shared
<1>5. ASSUME NEW q \in Paths, ~spoilt[q], q \notin causes
      PROVE  CopiesAre(fds', q, shared[q]) /\ (Clean(fds', q) => AsRead(disk', q) = shared[q])
  <2>1. CASE q = p
    BY <1>2, <1>3, <1>4, <1>5, <2>1 DEF NotOpen, CopiesAre
  <2>2. CASE q # p
    <3>1. CopiesAre(fds, q, truth[q]) /\ (Clean(fds, q) => AsRead(disk, q) = truth[q])
      BY <1>5, AgreementByCopies DEF OpenInv
    <3>2. QED
      BY <1>1, <1>2, <1>3, <2>2, <3>1
  <2>3. QED
    BY <2>1, <2>2
<1>6. TablesOK(fds') /\ ControlOK'
  BY <1>1, <1>2 DEF OpenInv, ControlOK
<1>7. QED
  BY <1>1, <1>2, <1>3, <1>5, <1>6, SettleAgrees

-----------------------------------------------------------------------------
(* The theorems.                                                           *)

LEMMA OpenInvAtFirst == OpenInit => OpenInv
<1> SUFFICES ASSUME OpenInit PROVE OpenInv
  OBVIOUS
<1>1. DOMAIN Nothing = {}
  BY DEF Nothing
<1>2. DiskOK(disk) /\ TablesOK(fds) /\ \A o \in Owners : DOMAIN fds[o] = {}
  BY <1>1 DEF OpenInit, DiskOK, TablesOK
<1>3. ControlOK
  <2>1. DOMAIN fds["child"] = {}
    BY <1>2 DEF Owners
  <2>2. hasChild = FALSE /\ turn = "shell" /\ writes = 0
    BY DEF OpenInit
  <2>3. hasChild \in BOOLEAN /\ turn \in Owners \cup {"shell"} /\ turn # "child"
    BY <2>2
  <2>4. 0 \in 0 .. MaxWrites
    BY OpenFilesAssumption
  <2>5. QED
    BY <2>1, <2>2, <2>3, <2>4 DEF ControlOK
<1>4. truth \in [Paths -> Contents] /\ spoilt \in [Paths -> BOOLEAN]
  BY EmptyIsContents DEF OpenInit
<1>5. \A p \in Paths : CopiesAre(fds, p, truth[p]) /\ AsRead(disk, p) = truth[p]
  BY <1>1, <1>2 DEF OpenInit, CopiesAre, AsRead
<1>6. OpenFilesAgree
  BY <1>2, <1>5, AgreementByCopies
<1>7. QED
  BY <1>2, <1>3, <1>4, <1>6 DEF OpenInv

LEMMA OpenInvKept == OpenInv /\ [OpenNext]_openVars => OpenInv'
<1> SUFFICES ASSUME OpenInv, [OpenNext]_openVars PROVE OpenInv'
  OBVIOUS
<1>1. ASSUME UNCHANGED <<disk, fds, truth, spoilt>>, ControlOK' PROVE OpenInv'
  BY <1>1 DEF OpenInv, OpenFilesAgree, OpenOn, DirtyOn
<1>2. ASSUME NEW o \in Owners, NEW p \in Paths, OpenPath(o, p) PROVE OpenInv'
  BY <1>2, OpenPathKeeps
<1>3. ASSUME NEW o \in Owners, NEW d \in FdSlots, ReadOpen(o, d) PROVE OpenInv'
  BY <1>3, ReadOpenKeeps
<1>4. ASSUME NEW o \in Owners, NEW d \in FdSlots, WriteOpen(o, d) PROVE OpenInv'
  BY <1>4, WriteOpenKeeps
<1>5. ASSUME NEW o \in Owners, NEW d \in FdSlots, CloseOpen(o, d) PROVE OpenInv'
  BY <1>5, CloseOpenKeeps
<1>6. ASSUME NEW o \in Owners, NEW d \in FdSlots, DupOpen(o, d) PROVE OpenInv'
  BY <1>6, DupOpenKeeps
<1>7. ASSUME NEW o \in Owners, NEW d \in FdSlots, NEW e \in FdSlots, Dup2Open(o, d, e)
      PROVE  OpenInv'
  BY <1>7, Dup2OpenKeeps
<1>8. CASE ForkFds
  BY <1>8, ForkFdsKeeps
<1>9. CASE ReapChild
  <2>1. ControlOK'
    BY <1>9 DEF ReapChild, OpenInv, ControlOK, Owners
  <2>2. QED
    BY <1>1, <1>9, <2>1 DEF ReapChild
<1>10. CASE ChildGone
  BY <1>10, DroppedKeeps DEF ChildGone, Owners
<1>11. CASE RunResident
  <2>1. ControlOK'
    BY <1>11 DEF RunResident, OpenInv, ControlOK, Owners
  <2>2. QED
    BY <1>1, <1>11, <2>1 DEF RunResident
<1>12. CASE EndResident
  <2>1. ControlOK'
    BY <1>12 DEF EndResident, OpenInv, ControlOK, Owners
  <2>2. QED
    BY <1>1, <1>12, <2>1 DEF EndResident
<1>13. CASE ReplaceResident
  BY <1>13, DroppedKeeps DEF ReplaceResident, Owners, OpenInv, ControlOK
<1>14. ASSUME NEW p \in Paths, ShellChange(p) PROVE OpenInv'
  BY <1>14, ShellChangeKeeps
<1>15. CASE UNCHANGED openVars
  <2>1. ControlOK' /\ UNCHANGED <<disk, fds, truth, spoilt>>
    BY <1>15 DEF openVars, OpenInv, ControlOK
  <2>2. QED
    BY <1>1, <2>1
<1>16. QED
  BY <1>2, <1>3, <1>4, <1>5, <1>6, <1>7, <1>8, <1>9, <1>10, <1>11, <1>12, <1>13, <1>14, <1>15
  DEF OpenNext

\* Every descriptor's position stays within its buffer and the buffer within MAX_FILE_BYTES: the
\* resize of write_fd and the clamp of read_fd never see a position past the end.
THEOREM PositionsStayInBuffers == OpenSpec => []OpenTypeOK
<1>1. OpenInv => OpenTypeOK
  BY DEF OpenInv, ControlOK, DiskOK, TablesOK, FileOK, OpenTypeOK
<1>2. QED
  BY <1>1, OpenInvAtFirst, OpenInvKept, PTL DEF OpenSpec

\* Descriptors of one file, each with a buffer of its own, behave as if they shared the file, and
\* the disk holds it once none of them is dirty, after every sequence of open, read, fdwrite,
\* close, dup, dup2, fork, exit and kill without one of the six listed causes.
THEOREM CopiesAgree == OpenSpec => []OpenFilesAgree
<1>1. OpenInv => OpenFilesAgree
  BY DEF OpenInv
<1>2. QED
  BY <1>1, OpenInvAtFirst, OpenInvKept, PTL DEF OpenSpec
=============================================================================
