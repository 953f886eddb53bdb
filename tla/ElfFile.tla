------------------------------ MODULE ElfFile ------------------------------
(***************************************************************************)
(* What the parser of elf.rs takes and what it answers.  A file is a       *)
(* record: header, whether the checks on magic, class, byte order, type,   *)
(* machine and entry size pass; tableFits, whether the program header      *)
(* table lies in the file; entry; table, the program headers; and words,   *)
(* the bytes of the file, in units of a word.  Sums that the code checks   *)
(* for overflow are past the end of every file.                            *)
(***************************************************************************)
EXTENDS Naturals, SequencesExt

CONSTANTS MaxLoadSegments   \* MAX_LOAD_SEGMENTS

Load == "PT_LOAD"

ProgramHeaders == [type : STRING, vaddr : Nat, offset : Nat, filesz : Nat, memsz : Nat]

ElfFileType == [header : BOOLEAN, tableFits : BOOLEAN, entry : Nat, table : Seq(ProgramHeaders),
                words : Seq(Nat)]

LoadHeaders(file) ==
  LET kept[i \in 0..Len(file.table)] ==
        IF i = 0 THEN <<>>
        ELSE IF file.table[i].type = Load THEN Append(kept[i - 1], file.table[i])
        ELSE kept[i - 1]
  IN kept[Len(file.table)]

InFile(file, header) == header.offset + header.filesz <= Len(file.words)

\* parse answers Ok, with the PT_LOAD headers as segments, in this case and Err in every other.
Parses(file) ==
  /\ file.header /\ file.table # <<>> /\ file.tableFits
  /\ LoadHeaders(file) # <<>> /\ Len(LoadHeaders(file)) <= MaxLoadSegments
  /\ \A h \in ToSet(LoadHeaders(file)) : h.memsz >= h.filesz /\ InFile(file, h)
=============================================================================
