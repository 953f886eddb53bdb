----------------------------- MODULE WorkingDir -----------------------------
(***************************************************************************)
(* The shell's working directory (shell.rs) over the directory tree        *)
(* (fs.rs, its sectors in module FileSystem).  A path is the sequence of   *)
(* components split('/') makes of the string: "" is <<"">>, "/a" is        *)
(* <<"", "a">>.  Different spellings of a name may be one name on the      *)
(* disk, which keeps its first NAME_LEN bytes.  Files are left out: they   *)
(* only make more commands fail.                                           *)
(***************************************************************************)
EXTENDS Naturals, Sequences, SequencesExt

CONSTANTS Spellings,  \* the names one can type, "" not among them
          Stored(_),  \* name_bytes: what the disk keeps of a spelling
          Arguments,  \* what is typed after cd, mkdir and rmdir
          MaxDepth    \* bound: MAX_DEPTH, 32 in the code

ASSUME WorkingDirAssumption ==
  /\ "" \notin Spellings /\ Stored("") = "" /\ MaxDepth \in Nat
  /\ Arguments \subseteq Seq(Spellings \cup {""}) \ {<<>>, <<"">>}

VARIABLES
  tree,  \* the directories but the root, as sequences of stored names
  cwd    \* CWD, as it was spelled

wdVars == <<tree, cwd>>

WdInit == tree = {} /\ cwd = <<>>

----------------------------------------------------------------------------
(* fs.rs.                                                                  *)

NoName == <<"">>
StoredPath(path) == [i \in DOMAIN path |-> Stored(path[i])]

\* resolve_dir_lba: the empty path is the root, an empty component is an error.
IsDir(path) ==
  \/ path = NoName
  \/ /\ \A i \in DOMAIN path : path[i] # ""
     /\ Len(path) <= MaxDepth /\ StoredPath(path) \in tree

\* resolve_table: the directory part leads to a table, the last component is the name in it.
HasTable(path) == Len(path) = 1 \/ (Last(path) # "" /\ IsDir(Front(path)))

\* Where the entry of that name is.
EntryPath(path) ==
  IF Len(path) = 1 \/ Front(path) = NoName THEN <<Stored(Last(path))>> ELSE StoredPath(path)

IsEmptyDir(dir) == \A other \in tree : ~IsStrictPrefix(dir, other)

----------------------------------------------------------------------------
(* shell.rs.                                                               *)

CwdPath == IF cwd = <<>> THEN NoName ELSE cwd

\* resolve_arg: a leading slash is stripped, anything else is put after the working directory.
Resolved(arg) ==
  IF Len(arg) > 1 /\ Head(arg) = "" THEN Tail(arg) ELSE cwd \o arg

\* cd: to the root, up without a look at the disk, or to a directory that is there.
CdRoot == cwd' = <<>> /\ UNCHANGED tree

CdUp == cwd # <<>> /\ cwd' = Front(cwd) /\ UNCHANGED tree

Cd(arg) ==
  /\ arg # <<"", "">> /\ IsDir(Resolved(arg))
  /\ cwd' = IF Resolved(arg) = NoName THEN <<>> ELSE Resolved(arg)
  /\ UNCHANGED tree

Mkdir(arg) ==
  LET path == Resolved(arg)
  IN /\ HasTable(path) /\ EntryPath(path) \notin tree
     /\ Len(path) <= MaxDepth   \* bound
     /\ tree' = tree \cup {EntryPath(path)}
     /\ UNCHANGED cwd

\* Mutant: the working directory is not protected.
RmdirUnchecked(arg) ==
  LET path == Resolved(arg)
  IN /\ HasTable(path)
     /\ EntryPath(path) \in tree /\ IsEmptyDir(EntryPath(path))
     /\ tree' = tree \ {EntryPath(path)}
     /\ UNCHANGED cwd

\* rmdir: not of the path that is the working directory's, and not of a directory with entries.
Rmdir(arg) ==
  LET path == Resolved(arg)
  IN /\ path # CwdPath /\ HasTable(path)
     /\ EntryPath(path) \in tree /\ IsEmptyDir(EntryPath(path))
     /\ tree' = tree \ {EntryPath(path)}
     /\ UNCHANGED cwd

WdNext ==
  \/ CdRoot \/ CdUp
  \/ \E arg \in Arguments : Cd(arg) \/ Mkdir(arg) \/ Rmdir(arg)

WdSpec == WdInit /\ [][WdNext]_wdVars

----------------------------------------------------------------------------
\* Every directory's parent is a directory, and CWD is spelled with names.
WdTypeOK ==
  /\ \A dir \in tree : Len(dir) > 1 => Front(dir) \in tree
  /\ cwd \in Seq(Spellings) /\ Len(cwd) <= MaxDepth

\* The same directory in the disk's view, though not the same string.
IsOtherSpelling(path) ==
  HasTable(path) /\ path # CwdPath /\ EntryPath(path) = StoredPath(cwd)

\* The comments of CWD and of rmdir promise that CWD, and each prefix `cd ..` pops to, names a real
\* directory.  That holds until the working directory is removed under another spelling of its path:
\* one that differs after NAME_LEN bytes, or one with an empty component in front (`rmdir //a`
\* resolves to "/a", which is not the string "a").  Nothing else makes it dangle.
WorkingDirStays ==
  [][IsDir(CwdPath) =>
       \/ IsDir(CwdPath)'
       \/ \E arg \in Arguments : Rmdir(arg) /\ IsOtherSpelling(Resolved(arg))]_wdVars
=============================================================================
