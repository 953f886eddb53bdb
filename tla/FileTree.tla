------------------------------ MODULE FileTree ------------------------------
(***************************************************************************)
(* What the file system of src/kernel/src/fs.rs promises its callers: a    *)
(* tree of directories and files.  A call either takes effect as a whole   *)
(* or not at all, whatever sector write it is interrupted at, except that  *)
(* a file being overwritten in place may lose its old contents.            *)
(***************************************************************************)
EXTENDS Integers, Sequences

CONSTANTS
    Path,   \* non-empty sequences of names
    Data    \* contents of files

VARIABLES
    tree,      \* the nodes, one for each path that exists
    request    \* the call being carried out, or Idle

vars == <<tree, request>>

Idle == [op |-> "idle"]
Calls ==
    [op : {"mkdir", "rm", "rmdir"}, path : Path]
        \cup [op : {"write"}, path : Path, data : Data]

Directory(p) == [path |-> p, isDir |-> TRUE, data |-> <<>>]
File(p, d) == [path |-> p, isDir |-> FALSE, data |-> d]

IsDir(p) == \E n \in tree : n.path = p /\ n.isDir
IsFile(p) == \E n \in tree : n.path = p /\ ~n.isDir
Parent(p) == SubSeq(p, 1, Len(p) - 1)
HasParent(p) == Len(p) = 1 \/ IsDir(Parent(p))
HasChild(p) == \E n \in tree : Len(n.path) > 1 /\ Parent(n.path) = p

Allowed(r) ==
    \/ r.op = "write" /\ HasParent(r.path) /\ ~IsDir(r.path)
    \/ r.op = "mkdir" /\ HasParent(r.path) /\ ~IsDir(r.path) /\ ~IsFile(r.path)
    \/ r.op = "rm" /\ IsFile(r.path)
    \/ r.op = "rmdir" /\ IsDir(r.path) /\ ~HasChild(r.path)

Without(p) == {n \in tree : n.path # p}

Init == tree = {} /\ request = Idle

Start ==
    /\ request = Idle
    /\ request' \in Calls /\ Allowed(request')
    /\ UNCHANGED tree

Finish ==
    /\ \/ /\ request.op = "write"
          /\ tree' = Without(request.path) \cup {File(request.path, request.data)}
       \/ /\ request.op = "mkdir"
          /\ tree' = Without(request.path) \cup {Directory(request.path)}
       \/ /\ request.op \in {"rm", "rmdir"}
          /\ tree' = Without(request.path)
    /\ request' = Idle

\* A disk error, or the power goes.
GiveUp ==
    /\ request # Idle /\ request' = Idle
    /\ UNCHANGED tree

\* Part of a file's old contents is overwritten; nothing else changes.
Tear ==
    /\ request.op = "write" /\ UNCHANGED request
    /\ \E old \in tree, new \in tree' :
          /\ old = File(request.path, old.data) /\ new = File(request.path, new.data)
          /\ Len(new.data) = Len(old.data)
          /\ tree' = Without(request.path) \cup {new}

Next == Start \/ Finish \/ GiveUp \/ Tear

Spec == Init /\ [][Next]_vars
=============================================================================
