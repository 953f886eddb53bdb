---------------------------- MODULE PipeLifetime ----------------------------
(***************************************************************************)
(* What the pipe table promises to the descriptors of all processes: an    *)
(* end is a capability.  A handle comes to name an end when its pipe is    *)
(* created or by copying a handle that names that very end, and a pipe     *)
(* exists for as long as any handle names one of its ends.  When an        *)
(* unnamed pipe is given back is left open.                                *)
(* src/kernel/src/process.rs, the doc comment of struct Pipe.              *)
(***************************************************************************)
CONSTANTS
    Handle,   \* every place that can name an end: a slot of a process's table
    Pipe,
    EndKind,
    NoEnd     \* what a handle names when it names no end

VARIABLES
    open,     \* the pipes that exist
    holds     \* holds[h]: the end handle h names, or NoEnd

vars == <<open, holds>>

AnEnd     == EndKind \X Pipe
Named(hs) == {hs[h] : h \in Handle} \ {NoEnd}
PipesOf(es) == {e[2] : e \in es}

Init ==
    /\ open = {}
    /\ holds = [h \in Handle |-> NoEnd]

\* A new pipe: two handles that named nothing now name its two ends.
Create(i) ==
    /\ i \notin open
    /\ open' = open \cup {i}
    /\ \E r, w \in Handle :
         /\ r # w /\ holds[r] = NoEnd /\ holds[w] = NoEnd
         /\ \E k \in [{r, w} -> EndKind] :
              /\ k[r] # k[w]
              /\ holds' = [h \in Handle |-> IF h \in {r, w} THEN <<k[h], i>> ELSE holds[h]]

\* Handles are copied, overwritten or dropped; pipes nobody names may go.
Rebind ==
    /\ holds' \in [Handle -> AnEnd \cup {NoEnd}]
    /\ Named(holds') \subseteq Named(holds)
    /\ open' \subseteq open
    /\ PipesOf(Named(holds')) \subseteq open'

Next == Rebind \/ \E i \in Pipe : Create(i)
Spec == Init /\ [][Next]_vars

\* A handle never names a pipe that does not exist.
NoDangling == PipesOf(Named(holds)) \subseteq open
=============================================================================
