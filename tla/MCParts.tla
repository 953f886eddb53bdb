------------------------------ MODULE MCParts ------------------------------
(***************************************************************************)
(* The components that share no state with one another, for TLC: one run   *)
(* in which the initial state picks the component that moves, and the      *)
(* others stay as they begin.  What TLC explores is the sum of the state   *)
(* graphs of the ten, each from all its initial states.  The properties    *)
(* are the ones the modules state.                                         *)
(***************************************************************************)
EXTENDS NicRings, SpikingNetwork, OpenFiles, MousePackets, ShellConsole, WorkingDir,
        WeightsFile, RealTimeClock, Boot, AddressSpaces

MCPacket(l, r, x, y) == [left |-> l, right |-> r, dx |-> x, dy |-> y]
MCAtRest == MCPacket(FALSE, FALSE, 8, 0)
MCPackets == {MCPacket(TRUE, FALSE, 1, 0), MCPacket(FALSE, FALSE, -9, 3),
              MCPacket(TRUE, TRUE, 0, -1), MCAtRest}

MCThreshold == [n \in NeuronNames |-> IF n = Motor THEN 2 ELSE 3]
MCLeak == [n \in NeuronNames |-> 1]
MCRefractory == [n \in NeuronNames |-> IF n \in ExtraNeurons THEN 0 ELSE 1]

MCOutputs == {<<>>, <<4>>}
MCDrawn == {<<1, 0>>}

MCStored(name) == IF name \in {"long1", "long2"} THEN "long" ELSE name
MCArguments ==
  {<<"", "", "a">>, <<"", "a", "a">>}
  \cup (UNION {[1..n -> Spellings \cup {""}] : n \in 1..2} \ {<<"">>})

MCLearned == {27}
MCGiven == {-7}

MCImages == {<<7>>, <<7, 8, 9>>}
MCHeader(type, vaddr, offset, filesz, memsz) ==
  [type |-> type, vaddr |-> vaddr, offset |-> offset, filesz |-> filesz, memsz |-> memsz]
MCFile(ok, fits, entry, table) ==
  [header |-> ok, tableFits |-> fits, entry |-> entry, table |-> table, words |-> <<1, 2, 3, 4>>]
MCCode == MCHeader(Load, 2, 1, 1, 1)
MCHeaders == {
  MCHeader(Load, 2, 0, 3, 4), MCHeader(Load, 2, 0, 0, 1), MCHeader(Load, 0, 0, 4, 4),
  MCHeader(Load, 4, 2, 2, 2), MCHeader(Load, 10, 0, 1, 1), MCHeader(Load, 12, 0, 1, 2),
  MCHeader(Load, 3, 0, 1, 1), MCHeader(Load, 14, 0, 1, 1), MCHeader(Load, 20, 0, 1, 1),
  MCHeader(Load, 2, 0, 0, 0), MCHeader(Load, 2, 0, 2, 1), MCHeader(Load, 2, 0, 4, 5),
  MCHeader(Load, 2, 3, 2, 2), MCHeader("PT_NOTE", 2, 3, 2, 2)}
MCElfFiles ==
  {MCFile(TRUE, TRUE, 2, <<h>>) : h \in MCHeaders}
  \cup {MCFile(TRUE, TRUE, 2, <<MCCode, h>>) : h \in MCHeaders}
  \cup {MCFile(FALSE, TRUE, 2, <<MCCode>>), MCFile(TRUE, FALSE, 2, <<MCCode>>),
        MCFile(TRUE, TRUE, 3, <<MCCode>>), MCFile(TRUE, TRUE, 2, <<>>)}
  \cup {MCFile(TRUE, TRUE, 2, table) : table \in
          {<<MCCode, MCHeader(Load, 4, 2, 2, 2), MCHeader(Load, 0, 0, 1, 1)>>,
           <<MCHeader(Load, 2, 0, 3, 4), MCHeader(Load, 0, 0, 1, 2)>>,
           <<MCHeader(Load, 2, 0, 3, 4), MCHeader(Load, 6, 0, 3, 4)>>}}

----------------------------------------------------------------------------
VARIABLE part  \* the component that moves

partsVars == <<part, nicVars, netVars, openVars, mouseVars, shellVars, wdVars, weightVars,
               clockVars, bootVars, spaceVars>>

Parts == {"network card", "network", "open files", "mouse", "shell", "working directory",
          "weights", "clock", "boot", "memory"}

\* A component that stays still has one initial state.
PartsInit ==
  /\ part \in Parts
  /\ NicInit /\ OpenInit /\ WdInit /\ WeightsInit /\ SpacesInit
  /\ NetInit /\ (part = "network" \/ (\A i \in DOMAIN synapses : synapses[i].weight = InitialWeight))
  /\ MouseInit /\ (part = "mouse" \/ sending = MCAtRest)
  /\ ShellInit /\ (part = "shell" \/ (\A n \in PromptLengths : promptLen <= n))
  /\ ClockInit /\ (part = "clock" \/ (time = <<0, 0>> /\ ~isBcd /\ ~is12h))
  /\ BootInit /\ (part = "boot" \/ ready = {})

NicMoves == part = "network card" /\ NicNext /\ UNCHANGED <<part, netVars, openVars, mouseVars, shellVars, wdVars,
             weightVars, clockVars, bootVars, spaceVars>>

NetMoves == part = "network" /\ NetNext /\ UNCHANGED <<part, nicVars, openVars, mouseVars, shellVars, wdVars,
             weightVars, clockVars, bootVars, spaceVars>>

OpenMoves == part = "open files" /\ OpenNext /\ UNCHANGED <<part, nicVars, netVars, mouseVars, shellVars, wdVars,
              weightVars, clockVars, bootVars, spaceVars>>

MouseMoves == part = "mouse" /\ MouseNext /\ UNCHANGED <<part, nicVars, netVars, openVars, shellVars, wdVars,
               weightVars, clockVars, bootVars, spaceVars>>

ShellMoves == part = "shell" /\ ShellNext /\ UNCHANGED <<part, nicVars, netVars, openVars, mouseVars, wdVars,
               weightVars, clockVars, bootVars, spaceVars>>

WdMoves == part = "working directory" /\ WdNext /\ UNCHANGED <<part, nicVars, netVars, openVars, mouseVars, shellVars,
            weightVars, clockVars, bootVars, spaceVars>>

WeightsMoves == part = "weights" /\ WeightsNext /\ UNCHANGED <<part, nicVars, netVars, openVars, mouseVars, shellVars,
                 wdVars, clockVars, bootVars, spaceVars>>

ClockMoves == part = "clock" /\ ClockNext /\ UNCHANGED <<part, nicVars, netVars, openVars, mouseVars, shellVars,
               wdVars, weightVars, bootVars, spaceVars>>

BootMoves == part = "boot" /\ BootNext /\ UNCHANGED <<part, nicVars, netVars, openVars, mouseVars, shellVars,
              wdVars, weightVars, clockVars, spaceVars>>

SpacesMoves == part = "memory" /\ SpacesNext /\ UNCHANGED <<part, nicVars, netVars, openVars, mouseVars, shellVars,
                wdVars, weightVars, clockVars, bootVars>>

PartsNext ==
  \/ NicMoves \/ NetMoves \/ OpenMoves \/ MouseMoves \/ ShellMoves
  \/ WdMoves \/ WeightsMoves \/ ClockMoves \/ BootMoves \/ SpacesMoves

\* The fairness of NetSpec: PIT interrupts keep coming.  The other modules assume none.
PartsSpec == PartsInit /\ [][PartsNext]_partsVars /\ WF_netVars(part = "network" /\ Tick)

\* The components that move or stay satisfy the type invariants of their modules.
PartsTypeOK ==
  /\ NicTypeOK /\ NetTypeOK /\ OpenTypeOK /\ MouseTypeOK /\ ShellTypeOK
  /\ WdTypeOK /\ WeightsTypeOK /\ ClockTypeOK /\ BootTypeOK /\ SpacesTypeOK

\* ternary.rs:128: what the codec gives back, for every weight there is; see WeightsFile.
ASSUME CodecRoundsToNearest
=============================================================================
