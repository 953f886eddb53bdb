-------------------------- MODULE SpikingNetwork --------------------------
(***************************************************************************)
(* The spiking network (network.rs), the built-in neurons seeded in it     *)
(* (neurons.rs) and the speaker its firings sound (speaker.rs).  The timer *)
(* handler calls tick; a key press and the shell commands stim, addneuron, *)
(* addsynapse, train, beep and silence call the rest.  Each call holds the *)
(* lock NET from start to end, so each is one step.                        *)
(* Reals are scaled to integers: a weight of WeightOne stands for 1.0, an  *)
(* evidence of EvidenceOne for 1.0.  The tick counter is kept modulo the   *)
(* gate period, firing times as their order, a window as its age.          *)
(***************************************************************************)
EXTENDS Integers, Sequences, FiniteSets
LOCAL INSTANCE FiniteSetsExt

CONSTANTS Keys,          \* the key neurons: LeftKey and RightKey in the code
          Motor,         \* the motor neuron
          ExtraNeurons,  \* names the shell may add
          Threshold, Leak, Refractory,  \* per neuron: the fields of those names
          StimAmounts,   \* the amounts of one stimulus: KEY_STIM_AMOUNT and what `stim` is given
          Weights,       \* the weights given to addsynapse or read from the weights file
          WeightOne, InitialWeight, SpikeGain,
          EvidenceOne, GateOn, GateOff,
          Window,        \* CORRELATION_WINDOW_TICKS
          GatePeriod,    \* golden_period(FAST_TAU_TICKS), 18 in the code
          BeepTicks,     \* BEEP_DURATION_TICKS
          Gaps,          \* the gaps given to train
          MaxSynapses, MaxPending, MaxCommands  \* bounds: synapses, stimulus per tick, commands but stim

NeuronNames == Keys \cup {Motor} \cup ExtraNeurons

ASSUME NetworkAssumption ==
  /\ IsFiniteSet(Keys)
  /\ Motor \notin Keys /\ ExtraNeurons \cap (Keys \cup {Motor}) = {}
  /\ Leak \in [NeuronNames -> Nat] /\ Refractory \in [NeuronNames -> Nat]
  /\ Threshold \in [NeuronNames -> Int]
  /\ StimAmounts \subseteq Int /\ Weights \subseteq Int
  /\ {WeightOne, InitialWeight, SpikeGain, Window, MaxSynapses, MaxPending, MaxCommands} \subseteq Nat
  /\ EvidenceOne \in Nat /\ GateOff \in 0..GateOn /\ GateOn \in 0..EvidenceOne
  /\ GatePeriod \in Nat \ {0} /\ BeepTicks \in Nat \ {0} /\ Gaps \subseteq Nat

VARIABLES
  neurons,    \* the neurons that exist
  volt,       \* Neuron.v
  refr,       \* Neuron.refractory_remaining
  fireRank,   \* the order of Neuron.last_fire_tick: 0 for None, equal for equal ticks
  stimulus,   \* pending_stimulus
  synapses,   \* the synapses; window is the age of pending_pre_fire_tick, 0 for None
  phase,      \* tick_count % golden_period(FAST_TAU_TICKS)
  beepLeft,   \* beep_ticks_remaining
  speakerOn,  \* the two low bits of the speaker gate register
  toneBy,     \* history: who set the tone last, "nobody", "spike" or "shell"
  sinceFire,  \* history: ticks since the neuron last fired in tick, up to Window + 1
  doubts,     \* history: per synapse, how often its evidence has moved against its gate since
              \* it was last on the gate's side of the band, up to 2
  commands    \* how many commands other than stim were given, for the bound

neuronVars == <<neurons, volt, refr, fireRank, stimulus, sinceFire>>
soundVars == <<beepLeft, speakerOn, toneBy>>
netVars == <<neuronVars, synapses, doubts, phase, soundVars, commands>>

NewSynapse(from, to, weight) ==
  [from |-> from, to |-> to, weight |-> weight, gate |-> TRUE, evidence |-> EvidenceOne, window |-> 0]

\* seed_fixed_network and what init of neurons.rs reads from the weights file: one synapse from
\* each key neuron to the motor neuron, with the saved weight if there is one.
NetInit ==
  /\ neurons = Keys \cup {Motor}
  /\ volt = [n \in NeuronNames |-> 0] /\ refr = [n \in NeuronNames |-> 0]
  /\ fireRank = [n \in NeuronNames |-> 0] /\ stimulus = [n \in NeuronNames |-> 0]
  /\ sinceFire = [n \in NeuronNames |-> Window + 1]
  /\ \E order \in [1..Cardinality(Keys) -> Keys] :
       /\ \A i, j \in DOMAIN order : order[i] = order[j] => i = j
       /\ \E weight \in [DOMAIN order -> Weights \cup {InitialWeight}] :
            synapses = [i \in DOMAIN order |-> NewSynapse(order[i], Motor, weight[i])]
  /\ doubts = [i \in DOMAIN synapses |-> 0]
  /\ phase = 0
  /\ beepLeft = 0 /\ speakerOn = FALSE /\ toneBy = "nobody"
  /\ commands = 0

----------------------------------------------------------------------------
(* The commands.  A name that does not exist is an error and changes       *)
(* nothing.                                                                *)

Command == commands < MaxCommands /\ commands' = commands + 1

\* addneuron: a name that exists is refused.
AddNeuron(n) ==
  /\ Command /\ n \notin neurons
  /\ neurons' = neurons \cup {n}
  /\ UNCHANGED <<volt, refr, fireRank, stimulus, sinceFire, synapses, doubts, phase, soundVars>>

\* addsynapse: any weight, and a second synapse between the same two neurons too.
AddSynapse(from, to, weight) ==
  /\ Command /\ {from, to} \subseteq neurons /\ Len(synapses) < MaxSynapses
  /\ synapses' = Append(synapses, NewSynapse(from, to, weight))
  /\ doubts' = Append(doubts, 0)
  /\ UNCHANGED <<neuronVars, phase, soundVars>>

\* stimulate, of `stim` and of the keys a and d.
Stimulate(n, amount) ==
  /\ n \in neurons /\ stimulus[n] + amount \in -MaxPending..MaxPending
  /\ stimulus' = [stimulus EXCEPT ![n] = @ + amount]
  /\ UNCHANGED <<neurons, volt, refr, fireRank, sinceFire, synapses, doubts, phase, soundVars, commands>>

\* The synapse a pair of names denotes: the first that joins them.
Joining(from, to) == {i \in DOMAIN synapses : synapses[i].from = from /\ synapses[i].to = to}
IsFirst(i, S) == i \in S /\ \A j \in S : i <= j

\* Firing times matter by their order alone: ranks without gaps.
Ranked(time) ==
  [n \in NeuronNames |-> Cardinality({time[m] : m \in NeuronNames} \cap 1..time[n])]

LastRank(rank) == CHOOSE r \in {rank[n] : n \in NeuronNames} : \A n \in NeuronNames : rank[n] <= r

Larger(a, b) == IF a < b THEN b ELSE a
Smaller(a, b) == IF a < b THEN a ELSE b

\* apply_stdp: the weight grows if the presynaptic neuron fired first, and shrinks if it fired
\* last.  The change may round to nothing, and does when the two firings are far apart.
StdpWeights(weight, pre, post) ==
  LET sign == IF pre = 0 \/ post = 0 \/ pre = post THEN 0 ELSE IF pre < post THEN 1 ELSE -1
  IN CASE sign = 1  -> {Smaller(weight, WeightOne), Smaller(weight + 1, WeightOne)}
       [] sign = -1 -> {Larger(weight, 0), Larger(weight - 1, 0)}
       [] OTHER     -> {weight}

\* How far the windows and the gate's phase move when the tick counter advances.
Aged(age, ticks) == IF age = 0 THEN 0 ELSE Smaller(age + ticks, Window + 1)

\* train_synapse: two made-up firings, gap ticks apart, and the counter moved past them.  The
\* gate is not looked at.  The gap is one that the counter, a u64, can still be moved by.
TrainSynapse(from, to, gap, preFirst) ==
  LET first == IF preFirst THEN from ELSE to
      second == IF preFirst THEN to ELSE from
      early == LastRank(fireRank) + 1
      late == IF gap = 0 THEN early ELSE early + 1
      rank == [[fireRank EXCEPT ![first] = early] EXCEPT ![second] = late]
  IN /\ Command
     /\ \E i \in DOMAIN synapses :
          /\ IsFirst(i, Joining(from, to))
          /\ \E w \in StdpWeights(synapses[i].weight, rank[from], rank[to]) :
               synapses' = [j \in DOMAIN synapses |->
                              [synapses[j] EXCEPT !.weight = IF j = i THEN w ELSE @,
                                                  !.window = Aged(@, gap + 1)]]
     /\ fireRank' = Ranked(rank)
     /\ phase' = (phase + gap + 1) % GatePeriod
     /\ sinceFire' = [n \in NeuronNames |-> Smaller(sinceFire[n] + gap + 1, Window + 1)]
     /\ UNCHANGED <<neurons, volt, refr, stimulus, doubts, soundVars>>

\* The shell's `beep FREQ` and `silence`.
ShellBeep ==
  /\ Command /\ speakerOn' = TRUE /\ toneBy' = "shell"
  /\ UNCHANGED <<neuronVars, synapses, doubts, phase, beepLeft>>

ShellSilence ==
  /\ Command /\ speakerOn' = FALSE
  /\ UNCHANGED <<neuronVars, synapses, doubts, phase, beepLeft, toneBy>>

----------------------------------------------------------------------------
(* tick, the timer handler's call.                                         *)

\* A neuron after leak and stimulus; a refractory one drops its stimulus.
Charged(n) == Larger(volt[n] - Leak[n], 0) + stimulus[n]
FiringNow == {n \in neurons : refr[n] = 0 /\ Charged(n) >= Threshold[n]}

\* update_evidence: the moving average, rounded away from the middle so that it has the two ends
\* of the real one as its limits.
UpdatedEvidence(evidence, hit) ==
  IF hit THEN (4 * evidence + EvidenceOne + 4) \div 5 ELSE (4 * evidence) \div 5

\* Mutant: a dormant synapse does not sense the firings of its neurons.
SensedWhileLive(s, fired) ==
  LET hit == s.gate /\ s.to \in fired /\ s.window \in 1..Window
      miss == s.gate /\ s.window > Window
  IN [s EXCEPT !.evidence = IF hit \/ miss THEN UpdatedEvidence(@, hit) ELSE @,
               !.window = IF s.gate /\ s.from \in fired THEN 1
                          ELSE IF hit \/ miss THEN 0 ELSE Aged(@, 1)]

\* Mutant: the age of the window is looked at only when it expires.
SensedAnyAge(s, fired) ==
  LET hit == s.to \in fired /\ s.window > 0
      miss == s.window > Window
  IN [s EXCEPT !.evidence = IF hit \/ miss THEN UpdatedEvidence(@, hit) ELSE @,
               !.window = IF s.from \in fired THEN 1
                          ELSE IF hit \/ miss THEN 0 ELSE Aged(@, 1)]

\* The evidence pass over one synapse, whatever its gate: a firing of the second neuron answers
\* an open window, a window too old counts as a miss, a firing of the first opens a new one.
Sensed(s, fired) ==
  LET hit == s.to \in fired /\ s.window \in 1..Window
      miss == s.window > Window
  IN [s EXCEPT !.evidence = IF hit \/ miss THEN UpdatedEvidence(@, hit) ELSE @,
               !.window = IF s.from \in fired THEN 1
                          ELSE IF hit \/ miss THEN 0 ELSE Aged(@, 1)]

\* What the firings add to a neuron's stimulus for the next tick: gated synapses alone.
Propagated(n, fired) ==
  LET live == {i \in DOMAIN synapses :
                 synapses[i].gate /\ synapses[i].from \in fired /\ synapses[i].to = n}
  IN MapThenSumSet(LAMBDA i : synapses[i].weight * SpikeGain, live)

\* No single hit or miss takes the evidence across the band between the two thresholds (in the
\* code 0.2 and 0.5: a hit takes less than 0.2 to less than 0.36, a miss more than 0.5 to more
\* than 0.4).
ASSUME BandAssumption ==
  /\ GateOn < EvidenceOne
  /\ \A e \in 0..EvidenceOne :
       /\ e < GateOff => UpdatedEvidence(e, TRUE) <= GateOn
       /\ e > GateOn  => UpdatedEvidence(e, FALSE) >= GateOff

\* Mutant: one threshold for both directions.
GateAfterNoBand(s) == s.evidence >= GateOff

\* evaluate_gates, for one synapse.
GateAfter(s) == IF s.gate THEN s.evidence >= GateOff ELSE s.evidence > GateOn

EvaluatedGates(syns) == [i \in DOMAIN syns |-> [syns[i] EXCEPT !.gate = GateAfter(syns[i])]]

\* The weights a synapse may have after the STDP pass of a tick.
LearnedWeights(s, fired, rank) ==
  IF s.gate /\ {s.from, s.to} \cap fired # {}
  THEN StdpWeights(s.weight, rank[s.from], rank[s.to]) ELSE {s.weight}

\* Mutant: the speaker is stopped a tick after the countdown has ended.
TickSoundLate(fired) ==
  IF fired # {}
  THEN speakerOn' = TRUE /\ toneBy' = "spike" /\ beepLeft' = BeepTicks
  ELSE /\ beepLeft' = Larger(beepLeft - 1, 0)
       /\ speakerOn' = (speakerOn /\ beepLeft # 0)
       /\ UNCHANGED toneBy

\* The automatic blip: a firing starts the tone and the countdown, the end of which stops it.
TickSound(fired) ==
  IF fired # {}
  THEN speakerOn' = TRUE /\ toneBy' = "spike" /\ beepLeft' = BeepTicks
  ELSE /\ beepLeft' = Larger(beepLeft - 1, 0)
       /\ speakerOn' = (speakerOn /\ beepLeft # 1)
       /\ UNCHANGED toneBy

\* The evidence is on the side of the band where the gate stays as it is.
BackedUp(s) == IF s.gate THEN s.evidence > GateOn ELSE s.evidence < GateOff

\* The doubts of synapse i when this step's verdict, if there is one, is counted.
DoubtsNow(i) ==
  LET old == synapses[i].evidence
      new == synapses'[i].evidence
  IN doubts[i] + (IF (synapses[i].gate /\ new < old) \/ (~synapses[i].gate /\ new > old) THEN 1 ELSE 0)

Tick ==
  LET fired == FiringNow
      now == LastRank(fireRank) + 1
      rank == [n \in NeuronNames |-> IF n \in fired THEN now ELSE fireRank[n]]
  IN /\ volt' = [n \in NeuronNames |->
                   IF n \notin neurons \/ refr[n] > 0 THEN volt[n]
                   ELSE IF n \in fired THEN 0 ELSE Charged(n)]
     /\ refr' = [n \in NeuronNames |->
                   IF refr[n] > 0 THEN refr[n] - 1
                   ELSE IF n \in fired THEN Refractory[n] ELSE 0]
     /\ fireRank' = Ranked(rank)
     /\ stimulus' = [n \in NeuronNames |-> Propagated(n, fired)]
     /\ \E learned \in [DOMAIN synapses -> UNION {LearnedWeights(synapses[i], fired, rank) : i \in DOMAIN synapses}] :
          /\ \A i \in DOMAIN synapses : learned[i] \in LearnedWeights(synapses[i], fired, rank)
          /\ LET after == [i \in DOMAIN synapses |->
                             [Sensed(synapses[i], fired) EXCEPT !.weight = learned[i]]]
             IN synapses' = IF phase = 0 THEN EvaluatedGates(after) ELSE after
     /\ doubts' = [i \in DOMAIN synapses |->
                     IF BackedUp(synapses'[i]) THEN 0 ELSE Smaller(DoubtsNow(i), 2)]
     /\ phase' = (phase + 1) % GatePeriod
     /\ TickSound(fired)
     /\ sinceFire' = [n \in NeuronNames |->
                        IF n \in fired THEN 1 ELSE Smaller(sinceFire[n] + 1, Window + 1)]
     /\ UNCHANGED <<neurons, commands>>

NetNext ==
  \/ Tick
  \/ \E n \in NeuronNames : AddNeuron(n)
  \/ \E n \in NeuronNames, a \in StimAmounts : Stimulate(n, a)
  \/ \E from, to \in NeuronNames, w \in Weights : AddSynapse(from, to, w)
  \/ \E from, to \in NeuronNames, gap \in Gaps, pre \in BOOLEAN : TrainSynapse(from, to, gap, pre)
  \/ ShellBeep \/ ShellSilence

\* The timer interrupt keeps coming; nobody has to type.
NetSpec == NetInit /\ [][NetNext]_netVars /\ WF_netVars(Tick)

----------------------------------------------------------------------------
SynapseType ==
  [from : neurons, to : neurons, weight : Int, gate : BOOLEAN,
   evidence : 0..EvidenceOne, window : 0..Window + 1]

NetTypeOK ==
  /\ neurons \subseteq NeuronNames
  /\ volt \in [NeuronNames -> Int]
  /\ \A n \in NeuronNames : refr[n] \in 0..Refractory[n]
  /\ fireRank \in [NeuronNames -> 0..Cardinality(NeuronNames)]
  /\ stimulus \in [NeuronNames -> Int]
  /\ synapses \in Seq(SynapseType) /\ doubts \in [DOMAIN synapses -> 0..2]
  /\ phase \in 0..GatePeriod - 1
  /\ beepLeft \in 0..BeepTicks /\ speakerOn \in BOOLEAN /\ toneBy \in {"nobody", "spike", "shell"}
  /\ sinceFire \in [NeuronNames -> 1..Window + 1]
  /\ commands \in 0..MaxCommands

\* Evidence is about firing times alone, as the comment of Synapse.evidence promises: it falls
\* only when the first neuron has been silent for more than the window and rises only when the
\* second fires within the window of a firing of the first, a dormant synapse's like any other's.
\* One that fires again before its window closes is never counted as a miss.
EvidenceMatchesFirings ==
  [][\A i \in DOMAIN synapses :
       LET old == synapses[i]
           new == synapses'[i]
       IN /\ new.evidence < old.evidence => sinceFire[old.from] > Window
          /\ new.evidence > old.evidence =>
               sinceFire[old.from] <= Window /\ old.to \in FiringNow]_netVars

\* The hysteresis of the gate does what its comment says: the gate does not flap "from ordinary
\* hit/miss noise" (network.rs:204-210).  One verdict never moves it: since the evidence was last on
\* the gate's own side of the band it must have turned against the gate at least twice, by two
\* misses to close it and by two answered firings to open it, however hits, misses, ticks of the
\* slow clock and `train`, which may jump over one, come in between.
GatesDoNotFlap ==
  [][\A i \in DOMAIN synapses :
       synapses'[i].gate # synapses[i].gate => DoubtsNow(i) >= 2]_netVars

\* What happens to synapse i in a step: its second neuron fires within the window of the first,
\* or its window expires.
Answered(i) ==
  /\ i \in DOMAIN synapses /\ sinceFire[synapses[i].from] <= Window
  /\ synapses[i].to \in FiringNow /\ Tick

Missed(i) == i \in DOMAIN synapses /\ synapses[i].window > Window /\ Tick

\* No lockout (the comment at the head of network.rs): a synapse whose first neuron is answered
\* again and again, and in the end never in vain, becomes live for good, however dormant it was;
\* and one whose neuron is in the end never answered becomes dormant.  `train` moves the tick
\* counter and may jump over the slow clock's tick.
NoLockout ==
  \A i \in 1..MaxSynapses :
    /\ (<>[][~Missed(i)]_netVars /\ []<><<Answered(i)>>_netVars)
         => <>[](i \in DOMAIN synapses /\ synapses[i].gate)
    /\ ([]<><<Missed(i)>>_netVars /\ <>[][~Answered(i)]_netVars)
         => <>[](i \in DOMAIN synapses /\ ~synapses[i].gate)

\* A tone a spike started is always going to be cut: while it sounds the countdown runs.  Only a
\* tone of the shell's `beep` may be left without one.
SpikeToneIsTimed == speakerOn /\ toneBy = "spike" => beepLeft > 0
=============================================================================
