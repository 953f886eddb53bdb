---------------------------- MODULE WeightsFile ----------------------------
(***************************************************************************)
(* Saving the weights of the synapses (`save`, neurons.rs and ata.rs) and  *)
(* finding them again at the next boot, through the ternary code of a      *)
(* weight (ternary.rs).  A weight is a whole number of units, UnitsPerStep *)
(* of them to a step of the code, so that a weight may lie between two     *)
(* steps or halfway; floating-point rounding is not modelled.  What the    *)
(* names of the neurons do is all in which pair a synapse joins.           *)
(***************************************************************************)
EXTENDS Integers, Sequences, FiniteSets

CONSTANTS Seeded,         \* the pairs seed_fixed_network joins
          OtherPairs,     \* pairs the shell may join besides
          Trits,          \* TRITS_PER_WEIGHT, 10 in the code
          TritsPerByte,   \* 5 in the code
          UnitsPerStep,
          LearnedValues, GivenValues,  \* weights STDP reaches; weights addsynapse is given
          DefaultWeight,  \* INITIAL_WEIGHT
          FileEntries,    \* MAX_SYNAPSES, 14 in the code
          MaxSynapsesKept \* bound: synapses at a time

PowerOf3[i \in 0..Trits + TritsPerByte] == IF i = 0 THEN 1 ELSE 3 * PowerOf3[i - 1]

StepsMax == PowerOf3[Trits] - 1   \* WEIGHT_MAX_DIGIT
One == UnitsPerStep * StepsMax    \* the weight 1.0

ASSUME WeightsAssumption ==
  /\ {Trits, TritsPerByte, UnitsPerStep, FileEntries} \subseteq Nat \ {0}
  /\ LearnedValues \subseteq 0..One /\ GivenValues \subseteq Int /\ DefaultWeight \in 0..One
  /\ MaxSynapsesKept \in Nat /\ IsFiniteSet(Seeded) /\ Seeded \cap OtherPairs = {}

VARIABLES
  held,      \* the synapses in memory, in order: pair and weight
  sector,    \* what sector 0 of the disk holds: pair and packed weight, <<>> without the magic
  lastSaved, \* history: the synapses the last save wrote, as they were
  justBooted \* history: "loaded" or "defaults" until a weight changes, "changed" after

weightVars == <<held, sector, lastSaved, justBooted>>

----------------------------------------------------------------------------
(* ternary.rs.                                                             *)

ClampedWeight(w) == IF w < 0 THEN 0 ELSE IF w > One THEN One ELSE w

\* roundf: to the nearest step, halves upwards.
Rounded(w) == (2 * ClampedWeight(w) + UnitsPerStep) \div (2 * UnitsPerStep)

\* The digit of 3^k in a number, and the number that n digits make, lowest first.
DigitOf(number, k) == (number \div PowerOf3[k]) % 3

Value(digits, n) ==
  LET upTo[i \in 0..n] == IF i = 0 THEN 0 ELSE upTo[i - 1] + digits[i] * PowerOf3[i - 1]
  IN upTo[n]

\* The base-3 digits of a step: the trits plus 1.
Digits(step) == [i \in 1..Trits |-> DigitOf(step, i - 1)]

\* pack_ternary: TritsPerByte digits to a byte, the last byte filled up with the digit of trit 0.
PackedByte(digits, b) ==
  Value([j \in 1..TritsPerByte |-> IF (b - 1) * TritsPerByte + j <= Trits
                                   THEN digits[(b - 1) * TritsPerByte + j] ELSE 1], TritsPerByte)

PackedBytes(digits) ==
  [b \in 1..((Trits + TritsPerByte - 1) \div TritsPerByte) |-> PackedByte(digits, b)]

\* unpack_ternary: the digits of each byte, of which the first Trits count.
UnpackedDigits(bytes) ==
  [i \in 1..Trits |-> DigitOf(bytes[(i - 1) \div TritsPerByte + 1], (i - 1) % TritsPerByte)]

EncodeWeight(w) == PackedBytes(Digits(Rounded(w)))

DecodeWeight(bytes) == UnitsPerStep * Value(UnpackedDigits(bytes), Trits)

----------------------------------------------------------------------------
(* The network as far as `save` and a boot see it.                         *)

Synapses == [pair : Seeded \cup OtherPairs, weight : Int]

Fresh(order) == [i \in DOMAIN order |-> [pair |-> order[i], weight |-> DefaultWeight]]

\* seed_fixed_network; no two seeded synapses join the same pair.
SeededSynapses == CHOOSE s \in {Fresh(o) : o \in [1..Cardinality(Seeded) -> Seeded]} :
                    \A i, j \in DOMAIN s : s[i].pair = s[j].pair => i = j

WeightsInit ==
  /\ held = SeededSynapses /\ sector = <<>> /\ lastSaved = <<>> /\ justBooted = "defaults"

\* A tick or `train` changes a weight; `addsynapse` appends a synapse, of any weight, twice for the
\* same pair if asked.
LearnWeight ==
  /\ \E i \in DOMAIN held, w \in LearnedValues : held' = [held EXCEPT ![i].weight = w]
  /\ justBooted' = "changed"
  /\ UNCHANGED <<sector, lastSaved>>

AppendSynapse ==
  /\ Len(held) < MaxSynapsesKept
  /\ \E p \in Seeded \cup OtherPairs, w \in GivenValues :
       held' = Append(held, [pair |-> p, weight |-> w])
  /\ justBooted' = "changed"
  /\ UNCHANGED <<sector, lastSaved>>

\* save_weights: as many entries as fit, in the order of the synapses; the sector is written as a
\* whole or, on an error, not at all.
Fitting == SubSeq(held, 1, IF Len(held) < FileEntries THEN Len(held) ELSE FileEntries)

SaveWeights ==
  /\ sector' = [i \in DOMAIN Fitting |->
                  [pair |-> Fitting[i].pair, bytes |-> EncodeWeight(Fitting[i].weight)]]
  /\ lastSaved' = Fitting
  /\ UNCHANGED <<held, justBooted>>

\* Mutant: an entry goes to the synapse of the same number.
AppliedByNumber(synapses, entry) ==
  [i \in DOMAIN synapses |->
     IF \E e \in DOMAIN sector : sector[e] = entry /\ e = i
     THEN [synapses[i] EXCEPT !.weight = DecodeWeight(entry.bytes)] ELSE synapses[i]]

\* apply_synapse_weight: to the first synapse of that pair, if there is one.
Applied(synapses, entry) ==
  [i \in DOMAIN synapses |->
     IF synapses[i].pair = entry.pair /\ \A j \in 1..i - 1 : synapses[j].pair # entry.pair
     THEN [synapses[i] EXCEPT !.weight = DecodeWeight(entry.bytes)] ELSE synapses[i]]

\* The network seeded afresh, and the entries applied one after the other.
LoadedSynapses ==
  LET after[e \in 0..Len(sector)] ==
        IF e = 0 THEN SeededSynapses ELSE Applied(after[e - 1], sector[e])
  IN after[Len(sector)]

\* A boot, with the synapses of the sector or without.
LoadAtBoot ==
  \/ /\ sector # <<>>
     /\ held' = LoadedSynapses
     /\ justBooted' = "loaded"
     /\ UNCHANGED <<sector, lastSaved>>
  \/ /\ held' = SeededSynapses   \* nothing saved, or the sector cannot be read
     /\ justBooted' = "defaults"
     /\ UNCHANGED <<sector, lastSaved>>

WeightsNext == LearnWeight \/ AppendSynapse \/ SaveWeights \/ LoadAtBoot

WeightsSpec == WeightsInit /\ [][WeightsNext]_weightVars

----------------------------------------------------------------------------
WeightsTypeOK ==
  /\ held \in Seq(Synapses) /\ Len(held) <= MaxSynapsesKept
  /\ \A i \in DOMAIN sector : \A b \in DOMAIN sector[i].bytes : sector[i].bytes[b] \in 0..255
  /\ justBooted \in {"loaded", "defaults", "changed"}

\* The step nearest to a weight, the upper one of two, without going through any code of it.
NearestStep(w) ==
  CHOOSE s \in 0..StepsMax :
    \A t \in 0..StepsMax :
      LET v == ClampedWeight(w)
          ds == IF v > s * UnitsPerStep THEN v - s * UnitsPerStep ELSE s * UnitsPerStep - v
          dt == IF v > t * UnitsPerStep THEN v - t * UnitsPerStep ELSE t * UnitsPerStep - v
      IN ds < dt \/ (ds = dt /\ t <= s)

SavedFor(pair) == {i \in DOMAIN lastSaved : lastSaved[i].pair = pair}

LastSavedFor(pair) ==
  lastSaved[CHOOSE i \in SavedFor(pair) : \A j \in SavedFor(pair) : j <= i]

\* decode_weight reverses encode_weight up to the nearest step, for every weight.
CodecRoundsToNearest ==
  \A w \in -UnitsPerStep..One + UnitsPerStep :
    DecodeWeight(EncodeWeight(w)) = UnitsPerStep * NearestStep(w)

\* Each seeded synapse comes back from a boot with its saved weight, to the nearest step of the
\* code and within [0, 1], however many synapses were saved with it and in whatever order; saving
\* and booting again changes nothing more.  If several saved synapses join the same pair, it is the
\* weight of the last of them that comes back to the one there is now, not its own.
WeightsComeBack ==
  justBooted = "loaded" =>
    \A i \in DOMAIN held :
      /\ held[i].weight =
           IF SavedFor(held[i].pair) = {} THEN DefaultWeight
           ELSE UnitsPerStep * NearestStep(LastSavedFor(held[i].pair).weight)
      /\ SavedFor(held[i].pair) # {} => DecodeWeight(EncodeWeight(held[i].weight)) = held[i].weight
=============================================================================
