--------------------------- MODULE VoterSetSpec ---------------------------
(***************************************************************************)
(* Creating a voter set from every small list of weights, and what the     *)
(* rounds rely on of the result.                                           *)
(***************************************************************************)
EXTENDS VoterSet

CONSTANTS
    Id,         \* identities
    WeightIn,   \* the weights an entry of the list may have
    MaxEntries  \* bound on the length of the list

ASSUME ListAssumption == Id \subseteq Nat /\ WeightIn \subseteq Nat /\ MaxEntries \in Nat

\* None is not what VoterSet::new has counted so far.
ASSUME NoSetAssumption ==
    NoSet \notin [total : 0 .. MaxWeight, weight : UNION {[ids -> 0 .. MaxWeight] : ids \in SUBSET Id}]

VARIABLES
    input,      \* the list of (id, weight)
    set         \* the result of VoterSet::new

setVars == <<input, set>>

Entry == [id : Id, weight : WeightIn]

SetInit == input = <<>> /\ set = NoSet

CreateSet(weights) ==
    /\ input' = weights
    /\ set' = NewVoterSet(weights)

SetNext ==
    /\ input = <<>>
    /\ \E n \in 1 .. MaxEntries : \E weights \in [1 .. n -> Entry] : CreateSet(weights)

SetSpec == SetInit /\ [][SetNext]_setVars

-----------------------------------------------------------------------------
(* Properties *)

\* What the list gives in all, and what it gives one id.
InputTotal == SumFunction([i \in DOMAIN input |-> input[i].weight])
InputWeight(id) ==
    SumFunction([i \in DOMAIN input |-> IF input[i].id = id THEN input[i].weight ELSE 0])

\* VoterSet::new gives a set exactly when the weights do not overflow and are not all zero,
\* whatever the order and the duplicates of the list; it then holds the ids with a
\* nonzero sum, sorted, with that sum (its doc comment: "the order ... is irrelevant"), and
\* nth_mod makes each of them the primary of one of as many consecutive rounds.
NewIsExact ==
    IF InputTotal = 0 \/ InputTotal > MaxWeight THEN set = NoSet
    ELSE /\ set.total_weight = InputTotal
         /\ VoterIds(set) = {id \in Id : InputWeight(id) > 0}
         /\ \A id \in VoterIds(set) : WeightOfVoter(set, id) = InputWeight(id)
         /\ \A i, j \in DOMAIN set.voters : i < j => set.voters[i].id < set.voters[j].id
         /\ \A first \in 0 .. 2 * Len(set.voters) :
               {NthMod(set, n).id : n \in first .. first + Len(set.voters) - 1} = VoterIds(set)

\* threshold(): two supermajorities share more weight than may be faulty, and the voters
\* left when any tolerated weight is silent are still a supermajority.  One off in either
\* direction breaks safety or liveness, at totals 3f, 3f + 1 or 3f + 2 only.
ThresholdIsTight ==
    set # NoSet =>
        LET faulty == set.total_weight - set.threshold
        IN  /\ \A S, T \in SUBSET VoterIds(set) :
                  WeightOfIds(set, S) >= set.threshold /\ WeightOfIds(set, T) >= set.threshold
                      => WeightOfIds(set, S \intersect T) > faulty
            /\ 3 * (faulty + 1) >= set.total_weight
=============================================================================
