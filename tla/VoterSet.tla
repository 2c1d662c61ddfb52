----------------------------- MODULE VoterSet -----------------------------
(***************************************************************************)
(* Voter sets (voter_set.rs) and the arithmetic on vote weights            *)
(* (weights.rs).  Identities are natural numbers: all that is used of an   *)
(* identity is its order.                                                  *)
(***************************************************************************)
EXTENDS Naturals, SequencesExt

CONSTANTS
    MaxWeight,  \* u64::MAX
    NoSet       \* the value None of an Option<VoterSet>

ASSUME MaxWeightAssumption == MaxWeight \in Nat

\* VoteWeight: addition and subtraction saturate.
SatAdd(a, b) == IF a + b > MaxWeight THEN MaxWeight ELSE a + b
SatSub(a, b) == IF a < b THEN 0 ELSE a - b

\* Slip: a third of the weight may be faulty, not less than a third.
ThresholdOfThird(total) == total - total \div 3

\* fn threshold
ThresholdOf(total) == total - SatSub(total, 1) \div 3

WithWeight(weight, id, w) == [x \in DOMAIN weight \union {id} |-> IF x = id THEN w ELSE weight[x]]

\* Slip: the last weight of an id replaces the earlier ones.
ReplaceWeight(acc, entry) ==
    IF acc = NoSet \/ entry.weight = 0 THEN acc
    ELSE IF acc.total + entry.weight > MaxWeight THEN NoSet
    ELSE [total  |-> acc.total + entry.weight,
          weight |-> WithWeight(acc.weight, entry.id, entry.weight)]

\* One turn of the loop in VoterSet::new: a zero weight is skipped, weights of one id
\* accumulate, overflow of the total gives up.
AddWeight(acc, entry) ==
    IF acc = NoSet \/ entry.weight = 0 THEN acc
    ELSE IF acc.total + entry.weight > MaxWeight THEN NoSet
    ELSE LET old == IF entry.id \in DOMAIN acc.weight THEN acc.weight[entry.id] ELSE 0
         IN  [total  |-> acc.total + entry.weight,
              weight |-> WithWeight(acc.weight, entry.id, old + entry.weight)]

\* The keys of a BTreeMap in the order in which it iterates.
InOrder(ids) ==
    CHOOSE seq \in [1 .. Cardinality(ids) -> ids] :
        \A i, j \in 1 .. Cardinality(ids) : i < j => seq[i] < seq[j]

\* VoterSet::new, from a list of (id, weight); the voters are kept in the order of their ids.
NewVoterSet(weights) ==
    LET all == FoldLeft(AddWeight, [total |-> 0, weight |-> [id \in {} |-> 0]], weights)
    IN  IF all = NoSet THEN NoSet
        ELSE IF DOMAIN all.weight = {} THEN NoSet
        ELSE LET ids == InOrder(DOMAIN all.weight)
             IN  [voters       |-> [i \in DOMAIN ids |-> [id |-> ids[i], weight |-> all.weight[ids[i]]]],
                  total_weight |-> all.total,
                  threshold    |-> ThresholdOf(all.total)]

\* VoterSet::contains, and the position and weight of VoterSet::get
ContainsVoter(vs, id) == \E i \in DOMAIN vs.voters : vs.voters[i].id = id
Position(vs, id) == SelectInSeq(vs.voters, LAMBDA v : v.id = id) - 1
WeightOfVoter(vs, id) == vs.voters[Position(vs, id) + 1].weight

\* VoterSet::nth_mod
NthMod(vs, n) == vs.voters[(n % Len(vs.voters)) + 1]

VoterIds(vs) == {vs.voters[i].id : i \in DOMAIN vs.voters}

\* What some of the voters weigh together, as one would define it.
WeightOfIds(vs, ids) == SumFunction([id \in ids |-> WeightOfVoter(vs, id)])

\* What a voter set is, of the sets that VoterSet::new can make: it has voters, in the order
\* of their ids, all of them with weight, and the total and the threshold are theirs.
IsVoterSet(vs) ==
    /\ Len(vs.voters) \in Nat \ {0} /\ DOMAIN vs.voters = 1 .. Len(vs.voters)
    /\ \A i \in DOMAIN vs.voters : vs.voters[i].id \in Nat /\ vs.voters[i].weight \in Nat \ {0}
    /\ \A i, j \in DOMAIN vs.voters : i < j => vs.voters[i].id < vs.voters[j].id
    /\ vs.total_weight = WeightOfIds(vs, VoterIds(vs)) /\ vs.total_weight <= MaxWeight
    /\ vs.threshold = ThresholdOf(vs.total_weight)
=============================================================================
