--------------------------- MODULE VoterWeights ---------------------------
(***************************************************************************)
(* A voter set (voter_set.rs) as what the protocol's arguments need of it: *)
(* the weight of every set of voters, the total weight and the threshold   *)
(* of a supermajority.  VoterSet.tla models how a voter set is built from  *)
(* a list of weights; there the weight of a set is the sum over its        *)
(* members, which is the additive measure assumed here.                    *)
(***************************************************************************)
EXTENDS Naturals, FiniteSets

CONSTANTS
    Voter,      \* the identities in the voter set
    Weight      \* Weight[S]: the total weight of the voters in S

ASSUME WeightAssumption ==
    /\ Weight \in [SUBSET Voter -> Nat]
    /\ Weight[{}] = 0
    /\ \A S, T \in SUBSET Voter :
           Weight[S \union T] + Weight[S \intersect T] = Weight[S] + Weight[T]
    /\ Weight[Voter] > 0

\* VoterSet::new counts the voters of a list.
ASSUME VotersAssumption == IsFiniteSet(Voter)

TotalWeight == Weight[Voter]

\* The weight of faulty voters the protocol tolerates: fewer than a third.
Faulty == (TotalWeight - 1) \div 3

\* VoterSet::threshold
Threshold == TotalWeight - Faulty
=============================================================================
