----------------------------- MODULE MCProtocol -----------------------------
(* Protocol for TLC: four voters of equal weight, one of them Byzantine, on a fork. *)
EXTENDS Protocol, Forest, FiniteSets, TLC

CONSTANTS v1, v2, v3, v4

MCParent    == [G |-> "G", a |-> "G", b |-> "a", d |-> "G"]
MCBlock     == DOMAIN MCParent
MCAncestors == AncestorsOf(MCParent)
MCNumber    == NumberOf(MCParent, 0)

MCVoter     == {v1, v2, v3, v4}
MCByzantine == {v4}
MCWeight    == [S \in SUBSET MCVoter |-> Cardinality(S)]

Voters == Permutations(MCVoter \ MCByzantine)
=============================================================================
