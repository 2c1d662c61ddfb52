---------------------------- MODULE MCRoundSpec ----------------------------
(* RoundSpec for TLC: the base G has two children, and X below it is a target that does
   not descend from the base; voters of unequal weight. *)
EXTENDS RoundSpec, Forest, FiniteSetsExt

MCParent    == [X |-> "X", G |-> "X", b |-> "G", c |-> "G"]
MCBlock     == DOMAIN MCParent
MCAncestors == AncestorsOf(MCParent)
MCNumber    == NumberOf(MCParent, 0)
MCVoter     == {"alice", "bob", "eve"}
MCWeights   == [alice |-> 4, bob |-> 7, eve |-> 3]
MCWeight    == [S \in SUBSET MCVoter |-> MapThenSumSet(LAMBDA v : MCWeights[v], S)]
MCByzantine == {"eve"}
=============================================================================
