---------------------------- MODULE MCVoteGraph ----------------------------
(* VoteGraph for TLC: r <- a <- b <- c <- d, with e on c, f on b and g on r; the graph starts
   at a, so that its base can move down to r, and g is refused until then. *)
EXTENDS VoteGraphSpec, Forest

MCParent    == [r |-> "r", a |-> "r", b |-> "a", c |-> "b", d |-> "c", e |-> "c", f |-> "b", g |-> "r"]
MCBlock     == DOMAIN MCParent
MCAncestors == AncestorsOf(MCParent)
MCNumber    == NumberOf(MCParent, 1)
MCSymmetry  == Permutations(Vote)
=============================================================================
