------------------------------ MODULE MCVoter ------------------------------
(* Voter for TLC: the chain G <- a <- b and a branch a <- d. *)
EXTENDS Voter, Forest

MCParent    == [G |-> "G", a |-> "G", b |-> "a", d |-> "a"]
MCBlock     == DOMAIN MCParent
MCAncestors == AncestorsOf(MCParent)
MCNumber    == NumberOf(MCParent, 0)

State(ghost, est, fin, done) ==
    [prevote_ghost |-> ghost, estimate |-> est, finalized |-> fin, completable |-> done]

\* One chain: in round 1 the estimate b moves back to a; in round 2 a and then b is
\* finalized, in round 3 b.
Chain ==
    [states  |-> << {Blank, State("b", "b", "G", TRUE), State("b", "a", "G", TRUE)},
                    {Blank, State("b", "b", "a", TRUE), State("b", "b", "b", TRUE)},
                    {Blank, State("b", "b", "b", TRUE)} >>,
     bases   |-> << {"G"}, {"G"}, {"G"} >>,
     commits |-> << {}, {"a"}, {"b"} >>]

\* Two branches: in round 1 the estimate d moves back to a, and round 2 goes on to b, which
\* is finalized there or in round 3.
Branch ==
    [states  |-> << {Blank, State("d", "d", "a", TRUE), State("d", "a", "a", TRUE)},
                    {Blank, State("b", "b", None, FALSE), State("b", "b", "a", TRUE)},
                    {Blank, State("b", "b", "b", TRUE)} >>,
     bases   |-> << {"G"}, {"G", "a"}, {"a"} >>,
     commits |-> << {"a"}, {"b"}, {"b"} >>]

MCWorlds    == {Chain, Branch}
ChainWorlds == {Chain}
=============================================================================
