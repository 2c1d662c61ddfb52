------------------------------ MODULE MCRound ------------------------------
(* Rounds and what is made of their votes, for TLC, with the voters of the tests of
   round.rs: alice (1) weighs 4, bob (2) weighs 7 and eve (3) weighs 3, of a threshold of 10.
   Blocks G <- a <- {b, c} and X, which does not descend from the base G.  Eve may
   equivocate; mallory (9) has no vote. *)
EXTENDS CommitExchange, RoundTransfer

MCBlock     == {"X", "G", "a", "b", "c"}
MCAncestors == [X |-> {"X"}, G |-> {"X", "G"}, a |-> {"X", "G", "a"}, 
                b |-> {"X", "G", "a", "b"}, c |-> {"X", "G", "a", "c"}]
MCNumber    == [X |-> 0, G |-> 1, a |-> 2, b |-> 3, c |-> 3]
MCVoters    == [voters |-> <<[id |-> 1, weight |-> 4], [id |-> 2, weight |-> 7], [id |-> 3, weight |-> 3]>>,
                total_weight |-> 14, threshold |-> 10]

\* What VoterSet::new makes of the list in the tests.
ASSUME MCVotersAssumption ==
    MCVoters = NewVoterSet(<<[id |-> 2, weight |-> 7], [id |-> 1, weight |-> 4], [id |-> 3, weight |-> 3]>>)

On(targets, signatures) == [target : targets, signature : signatures]

\* Honest votes from the base to both forks; eve's on both forks, or on one and refused.
MCForks   == (1 :> On({"G", "b"}, {"s"})) @@ (2 :> On({"a", "b", "c"}, {"s"}))
             @@ (3 :> On({"b", "c"}, {"s"}))
MCRefused == (1 :> On({"G", "b"}, {"s"})) @@ (2 :> On({"a", "c"}, {"s"}))
             @@ (3 :> On({"b", "X"}, {"s"}))

\* For the history, in which the order of the votes is told apart: eve only, who also signs
\* the same vote twice with different signatures.
MCFewBallots == (1 :> {}) @@ (2 :> {})
                @@ (3 :> On({"b", "X"}, {"s"}) \union On({"b"}, {"t"})) @@ (9 :> On({"G"}, {"s"}))

MCElectorates == {MCForks, MCRefused, MCFewBallots}

\* With the ballots of all voters, states that differ in the order in which votes were seen,
\* which nothing in the round reads, are one.
MCView ==
    <<electorate,
      IF electorate = MCFewBallots THEN round ELSE [round EXCEPT !.historical_votes = None]>>
=============================================================================
