------------------------------ MODULE Commit ------------------------------
(***************************************************************************)
(* Commit messages and their validation (lib.rs).  A commit is a target    *)
(* and a sequence of signed precommits [id, ballot]; validating it imports *)
(* the precommits into a fresh round.                                      *)
(***************************************************************************)
EXTENDS Round

\* From<Commit> for CompactCommit: votes and authentication data in two lists.
CompactCommit(commit) ==
    [target     |-> commit.target,
     precommits |-> [i \in DOMAIN commit.precommits |-> commit.precommits[i].ballot.target],
     auth_data  |-> [i \in DOMAIN commit.precommits |->
                        [signature |-> commit.precommits[i].ballot.signature,
                         id        |-> commit.precommits[i].id]]]

\* From<CompactCommit> for Commit: zips the lists.
ExpandCommit(compact) ==
    [target     |-> compact.target,
     precommits |-> [i \in DOMAIN Zip(compact.precommits, compact.auth_data) |->
                        [id     |-> compact.auth_data[i].id,
                         ballot |-> [target    |-> compact.precommits[i],
                                     signature |-> compact.auth_data[i].signature]]]]

\* The outcome of validate_commit: a CommitValidationResult, or an error of the import.
NoVerdict(commit, known) ==
    [valid |-> FALSE, failed |-> FALSE,
     num_precommits            |-> Len(commit.precommits),
     num_invalid_voters        |-> Len(commit.precommits) - Len(known),
     num_duplicated_precommits |-> 0,
     num_equivocations         |-> 0]

\* One turn of the loop over the precommits: import it, count what it was; an import error
\* or a second equivocation of one voter ends the loop.
CountPrecommit(state, signed) ==
    IF state.stopped THEN {state}
    ELSE {LET again == signed.id \in state.equivocated
          IN  CASE imported.kind = "equivocation" ->
                      [state EXCEPT !.round = imported.round,
                                    !.equivocated = @ \union {signed.id},
                                    !.result.num_equivocations = @ + 1,
                                    !.stopped = again]
                [] imported.kind = "duplicated" ->
                      [state EXCEPT !.round = imported.round,
                                    !.result.num_duplicated_precommits = @ + 1]
                [] imported.kind = "refused" ->
                      [state EXCEPT !.result.failed = TRUE, !.stopped = TRUE]
                [] OTHER -> [state EXCEPT !.round = imported.round]
          : imported \in ImportPrecommit(state.round, signed.id, signed.ballot)}

\* Slip: the first target, whatever its number.
FirstTargetOf(known) == known[1].ballot.target

\* The base validate_commit gives its round: of the lowest targets, the first (min_by_key).
CommitBase(known) ==
    LET target(i) == known[i].ballot.target
        lowest == CHOOSE i \in DOMAIN known :
                      /\ \A j \in DOMAIN known : Number[target(i)] <= Number[target(j)]
                      /\ \A j \in 1 .. i - 1 : Number[target(j)] # Number[target(i)]
    IN  target(lowest)

\* validate_commit; the set of its possible results.
ValidateCommit(commit) ==
    LET known   == SelectSeq(commit.precommits, LAMBDA s : ContainsVoter(Voters, s.id))
        base    == CommitBase(known)
        verdict == NoVerdict(commit, known)
        start   == [round |-> NewRound(base), equivocated |-> {}, result |-> verdict,
                    stopped |-> FALSE]
        counted == FoldLeft(LAMBDA states, s : UNION {CountPrecommit(st, s) : st \in states},
                            {start}, known)
    IN  IF known = <<>> THEN {verdict}
        ELSE IF \E i \in DOMAIN known : ~IsEqualOrDescendentOf(base, known[i].ballot.target) THEN {verdict}
        ELSE UNION {IF st.stopped THEN {st.result}
                    ELSE {[st.result EXCEPT !.valid = (r.precommit_ghost = commit.target)] :
                             r \in CachePrecommitGhost(st.round)}
                    : st \in counted}
=============================================================================
