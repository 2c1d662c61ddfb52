----------------------------- MODULE PartProofs -----------------------------
(***************************************************************************)
(* What the parts of a round promise, in use.  A vote graph stays the      *)
(* forest of its nodes and answers every search rightly, whatever is       *)
(* inserted, searched and moved.  VoterSet::new counts every list of       *)
(* weights right, and its threshold is tight, for lists of any length and  *)
(* weights of any width.  Bitfields weigh every voter once, however they   *)
(* have grown and been merged.                                             *)
(***************************************************************************)
EXTENDS VoteGraphSpec, ContextSpec, PartLemmas

-----------------------------------------------------------------------------
(* A graph in use *)

\* Nothing is a node but the first base, the bases since, and the targets of votes.
NodesCounted(g, c) ==
    /\ Genesis \in DOMAIN g.entries
    /\ \A h \in DOMAIN g.entries : h \in Ancestors[Genesis] \/ VotesAt(c, h) # {}

\* The inductive invariant: the graph is the forest of its nodes, which have the votes cast.
GraphInv ==
    /\ cast \in [Vote -> OptionBlock]
    /\ IsGraph(graph) /\ RecordsFit(graph) /\ VotesFit(graph, cast) /\ NodesCounted(graph, cast)

\* A new graph is its base.
LEMMA GraphStarts == GraphInit => GraphInv
<1> SUFFICES ASSUME GraphInit PROVE GraphInv
  OBVIOUS
<1>1. Genesis \in Block /\ Genesis \in Ancestors[Genesis]
  BY VoteGraphAssumption, ChainFacts
<1>2. cast \in [DOMAIN cast -> {None}] /\ cast \in [Vote -> OptionBlock] /\ graph = NewGraph(Genesis)
  BY DEF GraphInit, OptionBlock
<1>3. IsVoteGraph(graph, cast) /\ DOMAIN graph.entries = {Genesis}
  BY <1>1, <1>2, NewGraphFits
<1> QED  BY <1>1, <1>2, <1>3 DEF GraphInv, IsVoteGraph, NodesCounted

\* A vote inserted is counted, one refused changes nothing.
LEMMA InsertKeeps ==
    ASSUME GraphInv, NEW v \in Vote, NEW b \in Block, InsertVote(v, b)
    PROVE  GraphInv'
<1>1. CASE ~CanInsert(graph, b)
  BY <1>1 DEF InsertVote, GraphInv, NodesCounted, VotesFit, VotesAt, IsGraph, NodesFit, EdgesFit, HeadsFit, RecordsFit
<1>2. CASE CanInsert(graph, b)
  <2> DEFINE n == Insert(graph, b, v)
             d == [cast EXCEPT ![v] = b]
  <2>1. graph' = n /\ cast' = d /\ cast[v] = None /\ DOMAIN cast = Vote
    BY <1>2 DEF InsertVote, GraphInv
  <2>2. /\ IsGraph(n) /\ RecordsFit(n) /\ VotesFit(n, d)
        /\ DOMAIN n.entries = DOMAIN graph.entries \union {b} /\ n.base = graph.base
    <3>1. /\ IsGraph(graph) /\ RecordsFit(graph) /\ VotesFit(graph, cast)
          /\ cast \in [DOMAIN cast -> OptionBlock] /\ v \in DOMAIN cast
      BY <2>1 DEF GraphInv
    <3>2. cast[v] = None /\ CanInsert(graph, b)
      BY <1>2, <2>1
    <3> HIDE DEF GraphInv
    <3>3. LET m == Insert(graph, b, v)
          IN  /\ IsGraph(m) /\ RecordsFit(m) /\ VotesFit(m, [cast EXCEPT ![v] = b])
              /\ DOMAIN m.entries = DOMAIN graph.entries \union {b} /\ m.base = graph.base
      BY <3>1, <3>2, InsertFits
    <3> QED  BY <3>3
  <2>3. d \in [Vote -> OptionBlock] /\ b # None /\ d[v] = b /\ \A w \in Vote : w # v => d[w] = cast[w]
    BY BlockTreeAssumption DEF GraphInv, OptionBlock
  <2> HIDE DEF n, d
  <2>4. b \in Ancestors[b]
    BY ChainFacts
  <2>5. \A h \in Block : VotesAt(cast, h) \subseteq VotesAt(d, h)
    BY <2>1, <2>3 DEF VotesAt
  <2>6. v \in VotesAt(d, b)
    BY <2>3, <2>4 DEF VotesAt
  <2>7. NodesCounted(n, d)
    <3>1. DOMAIN graph.entries \subseteq Block
      BY DEF GraphInv, IsGraph, NodesFit
    <3> QED  BY <2>2, <2>5, <2>6, <3>1 DEF GraphInv, NodesCounted
  <2> QED  BY <2>1, <2>2, <2>3, <2>7 DEF GraphInv
<1> QED  BY <1>1, <1>2

\* A new base keeps the votes and the nodes.
LEMMA MoveKeeps ==
    ASSUME GraphInv, NEW proof \in BaseProofs(graph.base), MoveBase(proof)
    PROVE  GraphInv'
<1> DEFINE n == AdjustBase(graph, proof)
<1>1. graph' = n /\ cast' = cast
  BY DEF MoveBase
<1>2. /\ IsGraph(n) /\ RecordsFit(n) /\ VotesFit(n, cast)
      /\ DOMAIN n.entries = DOMAIN graph.entries \union {n.base}
      /\ n.base \in Ancestors[graph.base]
  BY AdjustFits DEF GraphInv, BaseProofs, IsBaseProof
<1> HIDE DEF n
<1>3. NodesCounted(n, cast)
  <2>1. Genesis \in DOMAIN graph.entries /\ graph.base \in Ancestors[Genesis] /\ Genesis \in Block /\ graph.base \in Block
    BY DEF GraphInv, NodesCounted, IsGraph, NodesFit
  <2>2. n.base \in Ancestors[Genesis]
    BY <1>2, <2>1, ChainFacts
  <2> QED  BY <1>2, <2>1, <2>2 DEF GraphInv, NodesCounted
<1> QED  BY <1>1, <1>2, <1>3 DEF GraphInv

\* vote_graph.rs keeps its graph the forest of its nodes, with the votes cast, through every
\* insert, search and change of base.
THEOREM GraphInvariant == GraphSpec => []GraphInv
<1>1. ASSUME GraphInv, [GraphNext]_graphVars PROVE GraphInv'
  <2>1. CASE UNCHANGED <<graph, cast>>
    BY <1>1, <2>1 DEF GraphInv, NodesCounted, VotesFit, VotesAt, IsGraph, NodesFit, EdgesFit, HeadsFit, RecordsFit
  <2>2. ASSUME NEW v \in Vote, NEW b \in Block, InsertVote(v, b) PROVE GraphInv'
    BY <1>1, <2>2, InsertKeeps
  <2>3. CASE MemoiseGhost
    BY <2>1, <2>3 DEF MemoiseGhost
  <2>4. ASSUME NEW proof \in BaseProofs(graph.base), MoveBase(proof) PROVE GraphInv'
    BY <1>1, <2>4, MoveKeeps
  <2>5. CASE UNCHANGED graphVars
    BY <2>1, <2>5 DEF graphVars
  <2> QED  BY <1>1, <2>2, <2>3, <2>4, <2>5 DEF GraphNext
<1> QED  BY <1>1, GraphStarts, PTL DEF GraphSpec

\* The graph has the shape that the panics and expects of vote_graph.rs rely on.
THEOREM ShapeStays == GraphSpec => []GraphShape
<1>1. GraphInv => GraphShape
  <2> SUFFICES ASSUME GraphInv PROVE GraphShape
    OBVIOUS
  <2> DEFINE known == DOMAIN graph.entries
             edge(h) == graph.entries[h].ancestors
  <2>1. IsGraph(graph) /\ known \subseteq Block /\ graph.base \in known /\ None \notin Block
    BY BlockTreeAssumption DEF GraphInv, IsGraph, NodesFit
  <2>2. edge(graph.base) = <<>> /\ DOMAIN edge(graph.base) = {}
    BY <2>1 DEF IsGraph, EdgesFit
  <2>3. ASSUME NEW h \in known, h # graph.base
        PROVE  /\ edge(h) # <<>>
               /\ \A i \in DOMAIN edge(h) : edge(h)[i] = AncestorAt(h, Number[h] - i)
               /\ \A i \in DOMAIN edge(h) : (edge(h)[i] \in known) = (i = Len(edge(h)))
    <3> DEFINE p == AncestorNode(graph, h)
    <3>1. /\ p \in known /\ HighestBelow(known, h, p) /\ edge(h) = Edge(h, p) /\ p \in Ancestors[h] /\ p # h
          /\ h \in Block
      BY <2>1, <2>3, EdgeFacts DEF HighestBelow
    <3> HIDE DEF p
    <3>2. /\ Number[h] \in Nat /\ Number[p] \in Nat /\ Number[p] < Number[h] /\ p \in Block
          /\ Edge(h, p) \in Seq(Block) /\ Len(Edge(h, p)) = Number[h] - Number[p]
          /\ \A i \in 1 .. (Number[h] - Number[p]) :
                 Edge(h, p)[i] = AncestorAt(h, Number[h] - i) /\ Edge(h, p)[i] \in Block
      BY <3>1, EdgeIsSeq
    <3>3. DOMAIN Edge(h, p) = 1 .. (Number[h] - Number[p]) /\ Edge(h, p) # <<>>
      BY <3>2
    <3>4. ASSUME NEW i \in 1 .. (Number[h] - Number[p])
          PROVE  (Edge(h, p)[i] \in known) = (i = Number[h] - Number[p])
      <4>1. Number[h] - i \in Number[p] .. Number[h] /\ Number[h] - i < Number[h]
        BY <3>2
      <4> DEFINE x == AncestorAt(h, Number[h] - i)
      <4>2. x \in Ancestors[h] /\ Number[x] = Number[h] - i /\ x = Edge(h, p)[i] /\ x # h
        BY <3>1, <3>2, <4>1, AncestorAtFacts
      <4> HIDE DEF x
      <4>3. ASSUME x \in known PROVE i = Number[h] - Number[p]
        <5>1. x \in Ancestors[p]
          BY <3>1, <4>2, <4>3 DEF HighestBelow
        <5>2. Number[x] <= Number[p]
          BY <2>1, <3>2, <4>3, <5>1, ChainFacts
        <5> QED  BY <3>2, <4>2, <5>2
      <4>4. ASSUME i = Number[h] - Number[p] PROVE x \in known
        <5>1. Number[x] = Number[p]
          BY <3>2, <4>2, <4>4
        <5>2. x = p
          BY <3>1, <4>2, <5>1, ChainFacts
        <5> QED  BY <3>1, <5>2
      <4> QED  BY <4>2, <4>3, <4>4
    <3> QED  BY <3>1, <3>2, <3>3, <3>4
  <2>4. ASSUME NEW h \in known
        PROVE  graph.entries[h].descendents = {d \in known : d # graph.base /\ AncestorNode(graph, d) = h}
    <3>1. graph.entries[h].descendents = {d \in known : HighestBelow(known, d, h)}
      BY <2>1 DEF IsGraph, EdgesFit
    <3>2. ASSUME NEW d \in known PROVE HighestBelow(known, d, h) <=> d # graph.base /\ AncestorNode(graph, d) = h
      <4>1. ~HighestBelow(known, graph.base, h)
        <5>1. graph.base \in Ancestors[h] /\ h \in Block /\ graph.base \in Block
          BY <2>1 DEF IsGraph, NodesFit
        <5> QED  BY <5>1, ChainFacts DEF HighestBelow
      <4>2. d # graph.base => HighestBelow(known, d, AncestorNode(graph, d))
        BY <2>1, EdgeFacts
      <4> QED  BY <2>1, <4>1, <4>2, OneHighest
    <3> QED  BY <3>1, <3>2
  <2>5. graph.heads = {h \in known : graph.entries[h].descendents = {}}
    <3>1. graph.heads = {h \in known : \A d \in known : h \in Ancestors[d] => d = h}
      BY <2>1 DEF IsGraph, HeadsFit
    <3>2. ASSUME NEW h \in known, \A d \in known : h \in Ancestors[d] => d = h
          PROVE  graph.entries[h].descendents = {}
      <4>1. graph.entries[h].descendents = {d \in known : HighestBelow(known, d, h)}
        BY <2>1 DEF IsGraph, EdgesFit
      <4> QED  BY <3>2, <4>1 DEF HighestBelow
    <3>3. ASSUME NEW h \in known, NEW d \in known, h \in Ancestors[d], d # h
          PROVE  graph.entries[h].descendents # {}
      <4> DEFINE above == {x \in known : h \in Ancestors[x] /\ x # h}
                 numbers == {Number[x] : x \in above}
      <4>1. d \in above /\ numbers \in SUBSET Nat
        BY <2>1, <3>3, ChainFacts
      <4>2. PICK x \in above : \A m \in numbers : Number[x] <= m
        BY <4>1, SmallestNumber
      <4>3. x \in known /\ h \in Ancestors[x] /\ x # h /\ x \in Block /\ h \in Block
        BY <2>1
      <4>4. ASSUME NEW y \in known, y \in Ancestors[x], y # x PROVE y \in Ancestors[h]
        <5>1. Number[y] < Number[x] /\ Number[y] \in Nat /\ Number[x] \in Nat
          BY <2>1, <4>3, <4>4, ChainFacts
        <5>2. y \notin above
          BY <4>2, <5>1
        <5> QED  BY <2>1, <4>3, <4>4, <5>2, ChainFacts
      <4>5. HighestBelow(known, x, h)
        BY <4>3, <4>4 DEF HighestBelow
      <4> QED  BY <2>1, <4>3, <4>5 DEF IsGraph, EdgesFit
    <3> QED  BY <3>1, <3>2, <3>3
  <2> HIDE DEF edge
  <2>6. \A h \in known :
            /\ (h = graph.base) = (edge(h) = <<>>)
            /\ \A i \in DOMAIN edge(h) : edge(h)[i] = AncestorAt(h, Number[h] - i)
            /\ \A i \in DOMAIN edge(h) : (edge(h)[i] \in known) = (i = Len(edge(h)))
    BY <2>2, <2>3
  <2> QED  BY <2>4, <2>5, <2>6 DEF GraphShape, edge
<1> QED  BY <1>1, GraphInvariant, PTL

\* The blocks and the votes of the properties are those of the graph.
LEMMA SameGraph ==
    ASSUME GraphInv
    PROVE  /\ IsVoteGraph(graph, cast) /\ DOMAIN cast = Vote /\ GraphBlocks = Blocks(graph)
           /\ \A b : CastOn(b) = VotesAt(cast, b)
<1>1. IsVoteGraph(graph, cast) /\ DOMAIN cast = Vote
  BY DEF GraphInv, IsVoteGraph
<1>2. \A b : CastOn(b) = VotesAt(cast, b)
  BY <1>1 DEF CastOn, VotesAt
<1>3. Genesis \in DOMAIN graph.entries /\ \A h \in DOMAIN graph.entries : h \in Block
  BY <1>1, GraphFacts DEF GraphInv, NodesCounted
<1>4. ASSUME NEW b \in GraphBlocks PROVE b \in Blocks(graph)
  <2>1. CASE b \in Ancestors[Genesis]
    BY <1>3, <2>1 DEF GraphBlocks, Blocks
  <2>2. CASE CastOn(b) # {}
    <3>1. PICK v \in Vote : cast[v] # None /\ b \in Ancestors[cast[v]]
      BY <2>2 DEF CastOn
    <3>2. cast[v] \in DOMAIN graph.entries
      BY <1>1, <3>1, GraphFacts
    <3> QED  BY <3>1, <3>2 DEF GraphBlocks, Blocks
  <2> QED  BY <2>1, <2>2 DEF GraphBlocks
<1>5. ASSUME NEW b \in Blocks(graph) PROVE b \in GraphBlocks
  <2>1. PICK h \in DOMAIN graph.entries : b \in Ancestors[h]
    BY DEF Blocks
  <2>2. b \in Block /\ graph.base \in Ancestors[b] /\ h \in Block
    BY <1>3 DEF Blocks
  <2>3. CASE h \in Ancestors[Genesis]
    <3>1. Genesis \in Block
      BY <1>3
    <3> QED  BY <2>1, <2>2, <2>3, <3>1, ChainFacts DEF GraphBlocks
  <2>4. CASE VotesAt(cast, h) # {}
    <3>1. VotesAt(cast, b) # {}
      BY <1>1, <2>1, <2>2, <2>4, GraphFacts
    <3> QED  BY <1>2, <2>2, <3>1 DEF GraphBlocks
  <2> QED  BY <2>3, <2>4 DEF GraphInv, NodesCounted
<1> QED  BY <1>1, <1>2, <1>4, <1>5

\* cumulative_vote counts exactly the votes cast at and above a block.
THEOREM VotesStayExact == GraphSpec => []VotesExact
<1>1. GraphInv => VotesExact
  <2> SUFFICES ASSUME GraphInv, NEW b \in Block, graph.base \in Ancestors[b]
               PROVE  CumulativeVote(graph, b) = CastOn(b)
    BY DEF VotesExact
  <2>1. CastOn(b) = VotesAt(cast, b)
    BY SameGraph
  <2> QED  BY <2>1, CumulativeIsExact DEF GraphInv
<1> QED  BY <1>1, GraphInvariant, PTL

\* find_ancestor finds the highest block at or below the head that satisfies the condition.
THEOREM SearchStaysExact == GraphSpec => []AncestorSearchExact
<1>1. GraphInv => AncestorSearchExact
  <2> SUFFICES ASSUME GraphInv, NEW head \in Block
               PROVE  LET candidates == {b \in GraphBlocks \intersect Ancestors[head] : HasThreshold[CastOn(b)]}
                          found      == FindAncestor(graph, head, HasThreshold)
                      IN  IF head \notin GraphBlocks \/ candidates = {}
                          THEN found = None
                          ELSE found \in candidates /\ \A b \in candidates : Number[b] <= Number[found]
    BY DEF AncestorSearchExact
  <2> DEFINE S == Satisfying(graph, cast, head, HasThreshold)
  <2>1. S = {b \in GraphBlocks \intersect Ancestors[head] : HasThreshold[CastOn(b)]}
    BY SameGraph DEF Satisfying
  <2>2. FindAncestor(graph, head, HasThreshold) = HighestSatisfying(graph, cast, head, HasThreshold)
    BY SameGraph, SearchExact
  <2>3. S # {} => \E x \in S : \A y \in S : Number[y] <= Number[x]
    <3>1. S \in SUBSET Ancestors[head]
      BY <2>1
    <3> QED  BY <3>1, HighestExists
  <2>4. IF head \notin GraphBlocks \/ S = {}
        THEN HighestSatisfying(graph, cast, head, HasThreshold) = None
        ELSE /\ HighestSatisfying(graph, cast, head, HasThreshold) \in S
             /\ \A b \in S : Number[b] <= Number[HighestSatisfying(graph, cast, head, HasThreshold)]
    <3> HIDE DEF S
    <3> QED  BY <2>3, SameGraph DEF HighestSatisfying, S
  <2> QED  BY <2>1, <2>2, <2>4
<1> QED  BY <1>1, GraphInvariant, PTL

-----------------------------------------------------------------------------
(* The answers of the searches *)

\* Counting to a threshold.
AtLeast(k) == [vs \in SUBSET Vote |-> Cardinality(vs) >= k]

LEMMA CountingIsMonotone ==
    ASSUME DOMAIN cast = Vote, NEW k \in Int
    PROVE  Monotone(cast, AtLeast(k))
<1> SUFFICES ASSUME NEW vs \in SUBSET Vote, NEW ws \in SUBSET Vote, vs \subseteq ws, Cardinality(vs) >= k
             PROVE  Cardinality(ws) >= k
  BY DEF Monotone, AtLeast
<1>1. IsFiniteSet(ws)
  BY QuorumAssumption, FS_Subset
<1>2. Cardinality(vs) <= Cardinality(ws) /\ Cardinality(vs) \in Nat /\ Cardinality(ws) \in Nat
  BY <1>1, FS_Subset, FS_CardinalityType
<1> QED  BY <1>2

\* Two blocks with the threshold of votes each are on one chain: they share a vote.
LEMMA CandidatesOnOneChain ==
    ASSUME GraphInv, NEW b \in Block, NEW c \in Block, HasThreshold[CastOn(b)], HasThreshold[CastOn(c)]
    PROVE  b \in Ancestors[c] \/ c \in Ancestors[b]
<1>1. CastOn(b) \in SUBSET Vote /\ CastOn(c) \in SUBSET Vote
  BY DEF CastOn
<1>2. PICK v \in Vote : v \in CastOn(b) /\ v \in CastOn(c)
  BY <1>1, QuorumAssumption DEF HasThreshold
<1>3. cast[v] \in Block /\ b \in Ancestors[cast[v]] /\ c \in Ancestors[cast[v]]
  BY <1>2, GraphFacts, SameGraph DEF CastOn
<1> QED  BY <1>3, ChainFacts

\* The memoised answer: still a block of the graph with the threshold of votes.
BestFits == best # None => best \in GraphBlocks /\ HasThreshold[CastOn(best)]

LEMMA HasThresholdIsMonotone ==
    ASSUME GraphInv
    PROVE  Monotone(cast, HasThreshold)
<1>1. HasThreshold = AtLeast(Threshold)
  BY DEF HasThreshold, AtLeast
<1>2. Threshold \in Int
  BY VoteGraphAssumption
<1> QED  BY <1>1, <1>2, CountingIsMonotone, SameGraph

LEMMA BestStays ==
    ASSUME GraphInv, BestFits, GraphNext \/ UNCHANGED graphVars
    PROVE  BestFits'
<1>1. SUFFICES ASSUME best' # None
               PROVE  best' \in GraphBlocks' /\ HasThreshold'[CastOn(best)']
  BY DEF BestFits
<1>2. HasThreshold' = HasThreshold
  BY DEF HasThreshold
<1>3. CASE \E v \in Vote, b \in Block : InsertVote(v, b)
  <2>1. PICK v \in Vote, b \in Block : InsertVote(v, b)
    BY <1>3
  <2>2. best' = best /\ best \in GraphBlocks /\ HasThreshold[CastOn(best)] /\ best \in Block
    BY <1>1, <2>1 DEF InsertVote, BestFits, GraphBlocks
  <2>3. graph'.base = graph.base /\ \A w \in Vote : cast[w] # None => cast'[w] = cast[w]
    <3>1. CASE CanInsert(graph, b)
      <4>1. graph' = Insert(graph, b, v) /\ cast' = [cast EXCEPT ![v] = b] /\ cast[v] = None
        BY <2>1, <3>1 DEF InsertVote
      <4>2. graph'.base = graph.base
        BY <3>1, <4>1, InsertFits DEF GraphInv
      <4>3. cast \in [Vote -> OptionBlock]
        BY DEF GraphInv
      <4> QED  BY <4>1, <4>2, <4>3
    <3>2. CASE ~CanInsert(graph, b)
      BY <2>1, <3>2 DEF InsertVote
    <3> QED  BY <3>1, <3>2
  <2>4. \A x \in Block : CastOn(x) \subseteq CastOn(x)'
    BY <2>3 DEF CastOn
  <2>5. best' \in GraphBlocks'
    BY <2>2, <2>3, <2>4 DEF GraphBlocks
  <2>6. CastOn(best) \in SUBSET Vote /\ CastOn(best)' \in SUBSET Vote
    BY DEF CastOn
  <2>7. CastOn(best) \subseteq CastOn(best)'
    BY <2>2, <2>3 DEF CastOn
  <2> QED  BY <1>2, <2>2, <2>5, <2>6, <2>7, HasThresholdIsMonotone, SameGraph DEF Monotone
<1>4. CASE MemoiseGhost
  <2>1. best' \in FindGhosts(graph, best, HasThreshold) /\ UNCHANGED <<graph, cast>>
    BY <1>4 DEF MemoiseGhost
  <2>2. best \in GraphBlocks \union {None} /\ (best # None => HasThreshold[CastOn(best)])
    BY DEF BestFits
  <2>3. HasThreshold[CastOn(SearchFrom(graph, best))]
    BY <1>1, <2>1, <2>2, SearchFinds, SameGraph, HasThresholdIsMonotone DEF SearchFrom
  <2>4. GhostOf(graph, cast, SearchFrom(graph, best), HasThreshold, best')
    BY <2>1, <2>2, <2>3, SearchFinds, SameGraph, HasThresholdIsMonotone
  <2>5. best' \in GraphBlocks /\ HasThreshold[VotesAt(cast, best')]
    BY <2>4, SameGraph DEF GhostOf
  <2>6. GraphBlocks' = GraphBlocks
    BY <2>1 DEF GraphBlocks, CastOn
  <2>7. CastOn(best)' = VotesAt(cast, best')
    BY <2>1, SameGraph DEF CastOn, VotesAt
  <2> QED  BY <1>2, <2>5, <2>6, <2>7
<1>5. CASE \E proof \in BaseProofs(graph.base) : MoveBase(proof)
  <2>1. PICK proof \in BaseProofs(graph.base) : graph' = AdjustBase(graph, proof) /\ UNCHANGED <<best, cast>>
    BY <1>5 DEF MoveBase
  <2>2. graph'.base \in Ancestors[graph.base]
    BY <2>1, AdjustFits DEF GraphInv, BaseProofs, IsBaseProof
  <2>3. best \in GraphBlocks /\ HasThreshold[CastOn(best)]
    BY <1>1, <2>1 DEF BestFits
  <2>4. CastOn(best)' = CastOn(best)
    BY <2>1 DEF CastOn
  <2>5. graph'.base \in Ancestors[best]
    BY <2>2, <2>3, GraphFacts, SameGraph, ChainFacts DEF GraphBlocks
  <2>6. best' \in GraphBlocks'
    BY <2>1, <2>3, <2>4, <2>5 DEF GraphBlocks
  <2> QED  BY <1>2, <2>3, <2>4, <2>6
<1>6. CASE UNCHANGED graphVars
  BY <1>1, <1>6 DEF graphVars, BestFits, GraphBlocks, CastOn, HasThreshold
<1> QED  BY <1>3, <1>4, <1>5, <1>6 DEF GraphNext

\* The memoised answer of find_ghost is never wrong, only possibly old: inserting votes and
\* moving the base keep it a block of the graph with a threshold of votes.
THEOREM BestStaysFit == GraphSpec => []BestFits
<1>1. GraphInit => BestFits
  BY DEF GraphInit, BestFits
<1>2. GraphInv /\ BestFits /\ [GraphNext]_graphVars => BestFits'
  BY BestStays
<1> QED  BY <1>1, <1>2, GraphInvariant, PTL DEF GraphSpec

\* A search from the memoised answer finds what the votes define.
LEMMA MemoSearch ==
    ASSUME GraphInv, BestFits
    PROVE  GhostFromMemoExact
<1> DEFINE candidates == {b \in GraphBlocks : HasThreshold[CastOn(b)]}
           found == FindGhosts(graph, best, HasThreshold)
           highest == {b \in candidates : \A c \in candidates : c \in Ancestors[b]}
<1>1. best \in GraphBlocks \union {None} /\ Monotone(cast, HasThreshold) /\ GraphBlocks \subseteq Block
  BY HasThresholdIsMonotone DEF BestFits, GraphBlocks
<1>2. graph.base \in GraphBlocks
  BY GraphFacts, SameGraph, BlocksOfGraph, SameGraph DEF IsNode
<1>3. CASE candidates = {}
  <2>1. best = None /\ ~HasThreshold[CastOn(graph.base)]
    BY <1>2, <1>3 DEF BestFits
  <2>2. found = {None}
    BY <1>1, <2>1, SearchFinds, SameGraph
  <2> QED  BY <1>3, <2>2 DEF GhostFromMemoExact
<1>4. CASE candidates # {}
  <2>1. PICK c \in candidates : TRUE
    BY <1>4
  <2>2. HasThreshold[CastOn(graph.base)]
    <3>1. graph.base \in Ancestors[c] /\ c \in Block
      BY <2>1 DEF GraphBlocks
    <3>2. CastOn(c) \subseteq CastOn(graph.base) /\ CastOn(c) \in SUBSET Vote /\ CastOn(graph.base) \in SUBSET Vote
      BY <3>1, GraphFacts, SameGraph DEF CastOn
    <3> QED  BY <1>1, <2>1, <3>2, SameGraph DEF Monotone
  <2>3. HasThreshold[CastOn(SearchFrom(graph, best))]
    BY <2>2 DEF SearchFrom, BestFits
  <2>4. found # {} /\ \A x \in found : GhostOf(graph, cast, SearchFrom(graph, best), HasThreshold, x)
    BY <1>1, <2>3, SearchFinds, SameGraph
  <2>5. ASSUME NEW x \in found PROVE x \in highest
    <3>1. x \in candidates /\ \A y \in candidates : x \in Ancestors[y] => y = x
      BY <2>4, SameGraph DEF GhostOf
    <3>2. ASSUME NEW y \in candidates PROVE y \in Ancestors[x]
      <4>1. y \in Ancestors[x] \/ x \in Ancestors[y]
        BY <1>1, <3>1, CandidatesOnOneChain
      <4> QED  BY <1>1, <3>1, <4>1, ChainFacts
    <3> QED  BY <3>1, <3>2
  <2>6. ASSUME NEW y \in highest PROVE y \in found
    <3>1. PICK x \in found : TRUE
      BY <2>4
    <3>2. x \in highest
      BY <2>5, <3>1
    <3>3. x \in Ancestors[y] /\ y \in Ancestors[x] /\ x \in Block /\ y \in Block
      BY <1>1, <3>2
    <3>4. x = y
      BY <3>3, ChainFacts
    <3> QED  BY <3>1, <3>4
  <2>7. found = highest
    BY <2>5, <2>6
  <2> QED  BY <1>4, <2>7 DEF GhostFromMemoExact
<1> QED  BY <1>3, <1>4

\* find_ghost, from a memoised answer however old, finds the one highest block with the
\* threshold of votes: the round's prevote-GHOST.
THEOREM MemoStaysExact == GraphSpec => []GhostFromMemoExact
  BY GraphInvariant, BestStaysFit, MemoSearch, PTL

\* A search under a condition that can hold on several forks never answers with a block that
\* does not satisfy it, is not above its start or could be extended.
LEMMA AnyStartSearch ==
    ASSUME GraphInv
    PROVE  GhostFromAnyStart
<1> DEFINE holds == AtLeast(Threshold - 1)
<1>1. Threshold - 1 \in Int
  BY VoteGraphAssumption
<1>2. Monotone(cast, holds)
  BY <1>1, CountingIsMonotone, SameGraph
<1> HIDE DEF holds
<1>3. ASSUME NEW b \in GraphBlocks, holds[CastOn(b)], NEW x \in FindGhosts(graph, b, holds)
      PROVE  GhostOf(graph, cast, b, holds, x)
  <2>1. SearchFrom(graph, b) = b
    BY BlockTreeAssumption DEF SearchFrom, GraphBlocks
  <2> QED  BY <1>2, <1>3, <2>1, SearchFinds, SameGraph
<1>4. \A b \in GraphBlocks : holds[CastOn(b)] =>
          \A x \in FindGhosts(graph, b, holds) :
              /\ x \in GraphBlocks /\ b \in Ancestors[x] /\ holds[CastOn(x)]
              /\ \A y \in GraphBlocks : x \in Ancestors[y] /\ holds[CastOn(y)] => y = x
  BY <1>3, SameGraph DEF GhostOf
<1> QED  BY <1>4 DEF GhostFromAnyStart, holds, AtLeast

\* find_ghost of the completability search is sound from every start.
THEOREM AnyStartStaysExact == GraphSpec => []GhostFromAnyStart
  BY GraphInvariant, AnyStartSearch, PTL

-----------------------------------------------------------------------------
(* The loop of VoterSet::new *)

IsList(weights) == \E n \in Nat : weights \in [1 .. n -> Entry]

\* What the entries give, in all and to one id.
Given(weights) == [i \in DOMAIN weights |-> weights[i].weight]
GivenTo(weights, id) == [i \in DOMAIN weights |-> IF weights[i].id = id THEN weights[i].weight ELSE 0]

\* The ids that get something from the entries in s.
IdsIn(weights, s) == {weights[i].id : i \in {j \in s : weights[j].weight # 0}}

\* What the loop has counted after the entries in s.
Counted(weights, s) ==
    IF Sum(Given(weights), s) > MaxWeight THEN NoSet
    ELSE [total  |-> Sum(Given(weights), s),
          weight |-> [id \in IdsIn(weights, s) |-> Sum(GivenTo(weights, id), s)]]

LEMMA ListFacts ==
    ASSUME NEW weights, IsList(weights)
    PROVE  /\ IsFiniteSet(DOMAIN weights) /\ DOMAIN weights \subseteq Nat
           /\ \A i \in DOMAIN weights : /\ weights[i] \in Entry /\ weights[i].id \in Id
                                        /\ weights[i].id \in Nat /\ weights[i].weight \in Nat
           /\ \E n \in Nat : DOMAIN weights = 1 .. n
           /\ \A s \in SUBSET DOMAIN weights : IsWeights(Given(weights), s)
           /\ \A s \in SUBSET DOMAIN weights : \A id : IsWeights(GivenTo(weights, id), s)
<1>1. PICK n \in Nat : weights \in [1 .. n -> Entry]
  BY DEF IsList
<1>2. IsFiniteSet(DOMAIN weights) /\ DOMAIN weights \subseteq Nat /\ DOMAIN weights = 1 .. n
  BY <1>1, FS_Interval
<1>3. \A i \in DOMAIN weights : /\ weights[i] \in Entry /\ weights[i].id \in Id
                                /\ weights[i].id \in Nat /\ weights[i].weight \in Nat
  BY <1>1, ListAssumption DEF Entry
<1>4. ASSUME NEW s \in SUBSET DOMAIN weights
      PROVE  IsWeights(Given(weights), s) /\ \A id : IsWeights(GivenTo(weights, id), s)
  <2>1. IsFiniteSet(s)
    BY <1>2, FS_Subset
  <2> QED  BY <1>3, <2>1 DEF IsWeights, Given, GivenTo
<1> QED  BY <1>2, <1>3, <1>4

\* A voter has no more than all, and something exactly if it is listed with something.
LEMMA ShareFacts ==
    ASSUME NEW weights, IsList(weights), NEW s \in SUBSET DOMAIN weights, NEW id
    PROVE  /\ Sum(Given(weights), s) \in Nat /\ Sum(GivenTo(weights, id), s) \in Nat
           /\ Sum(GivenTo(weights, id), s) <= Sum(Given(weights), s)
           /\ id \in IdsIn(weights, s) <=> Sum(GivenTo(weights, id), s) > 0
           /\ IdsIn(weights, s) \subseteq Id
           /\ Sum(Given(weights), s) > 0 <=> IdsIn(weights, s) # {}
<1>1. IsWeights(Given(weights), s) /\ IsWeights(GivenTo(weights, id), s)
  BY ListFacts
<1>2. \A i \in s : /\ weights[i].weight \in Nat /\ weights[i].id \in Id
                   /\ Given(weights)[i] = weights[i].weight
                   /\ GivenTo(weights, id)[i] = IF weights[i].id = id THEN weights[i].weight ELSE 0
  BY ListFacts DEF Given, GivenTo
<1>3. Sum(Given(weights), s) \in Nat /\ Sum(GivenTo(weights, id), s) \in Nat
  BY <1>1, SumFacts
<1>4. Sum(GivenTo(weights, id), s) <= Sum(Given(weights), s)
  BY <1>1, <1>2, SumOfSmaller
<1>5. id \in IdsIn(weights, s) <=> \E i \in s : GivenTo(weights, id)[i] > 0
  BY <1>2 DEF IdsIn
<1>6. id \in IdsIn(weights, s) <=> Sum(GivenTo(weights, id), s) > 0
  BY <1>1, <1>5, SumIsPositive
<1>7. IdsIn(weights, s) \subseteq Id
  BY <1>2 DEF IdsIn
<1>8. (\E i \in s : Given(weights)[i] > 0) <=> IdsIn(weights, s) # {}
  BY <1>2 DEF IdsIn
<1>9. Sum(Given(weights), s) > 0 <=> IdsIn(weights, s) # {}
  BY <1>1, <1>8, SumIsPositive
<1> QED  BY <1>3, <1>4, <1>6, <1>7, <1>9

\* What was counted is never mistaken for None.
LEMMA CountedIsSome ==
    ASSUME NEW weights, IsList(weights), NEW s \in SUBSET DOMAIN weights,
           ~(Sum(Given(weights), s) > MaxWeight)
    PROVE  /\ Counted(weights, s) =
                  [total  |-> Sum(Given(weights), s),
                   weight |-> [id \in IdsIn(weights, s) |-> Sum(GivenTo(weights, id), s)]]
           /\ Counted(weights, s) # NoSet
<1> DEFINE t == Sum(Given(weights), s)
           w == [id \in IdsIn(weights, s) |-> Sum(GivenTo(weights, id), s)]
<1>1. Counted(weights, s) = [total |-> t, weight |-> w]
  BY DEF Counted
<1>2. t \in 0 .. MaxWeight
  BY ShareFacts, MaxWeightAssumption
<1>3. IdsIn(weights, s) \in SUBSET Id
  BY ShareFacts
<1>4. \A id \in IdsIn(weights, s) : Sum(GivenTo(weights, id), s) \in 0 .. MaxWeight
  <2> TAKE id \in IdsIn(weights, s)
  <2>1. Sum(GivenTo(weights, id), s) \in Nat /\ Sum(GivenTo(weights, id), s) <= t
    BY ShareFacts
  <2> QED  BY <1>2, <2>1, MaxWeightAssumption
<1>5. w \in [IdsIn(weights, s) -> 0 .. MaxWeight]
  BY <1>4
<1> HIDE DEF t, w
<1>6. w \in UNION {[ids -> 0 .. MaxWeight] : ids \in SUBSET Id}
  BY <1>3, <1>5
<1>7. [total |-> t, weight |-> w] # NoSet
  BY <1>2, <1>6, NoSetAssumption
<1> QED  BY <1>1, <1>7 DEF t, w
\* What one more entry adds.
LEMMA OneMore ==
    ASSUME NEW weights, IsList(weights), NEW s \in SUBSET DOMAIN weights, NEW m \in s
    PROVE  /\ Sum(Given(weights), s) = Sum(Given(weights), s \ {m}) + weights[m].weight
           /\ \A id : Sum(GivenTo(weights, id), s) =
                  Sum(GivenTo(weights, id), s \ {m}) + IF weights[m].id = id THEN weights[m].weight ELSE 0
           /\ IdsIn(weights, s) =
                  IF weights[m].weight = 0 THEN IdsIn(weights, s \ {m})
                  ELSE IdsIn(weights, s \ {m}) \union {weights[m].id}
<1>1. m \in DOMAIN weights /\ s \ {m} \in SUBSET DOMAIN weights /\ weights[m].weight \in Nat
  BY ListFacts
<1>2. Given(weights)[m] = weights[m].weight
      /\ \A id : GivenTo(weights, id)[m] = IF weights[m].id = id THEN weights[m].weight ELSE 0
  BY <1>1 DEF Given, GivenTo
<1>3. Sum(Given(weights), s) = Sum(Given(weights), s \ {m}) + weights[m].weight
  <2>1. Sum(Given(weights), s) = Given(weights)[m] + Sum(Given(weights), s \ {m})
    BY ListFacts, SumFacts
  <2>2. Sum(Given(weights), s \ {m}) \in Nat
    BY <1>1, ShareFacts
  <2> QED  BY <1>1, <1>2, <2>1, <2>2
<1>4. ASSUME NEW id
      PROVE  Sum(GivenTo(weights, id), s) =
                 Sum(GivenTo(weights, id), s \ {m}) + IF weights[m].id = id THEN weights[m].weight ELSE 0
  <2>1. Sum(GivenTo(weights, id), s) = GivenTo(weights, id)[m] + Sum(GivenTo(weights, id), s \ {m})
    BY ListFacts, SumFacts
  <2>2. Sum(GivenTo(weights, id), s \ {m}) \in Nat
    BY <1>1, ShareFacts
  <2> QED  BY <1>1, <1>2, <2>1, <2>2
<1>5. IdsIn(weights, s) = IF weights[m].weight = 0 THEN IdsIn(weights, s \ {m})
                          ELSE IdsIn(weights, s \ {m}) \union {weights[m].id}
  BY <1>1 DEF IdsIn
<1> QED  BY <1>3, <1>4, <1>5

\* The body of the loop counts one more entry.
LEMMA CountStep ==
    ASSUME NEW weights, IsList(weights), NEW s \in SUBSET DOMAIN weights, NEW m \in s
    PROVE  Counted(weights, s) = AddWeight(Counted(weights, s \ {m}), weights[m])
<1> DEFINE r == s \ {m}
           e == weights[m]
           ids == IdsIn(weights, r)
           share == [id \in ids |-> Sum(GivenTo(weights, id), r)]
<1>1. m \in DOMAIN weights /\ r \in SUBSET DOMAIN weights /\ e.weight \in Nat
  BY ListFacts
<1>2. /\ Sum(Given(weights), s) = Sum(Given(weights), r) + e.weight
      /\ \A id : Sum(GivenTo(weights, id), s) = Sum(GivenTo(weights, id), r) + IF e.id = id THEN e.weight ELSE 0
      /\ IdsIn(weights, s) = IF e.weight = 0 THEN ids ELSE ids \union {e.id}
  BY OneMore
<1>3. Sum(Given(weights), r) \in Nat /\ MaxWeight \in Nat /\ \A id : Sum(GivenTo(weights, id), r) \in Nat
  BY <1>1, ShareFacts, MaxWeightAssumption
<1> HIDE DEF r, e, ids
<1>4. CASE Sum(Given(weights), r) > MaxWeight
  <2>1. Counted(weights, r) = NoSet
    BY <1>4 DEF Counted
  <2>2. Counted(weights, s) = NoSet
    BY <1>1, <1>2, <1>3, <1>4 DEF Counted
  <2> QED  BY <2>1, <2>2 DEF AddWeight, r, e
<1>5. CASE ~(Sum(Given(weights), r) > MaxWeight)
  <2>1. /\ Counted(weights, r) = [total |-> Sum(Given(weights), r), weight |-> share]
        /\ Counted(weights, r) # NoSet
    BY <1>1, <1>5, CountedIsSome DEF ids
  <2> HIDE DEF share
  <2>2. CASE e.weight = 0
    <3>1. /\ Sum(Given(weights), s) = Sum(Given(weights), r) /\ IdsIn(weights, s) = ids
          /\ \A id : Sum(GivenTo(weights, id), s) = Sum(GivenTo(weights, id), r)
      BY <1>2, <1>3, <2>2
    <3>2. [id \in IdsIn(weights, s) |-> Sum(GivenTo(weights, id), s)] = share
      BY <3>1 DEF share
    <3>3. Counted(weights, s) = Counted(weights, r)
      BY <1>5, <2>1, <3>1, <3>2 DEF Counted
    <3> QED  BY <2>2, <3>3 DEF AddWeight, r, e
  <2>3. CASE e.weight # 0 /\ Sum(Given(weights), r) + e.weight > MaxWeight
    <3>1. Counted(weights, s) = NoSet
      BY <1>2, <2>3 DEF Counted
    <3>2. Counted(weights, r).total = Sum(Given(weights), r)
      BY <2>1
    <3> QED  BY <2>1, <2>3, <3>1, <3>2 DEF AddWeight, r, e
  <2>4. CASE e.weight # 0 /\ ~(Sum(Given(weights), r) + e.weight > MaxWeight)
    <3> DEFINE old == IF e.id \in DOMAIN share THEN share[e.id] ELSE 0
               new == [id \in IdsIn(weights, s) |-> Sum(GivenTo(weights, id), s)]
    <3>1. Counted(weights, s) = [total |-> Sum(Given(weights), r) + e.weight, weight |-> new]
      BY <1>2, <2>4 DEF Counted
    <3>2. AddWeight(Counted(weights, r), e)
          = [total |-> Sum(Given(weights), r) + e.weight, weight |-> WithWeight(share, e.id, old + e.weight)]
      <4>1. Counted(weights, r).total = Sum(Given(weights), r) /\ Counted(weights, r).weight = share
        BY <2>1
      <4> QED  BY <2>1, <2>4, <4>1 DEF AddWeight
    <3>3. old = Sum(GivenTo(weights, e.id), r)
      <4>1. e.id \in ids <=> Sum(GivenTo(weights, e.id), r) > 0
        BY <1>1, ShareFacts DEF ids
      <4> QED  BY <1>3, <4>1 DEF share
    <3>4. new = WithWeight(share, e.id, old + e.weight)
      <4> HIDE DEF old
      <4>1. DOMAIN share = ids /\ IdsIn(weights, s) = ids \union {e.id}
        BY <1>2, <2>4 DEF share
      <4>2. ASSUME NEW id \in ids \union {e.id}
            PROVE  Sum(GivenTo(weights, id), s) = IF id = e.id THEN old + e.weight ELSE share[id]
        BY <1>2, <1>3, <3>3, <4>2 DEF share
      <4> QED  BY <4>1, <4>2 DEF WithWeight
    <3> QED  BY <3>1, <3>2, <3>4 DEF r, e
  <2> QED  BY <2>2, <2>3, <2>4
<1> QED  BY <1>4, <1>5

\* Before the first entry.
LEMMA CountNone ==
    ASSUME NEW weights, IsList(weights)
    PROVE  Counted(weights, {}) = [total |-> 0, weight |-> [id \in {} |-> 0]]
<1>1. Sum(Given(weights), {}) = 0 /\ IdsIn(weights, {}) = {}
  BY ListFacts, SumFacts DEF IdsIn
<1>2. ~(Sum(Given(weights), {}) > MaxWeight)
  BY <1>1, MaxWeightAssumption
<1> DEFINE w == [id \in IdsIn(weights, {}) |-> Sum(GivenTo(weights, id), {})]
<1>3. w = [id \in {} |-> 0]
  BY <1>1
<1>4. Counted(weights, {}) = [total |-> Sum(Given(weights), {}), weight |-> w]
  BY <1>2 DEF Counted
<1> HIDE DEF w
<1> QED  BY <1>1, <1>3, <1>4

\* The whole loop.
LEMMA CountAll ==
    ASSUME NEW weights, IsList(weights)
    PROVE  FoldLeft(AddWeight, [total |-> 0, weight |-> [id \in {} |-> 0]], weights)
               = Counted(weights, DOMAIN weights)
<1> DEFINE S == DOMAIN weights
           none == [total |-> 0, weight |-> [id \in {} |-> 0]]
           Step(f, s) == IF s = {} THEN none ELSE AddWeight(f[s \ {Max(s)}], weights[Max(s)])
           iter[s \in SUBSET S] == IF s = {} THEN none ELSE AddWeight(iter[s \ {Max(s)}], weights[Max(s)])
           F == [s \in SUBSET S |-> Counted(weights, s)]
<1>1. FoldLeft(AddWeight, none, weights) = iter[S]
  BY DEF FoldLeft, MapThenFoldSet
<1>2. iter = CHOOSE f : f = [s \in SUBSET S |-> Step(f, s)]
  OBVIOUS
<1> HIDE DEF iter, none
<1>3. \A s \in SUBSET S : IsFiniteSet(s) /\ Cardinality(s) \in Nat
  BY ListFacts, FS_Subset, FS_CardinalityType
<1>4. PICK n \in Nat : S = 1 .. n
  BY ListFacts
<1>5. ASSUME NEW s \in SUBSET S, s # {} PROVE Max(s) \in s
  <2> DEFINE below == {n - x : x \in s}
  <2>1. below \in SUBSET Nat /\ below # {}
    BY <1>4, <1>5
  <2>2. PICK x \in s : \A m \in below : n - x <= m
    BY <2>1, SmallestNumber
  <2>3. ASSUME NEW y \in s PROVE x >= y
    <3>1. n - x <= n - y
      BY <2>2
    <3>2. x \in 1 .. n /\ y \in 1 .. n
      BY <1>4
    <3> QED  BY <1>4, <3>1, <3>2
  <2> QED  BY <2>2, <2>3 DEF Max
<1>6. ASSUME NEW s \in SUBSET S PROVE F[s] = Step(F, s)
  <2>1. CASE s = {}
    BY <2>1, CountNone DEF none
  <2>2. CASE s # {}
    BY <1>5, <2>2, CountStep
  <2> QED  BY <2>1, <2>2
<1>7. iter = [s \in SUBSET S |-> Step(iter, s)]
  <2>1. F = [s \in SUBSET S |-> Step(F, s)]
    BY <1>6
  <2> HIDE DEF Step, F
  <2> QED  BY <1>2, <2>1
<1>8. ASSUME NEW z \in SUBSET S, iter[z] # F[z] PROVE FALSE
  <2> DEFINE bad == {s \in SUBSET S : iter[s] # F[s]}
             sizes == {Cardinality(s) : s \in bad}
  <2>1. z \in bad /\ \A s \in bad : s \in SUBSET S
    BY <1>8
  <2> HIDE DEF bad
  <2>2. sizes \in SUBSET Nat /\ sizes # {}
    BY <1>3, <2>1
  <2>3. PICK s \in bad : \A m \in sizes : Cardinality(s) <= m
    BY <2>2, SmallestNumber
  <2>4. s \in SUBSET S /\ iter[s] # F[s] /\ IsFiniteSet(s) /\ Cardinality(s) \in Nat
    BY <1>3, <2>1, <2>3 DEF bad
  <2>5. iter[s] = Step(iter, s) /\ F[s] = Step(F, s)
    BY <1>6, <1>7, <2>4
  <2>6. s # {}
    BY <2>4, <2>5
  <2> DEFINE rest == s \ {Max(s)}
  <2>7. Cardinality(rest) = Cardinality(s) - 1 /\ rest \in SUBSET S
    BY <1>5, <2>4, <2>6, FS_RemoveElement
  <2>8. iter[rest] # F[rest]
    <3> HIDE DEF F
    <3> QED  BY <2>4, <2>5, <2>6
  <2>9. rest \in bad
    BY <2>7, <2>8 DEF bad
  <2>10. Cardinality(s) <= Cardinality(rest)
    BY <2>3, <2>9
  <2> QED  BY <2>4, <2>7, <2>10
<1> QED  BY <1>1, <1>8 DEF none

-----------------------------------------------------------------------------
(* The voters in order *)

Increasing(seq, n) == \A i, j \in 1 .. n : i < j => seq[i] < seq[j]

\* A finite set of ids can be put in order.
LEMMA OrderExists ==
    ASSUME NEW S \in SUBSET Nat, IsFiniteSet(S)
    PROVE  \E seq \in [1 .. Cardinality(S) -> S] : Increasing(seq, Cardinality(S))
<1> DEFINE Can(s) == \E seq \in [1 .. Cardinality(s) -> s] : Increasing(seq, Cardinality(s))
           bad == {s \in SUBSET S : ~Can(s)}
           sizes == {Cardinality(s) : s \in bad}
<1>1. \A s \in SUBSET S : IsFiniteSet(s) /\ Cardinality(s) \in Nat /\ s \in SUBSET Nat
  BY FS_Subset, FS_CardinalityType
<1>2. ASSUME NEW s \in SUBSET S, NEW x \in s, \A y \in s : x <= y, Can(s \ {x}) PROVE Can(s)
  <2> DEFINE k == Cardinality(s \ {x})
  <2>1. k \in Nat /\ Cardinality(s) = k + 1
    <3>1. Cardinality(s) \in Nat /\ IsFiniteSet(s) /\ s \ {x} \in SUBSET S
      BY <1>1
    <3>2. k = Cardinality(s) - 1 /\ k \in Nat
      BY <1>1, <3>1, FS_RemoveElement
    <3> QED  BY <3>1, <3>2
  <2> HIDE DEF k
  <2>2. PICK f \in [1 .. k -> s \ {x}] : Increasing(f, k)
    BY <1>2 DEF k
  <2> DEFINE g == [i \in 1 .. (k + 1) |-> IF i = 1 THEN x ELSE f[i - 1]]
  <2>3. \A i \in 1 .. (k + 1) : i # 1 => i - 1 \in 1 .. k
    BY <2>1
  <2>4. g \in [1 .. (k + 1) -> s]
    BY <2>2, <2>3
  <2>5. ASSUME NEW i \in 1 .. (k + 1), NEW j \in 1 .. (k + 1), i < j PROVE g[i] < g[j]
    <3>1. j # 1 /\ j - 1 \in 1 .. k
      BY <2>1, <2>5
    <3>2. g[j] = f[j - 1] /\ f[j - 1] \in s /\ f[j - 1] # x
      BY <2>2, <3>1
    <3>3. CASE i = 1
      <4>1. x <= f[j - 1] /\ x \in Nat /\ f[j - 1] \in Nat
        BY <1>1, <1>2, <3>2
      <4> QED  BY <3>2, <3>3, <4>1
    <3>4. CASE i # 1
      <4>1. i - 1 \in 1 .. k /\ i - 1 < j - 1
        BY <2>1, <2>5, <3>4
      <4> QED  BY <2>2, <3>1, <3>2, <3>4, <4>1 DEF Increasing
    <3> QED  BY <3>3, <3>4
  <2> HIDE DEF g
  <2>6. Increasing(g, k + 1)
    BY <2>5 DEF Increasing
  <2> QED  BY <2>1, <2>4, <2>6
<1>3. Can({})
  <2>1. Cardinality({}) = 0 /\ 1 .. 0 = {}
    BY FS_EmptySet
  <2>2. [i \in {} |-> i] \in [1 .. 0 -> {}] /\ Increasing([i \in {} |-> i], 0)
    BY <2>1 DEF Increasing
  <2> QED  BY <2>1, <2>2
<1> HIDE DEF Can
<1>4. ASSUME ~Can(S) PROVE FALSE
  <2>1. S \in bad /\ \A s \in bad : s \in SUBSET S /\ ~Can(s)
    BY <1>4
  <2> HIDE DEF bad
  <2>2. sizes \in SUBSET Nat /\ sizes # {}
    BY <1>1, <2>1
  <2>3. PICK s \in bad : \A m \in sizes : Cardinality(s) <= m
    BY <2>2, SmallestNumber
  <2>4. s # {} /\ s \in SUBSET Nat /\ s \in SUBSET S /\ Cardinality(s) \in Nat /\ IsFiniteSet(s)
    BY <1>1, <1>3, <2>1
  <2>5. PICK x \in s : \A y \in s : x <= y
    BY <2>4, SmallestNumber
  <2>6. ~Can(s \ {x})
    BY <1>2, <2>1, <2>4, <2>5
  <2>7. Cardinality(s) <= Cardinality(s \ {x})
    BY <2>3, <2>4, <2>6 DEF bad
  <2>8. Cardinality(s \ {x}) = Cardinality(s) - 1
    BY <2>4, <2>5, FS_RemoveElement
  <2> QED  BY <2>4, <2>7, <2>8
<1> QED  BY <1>4 DEF Can

\* In order, every id comes up once.
LEMMA InOrderFacts ==
    ASSUME NEW S \in SUBSET Nat, IsFiniteSet(S)
    PROVE  LET n == Cardinality(S)
           IN  /\ n \in Nat /\ InOrder(S) \in [1 .. n -> S] /\ Increasing(InOrder(S), n)
               /\ \A x \in S : \E i \in 1 .. n : InOrder(S)[i] = x
<1> DEFINE n == Cardinality(S)
           seq == InOrder(S)
<1>1. n \in Nat
  BY FS_CardinalityType
<1>2. seq \in [1 .. n -> S] /\ Increasing(seq, n)
  BY OrderExists DEF InOrder, Increasing
<1> HIDE DEF seq
<1>3. \A i \in 1 .. n : seq[i] \in Nat
  BY <1>2
<1>4. seq \in Injection(1 .. n, S)
  <2>1. ASSUME NEW i \in 1 .. n, NEW j \in 1 .. n, i # j PROVE seq[i] # seq[j]
    <3>1. seq[i] < seq[j] \/ seq[j] < seq[i]
      BY <1>1, <1>2, <2>1 DEF Increasing
    <3> QED  BY <1>3, <3>1
  <2> QED  BY <1>2, <2>1 DEF Injection, IsInjective
<1>5. IsFiniteSet(1 .. n) /\ Cardinality(1 .. n) = n
  BY <1>1, FS_Interval
<1>6. seq \in Surjection(1 .. n, S)
  BY <1>4, <1>5, FS_Injection
<1> QED  BY <1>1, <1>2, <1>6 DEF Surjection, seq

-----------------------------------------------------------------------------
(* What VoterSet::new makes of a list *)

Shares(weights) == [id \in IdsIn(weights, DOMAIN weights) |-> Sum(GivenTo(weights, id), DOMAIN weights)]

LEMMA NewSetFacts ==
    ASSUME NEW weights, IsList(weights)
    PROVE  LET total == Sum(Given(weights), DOMAIN weights)
               vs    == NewVoterSet(weights)
           IN  /\ total \in Nat
               /\ total = 0 \/ total > MaxWeight => vs = NoSet
               /\ ~(total = 0 \/ total > MaxWeight) =>
                      /\ vs.total_weight = total /\ vs.threshold = ThresholdOf(total)
                      /\ HasVoters(vs, IdsIn(weights, DOMAIN weights), Shares(weights))
<1> DEFINE D == DOMAIN weights
           total == Sum(Given(weights), D)
           ids == IdsIn(weights, D)
           share == [id \in ids |-> Sum(GivenTo(weights, id), D)]
           all == FoldLeft(AddWeight, [total |-> 0, weight |-> [id \in {} |-> 0]], weights)
           seq == InOrder(ids)
           voters == [i \in DOMAIN seq |-> [id |-> seq[i], weight |-> share[seq[i]]]]
<1>1. total \in Nat /\ ids \subseteq Id /\ (total > 0 <=> ids # {})
  BY ShareFacts
<1>2. all = Counted(weights, D)
  BY CountAll
<1>3. NewVoterSet(weights) =
          IF all = NoSet THEN NoSet
          ELSE IF DOMAIN all.weight = {} THEN NoSet
          ELSE [voters |-> [i \in DOMAIN InOrder(DOMAIN all.weight) |->
                               [id |-> InOrder(DOMAIN all.weight)[i],
                                weight |-> all.weight[InOrder(DOMAIN all.weight)[i]]]],
                total_weight |-> all.total, threshold |-> ThresholdOf(all.total)]
  BY DEF NewVoterSet
<1> HIDE DEF all
<1>4. CASE total > MaxWeight
  <2>1. all = NoSet
    BY <1>2, <1>4 DEF Counted
  <2> QED  BY <1>1, <1>3, <1>4, <2>1, MaxWeightAssumption
<1>5. CASE ~(total > MaxWeight)
  <2>1. all # NoSet /\ all = [total |-> total, weight |-> share]
    BY <1>2, <1>5, CountedIsSome
  <2> HIDE DEF total
  <2>2. all.total = total /\ all.weight = share /\ DOMAIN share = ids
    BY <2>1
  <2>3. CASE total = 0
    <3>1. ids = {}
      BY <1>1, <2>3
    <3>2. NewVoterSet(weights) = NoSet
      BY <1>3, <2>2, <3>1
    <3> QED  BY <1>1, <2>3, <3>2 DEF total
  <2>4. CASE total # 0
    <3>1. ids # {} /\ ids \in SUBSET Nat /\ IsFiniteSet(ids)
      <4>1. ids # {} /\ ids \in SUBSET Nat
        <5>1. total > 0
          BY <1>1, <2>4
        <5> HIDE DEF ids
        <5>2. ids # {} /\ ids \subseteq Id
          BY <1>1, <5>1
        <5> QED  BY <5>2, ListAssumption
      <4> DEFINE f == [i \in {j \in D : weights[j].weight # 0} |-> weights[i].id]
      <4>2. f \in Surjection({j \in D : weights[j].weight # 0}, ids)
        BY DEF Surjection, IdsIn
      <4>3. IsFiniteSet({j \in D : weights[j].weight # 0})
        BY ListFacts, FS_Subset
      <4>4. IsFiniteSet(ids)
        BY <4>2, <4>3, FS_Surjection
      <4> QED  BY <4>1, <4>4
    <3> HIDE DEF ids
    <3> DEFINE n == Cardinality(ids)
    <3>2. /\ n \in Nat /\ seq \in [1 .. n -> ids] /\ Increasing(seq, n)
          /\ \A x \in ids : \E i \in 1 .. n : seq[i] = x
      BY <3>1, InOrderFacts
    <3>3. n # 0
      BY <3>1, <3>2, FS_EmptySet
    <3> HIDE DEF n, seq, share
    <3>4. NewVoterSet(weights) = [voters |-> voters, total_weight |-> total, threshold |-> ThresholdOf(total)]
      <4>1. DOMAIN all.weight # {}
        BY <2>2, <3>1
      <4> QED  BY <1>3, <2>1, <2>2, <4>1 DEF seq
    <3>5. voters = [i \in 1 .. n |-> [id |-> seq[i], weight |-> share[seq[i]]]]
      BY <3>2
    <3>6. Len(voters) = n /\ DOMAIN voters = 1 .. n
      BY <3>2, <3>5
    <3>7. \A i \in 1 .. n : voters[i].id = seq[i] /\ voters[i].weight = share[seq[i]]
      BY <3>5
    <3> HIDE DEF voters
    <3>8. HasVoters([voters |-> voters, total_weight |-> total, threshold |-> ThresholdOf(total)], ids, share)
      BY <3>2, <3>3, <3>6, <3>7 DEF HasVoters, Increasing
    <3>9. share = Shares(weights)
      BY DEF share, Shares, ids
    <3>10. /\ NewVoterSet(weights).total_weight = total /\ NewVoterSet(weights).threshold = ThresholdOf(total)
           /\ HasVoters(NewVoterSet(weights), ids, Shares(weights))
      BY <3>4, <3>8, <3>9
    <3> QED  BY <1>1, <1>5, <2>4, <3>10 DEF ids, total
  <2> QED  BY <2>3, <2>4
<1> QED  BY <1>4, <1>5

\* Every residue comes up in a row of as many numbers.
LEMMA Residues ==
    ASSUME NEW n \in Nat \ {0}, NEW first \in Nat
    PROVE  /\ \A k \in Nat : k % n \in 0 .. (n - 1)
           /\ \A r \in 0 .. (n - 1) : \E k \in first .. (first + n - 1) : k % n = r
<1>1. \A k \in Nat : k % n \in 0 .. (n - 1)
  OBVIOUS
<1>2. ASSUME NEW r \in 0 .. (n - 1) PROVE \E k \in first .. (first + n - 1) : k % n = r
  <2>0. \A k \in Nat : (n * k + r) % n = r
    OBVIOUS
  <2> DEFINE q == first \div n
             f == first % n
  <2>1. q \in Nat /\ f \in 0 .. (n - 1) /\ first = n * q + f
    OBVIOUS
  <2>2. CASE f <= r
    <3>1. n * q + r \in first .. (first + n - 1)
      BY <2>1, <2>2
    <3>2. (n * q + r) % n = r
      BY <2>0, <2>1
    <3> QED  BY <3>1, <3>2
  <2>3. CASE r < f
    <3>1. n * (q + 1) + r \in first .. (first + n - 1)
      BY <2>1, <2>3
    <3>2. q + 1 \in Nat
      BY <2>1
    <3>3. (n * (q + 1) + r) % n = r
      BY <2>0, <3>2
    <3> QED  BY <3>1, <3>3
  <2> QED  BY <2>1, <2>2, <2>3
<1> QED  BY <1>1, <1>2
\* The shares add up to what was given.
LEMMA SharesAddUp ==
    ASSUME NEW weights, IsList(weights)
    PROVE  LET ids == IdsIn(weights, DOMAIN weights)
           IN  /\ IsWeights(Shares(weights), ids)
               /\ Sum(Shares(weights), ids) = Sum(Given(weights), DOMAIN weights)
<1> DEFINE D == DOMAIN weights
           ids == IdsIn(weights, D)
           share(s) == [id \in ids |-> Sum(GivenTo(weights, id), s)]
           bad == {s \in SUBSET D : Sum(share(s), ids) # Sum(Given(weights), s)}
           sizes == {Cardinality(s) : s \in bad}
<1>1. IsFiniteSet(ids)
  <2> DEFINE f == [i \in {j \in D : weights[j].weight # 0} |-> weights[i].id]
  <2>1. f \in Surjection({j \in D : weights[j].weight # 0}, ids)
    BY DEF Surjection, IdsIn
  <2>2. IsFiniteSet({j \in D : weights[j].weight # 0})
    BY ListFacts, FS_Subset
  <2> QED  BY <2>1, <2>2, FS_Surjection
<1>2. \A s \in SUBSET D : IsFiniteSet(s) /\ Cardinality(s) \in Nat
  BY ListFacts, FS_Subset, FS_CardinalityType
<1>3. ASSUME NEW s \in SUBSET D
      PROVE  /\ IsWeights(share(s), ids)
             /\ \A id \in ids : share(s)[id] = Sum(GivenTo(weights, id), s) /\ share(s)[id] \in Nat
  <2>1. \A id \in ids : Sum(GivenTo(weights, id), s) \in Nat
    BY ShareFacts
  <2> HIDE DEF ids
  <2> QED  BY <1>1, <2>1 DEF IsWeights
<1>4. Sum(share({}), ids) = Sum(Given(weights), {})
  <2>1. \A id \in ids : share({})[id] = 0
    BY ListFacts, SumFacts
  <2>2. ~(Sum(share({}), ids) > 0) /\ Sum(share({}), ids) \in Nat
    BY <1>3, <2>1, SumIsPositive, SumFacts
  <2>3. Sum(Given(weights), {}) = 0
    BY ListFacts, SumFacts
  <2> QED  BY <2>2, <2>3
<1>5. ASSUME NEW s \in SUBSET D, NEW m \in s,
             Sum(share(s \ {m}), ids) = Sum(Given(weights), s \ {m})
      PROVE  Sum(share(s), ids) = Sum(Given(weights), s)
  <2> DEFINE r == s \ {m}
             e == weights[m]
  <2>1. r \in SUBSET D /\ m \in D /\ e.weight \in Nat
    BY ListFacts
  <2>2. /\ Sum(Given(weights), s) = Sum(Given(weights), r) + e.weight
        /\ \A id : Sum(GivenTo(weights, id), s) =
                       Sum(GivenTo(weights, id), r) + IF e.id = id THEN e.weight ELSE 0
    <3>1. Sum(Given(weights), s) = Sum(Given(weights), s \ {m}) + weights[m].weight
      BY OneMore
    <3>2. \A id : Sum(GivenTo(weights, id), s) =
                  Sum(GivenTo(weights, id), s \ {m}) + IF weights[m].id = id THEN weights[m].weight ELSE 0
      BY OneMore
    <3> QED  BY <3>1, <3>2
  <2>3. /\ IsWeights(share(r), ids) /\ IsWeights(share(s), ids)
        /\ \A id \in ids : /\ share(s)[id] = Sum(GivenTo(weights, id), s)
                           /\ share(r)[id] = Sum(GivenTo(weights, id), r) /\ share(r)[id] \in Nat
    BY <1>3, <2>1
  <2>4. Sum(share(r), ids) = Sum(Given(weights), r) /\ Sum(share(r), ids) \in Nat
    BY <1>5, <2>3, SumFacts
  <2>5. e.weight # 0 => e.id \in ids
    BY <2>1 DEF IdsIn
  <2> HIDE DEF ids, share, r, e
  <2>6. CASE e.weight = 0
    <3>1. \A id \in ids : share(r)[id] = share(s)[id]
      BY <2>2, <2>3, <2>6
    <3>2. Sum(share(s), ids) = Sum(share(r), ids)
      BY <2>3, <3>1, SumOfSame
    <3> QED  BY <2>2, <2>4, <2>6, <3>2
  <2>7. CASE e.weight # 0
    <3>1. e.id \in ids
      BY <2>5, <2>7
    <3>2. \A id \in ids \ {e.id} : share(r)[id] = share(s)[id]
      BY <2>2, <2>3
    <3>3. /\ Sum(share(s), ids) = share(s)[e.id] + Sum(share(s), ids \ {e.id})
          /\ Sum(share(r), ids) = share(r)[e.id] + Sum(share(r), ids \ {e.id})
          /\ IsWeights(share(r), ids \ {e.id})
      BY <2>3, <3>1, SumFacts
    <3>4. Sum(share(s), ids \ {e.id}) = Sum(share(r), ids \ {e.id}) /\ Sum(share(r), ids \ {e.id}) \in Nat
      BY <3>2, <3>3, SumOfSame, SumFacts
    <3>5. share(s)[e.id] = share(r)[e.id] + e.weight /\ share(r)[e.id] \in Nat
      BY <2>2, <2>3, <3>1
    <3> QED  BY <2>1, <2>2, <2>4, <3>3, <3>4, <3>5 DEF e
  <2> QED  BY <2>6, <2>7
<1> HIDE DEF ids, share
<1>6. ASSUME bad # {} PROVE FALSE
  <2>1. \A s \in bad : s \in SUBSET D /\ Sum(share(s), ids) # Sum(Given(weights), s)
    OBVIOUS
  <2> HIDE DEF bad
  <2>2. sizes \in SUBSET Nat /\ sizes # {}
    BY <1>2, <1>6, <2>1
  <2>3. PICK s \in bad : \A k \in sizes : Cardinality(s) <= k
    BY <2>2, SmallestNumber
  <2>4. s # {} /\ s \in SUBSET D /\ IsFiniteSet(s) /\ Cardinality(s) \in Nat
    BY <1>2, <1>4, <2>1
  <2>5. PICK m \in s : TRUE
    BY <2>4
  <2>6. s \ {m} \in bad
    BY <1>5, <2>1, <2>4 DEF bad
  <2>7. Cardinality(s) <= Cardinality(s \ {m})
    BY <2>3, <2>6
  <2>8. Cardinality(s \ {m}) = Cardinality(s) - 1
    BY <2>4, FS_RemoveElement
  <2> QED  BY <2>4, <2>7, <2>8
<1>7. Sum(share(D), ids) = Sum(Given(weights), D)
  BY <1>6
<1>8. share(D) = Shares(weights)
  BY DEF share, Shares, ids
<1> QED  BY <1>3, <1>7, <1>8 DEF ids

-----------------------------------------------------------------------------
(* Every set that is created *)

\* The set is what VoterSet::new makes of the list.
SetInv == IsList(input) /\ set = NewVoterSet(input)

\* An empty list makes no set.
LEMMA NoListNoSet == input = <<>> => NewVoterSet(input) = NoSet
<1> SUFFICES ASSUME input = <<>> PROVE NewVoterSet(input) = NoSet
  OBVIOUS
<1>1. <<>> \in [1 .. 0 -> Entry]
  OBVIOUS
<1>2. IsList(input)
  BY <1>1 DEF IsList
<1>3. Sum(Given(input), DOMAIN input) = 0
  <2>1. DOMAIN input = {}
    OBVIOUS
  <2>2. IsWeights(Given(input), DOMAIN input)
    BY <1>2, ListFacts
  <2> QED  BY <2>1, <2>2, SumFacts
<1> QED  BY <1>2, <1>3, NewSetFacts

LEMMA SetStarts == SetInit => SetInv
<1> SUFFICES ASSUME SetInit PROVE SetInv
  OBVIOUS
<1>1. <<>> \in [1 .. 0 -> Entry]
  OBVIOUS
<1> QED  BY <1>1, NoListNoSet DEF SetInit, SetInv, IsList

LEMMA SetSteps == SetNext => SetInv'
<1> SUFFICES ASSUME SetNext PROVE SetInv'
  OBVIOUS
<1>1. PICK n \in 1 .. MaxEntries : \E weights \in [1 .. n -> Entry] : CreateSet(weights)
  BY DEF SetNext
<1>2. PICK weights \in [1 .. n -> Entry] : CreateSet(weights)
  BY <1>1
<1>3. n \in Nat
  BY ListAssumption
<1> QED  BY <1>2, <1>3 DEF CreateSet, SetInv, IsList

\* Whatever list came in: nothing else ever changes the set.
LEMMA SetIsMade == SetSpec => []SetInv
<1>1. SetInv /\ UNCHANGED setVars => SetInv'
  BY DEF setVars, SetInv
<1> QED  BY <1>1, SetStarts, SetSteps, PTL DEF SetSpec

\* The sums of the properties are those of the lemmas.
LEMMA InputSums ==
    /\ InputTotal = Sum(Given(input), DOMAIN input)
    /\ \A id : InputWeight(id) = Sum(GivenTo(input, id), DOMAIN input)
<1>1. InputTotal = Sum(Given(input), DOMAIN input)
  BY DEF InputTotal, SumFunction, Sum, Given
<1>2. ASSUME NEW id PROVE InputWeight(id) = Sum(GivenTo(input, id), DOMAIN input)
  BY DEF InputWeight, SumFunction, Sum, GivenTo
<1> QED  BY <1>1, <1>2

LEMMA SetFacts ==
    ASSUME SetInv
    PROVE  LET ids == IdsIn(input, DOMAIN input)
           IN  /\ InputTotal \in Nat /\ ids \in SUBSET Nat
               /\ InputTotal = 0 \/ InputTotal > MaxWeight => set = NoSet
               /\ ~(InputTotal = 0 \/ InputTotal > MaxWeight) =>
                      /\ set.total_weight = InputTotal /\ set.threshold = ThresholdOf(InputTotal)
                      /\ HasVoters(set, ids, Shares(input))
                      /\ VoterIds(set) = ids
                      /\ \A id \in ids : WeightOfVoter(set, id) = Shares(input)[id]
<1> DEFINE ids == IdsIn(input, DOMAIN input)
<1>1. IsList(input) /\ set = NewVoterSet(input) /\ InputTotal = Sum(Given(input), DOMAIN input)
  BY InputSums DEF SetInv
<1>2. ids \in SUBSET Nat /\ InputTotal \in Nat
  BY <1>1, ShareFacts, ListAssumption
<1>3. InputTotal = 0 \/ InputTotal > MaxWeight => set = NoSet
  BY <1>1, NewSetFacts
<1> HIDE DEF ids
<1>4. ASSUME ~(InputTotal = 0 \/ InputTotal > MaxWeight)
      PROVE  /\ set.total_weight = InputTotal /\ set.threshold = ThresholdOf(InputTotal)
             /\ HasVoters(set, ids, Shares(input)) /\ VoterIds(set) = ids
             /\ \A id \in ids : WeightOfVoter(set, id) = Shares(input)[id]
  <2>1. /\ set.total_weight = InputTotal /\ set.threshold = ThresholdOf(InputTotal)
        /\ HasVoters(set, ids, Shares(input))
    BY <1>1, <1>4, NewSetFacts DEF ids
  <2> DEFINE share == Shares(input)
  <2>2. HasVoters(set, ids, share)
    BY <2>1
  <2> HIDE DEF share
  <2>3. VoterIds(set) = ids /\ \A id \in ids : WeightOfVoter(set, id) = share[id]
    BY <1>2, <2>2, VoterFacts
  <2> QED  BY <2>1, <2>3 DEF share
<1> QED  BY <1>2, <1>3, <1>4 DEF ids

\* VoterSet::new gives a set exactly when it should, with the sums it should, in order.
LEMMA NewIsRight ==
    ASSUME SetInv
    PROVE  NewIsExact
<1> DEFINE ids == IdsIn(input, DOMAIN input)
<1>1. /\ ids \in SUBSET Nat /\ ids \subseteq Id
      /\ \A id : id \in ids <=> InputWeight(id) > 0
      /\ \A id \in ids : Shares(input)[id] = InputWeight(id)
  <2>1. IsList(input)
    BY DEF SetInv
  <2>2. ids \subseteq Id /\ \A id : id \in ids <=> Sum(GivenTo(input, id), DOMAIN input) > 0
    BY <2>1, ShareFacts
  <2>3. \A id \in ids : Shares(input)[id] = Sum(GivenTo(input, id), DOMAIN input)
    BY DEF Shares
  <2> HIDE DEF ids
  <2> QED  BY <2>2, <2>3, InputSums, ListAssumption
<1>2. InputTotal = 0 \/ InputTotal > MaxWeight => set = NoSet
  BY SetFacts
<1>3. ASSUME ~(InputTotal = 0 \/ InputTotal > MaxWeight)
      PROVE  /\ set.total_weight = InputTotal
             /\ VoterIds(set) = ids /\ HasVoters(set, ids, Shares(input))
             /\ \A id \in ids : WeightOfVoter(set, id) = Shares(input)[id]
  BY <1>3, SetFacts
<1> HIDE DEF ids
<1>4. ASSUME ~(InputTotal = 0 \/ InputTotal > MaxWeight)
      PROVE  /\ set.total_weight = InputTotal
             /\ VoterIds(set) = {id \in Id : InputWeight(id) > 0}
             /\ \A id \in VoterIds(set) : WeightOfVoter(set, id) = InputWeight(id)
             /\ \A i, j \in DOMAIN set.voters : i < j => set.voters[i].id < set.voters[j].id
  BY <1>1, <1>3, <1>4 DEF HasVoters
<1>5. ASSUME ~(InputTotal = 0 \/ InputTotal > MaxWeight), NEW first \in 0 .. 2 * Len(set.voters)
      PROVE  {NthMod(set, n).id : n \in first .. first + Len(set.voters) - 1} = VoterIds(set)
  <2> DEFINE L == Len(set.voters)
             row == first .. first + L - 1
  <2>1. L \in Nat \ {0} /\ DOMAIN set.voters = 1 .. L /\ VoterIds(set) = {set.voters[i].id : i \in 1 .. L}
    BY <1>3, <1>5 DEF HasVoters, VoterIds
  <2>2. first \in Nat
    BY <1>5, <2>1
  <2> HIDE DEF L
  <2>3. \A n \in row : n % L \in 0 .. (L - 1)
    BY <2>1, <2>2, Residues
  <2>4. ASSUME NEW n \in row
        PROVE  NthMod(set, n).id = set.voters[(n % L) + 1].id /\ (n % L) + 1 \in 1 .. L
    <3>1. NthMod(set, n) = set.voters[(n % L) + 1]
      BY DEF NthMod, L
    <3>2. n % L \in 0 .. (L - 1)
      BY <2>3
    <3> HIDE DEF row
    <3> QED  BY <2>1, <3>1, <3>2
  <2>5. ASSUME NEW i \in 1 .. L PROVE \E n \in row : (n % L) + 1 = i
    <3>1. i - 1 \in 0 .. (L - 1)
      BY <2>1
    <3>2. PICK n \in first .. (first + L - 1) : n % L = i - 1
      BY <2>1, <2>2, <3>1, Residues
    <3>3. n \in row /\ i \in Int
      BY <2>1
    <3> HIDE DEF row
    <3>4. (n % L) + 1 = i
      BY <3>2, <3>3
    <3> QED  BY <3>3, <3>4
  <2>6. row = first .. first + Len(set.voters) - 1
    BY DEF L
  <2> HIDE DEF row
  <2>7. {NthMod(set, n).id : n \in row} = {set.voters[i].id : i \in 1 .. L}
    <3>1. ASSUME NEW n \in row PROVE \E i \in 1 .. L : NthMod(set, n).id = set.voters[i].id
      BY <2>4
    <3>2. ASSUME NEW i \in 1 .. L PROVE \E n \in row : NthMod(set, n).id = set.voters[i].id
      <4>1. PICK n \in row : (n % L) + 1 = i
        BY <2>5
      <4> QED  BY <2>4, <4>1
    <3> QED  BY <3>1, <3>2, SMTT(30)
  <2> QED  BY <2>1, <2>6, <2>7
<1> QED  BY <1>2, <1>4, <1>5 DEF NewIsExact

\* VoterSet::new is right on every list, of whatever length, weights and duplicates.
THEOREM NewStaysExact == SetSpec => []NewIsExact
  BY SetIsMade, NewIsRight, PTL

-----------------------------------------------------------------------------
(* Its threshold *)

\* The weight of some voters of the set is a sum, and all of them have the total weight.
LEMMA VotersWeigh ==
    ASSUME SetInv, set # NoSet
    PROVE  /\ IsFiniteSet(VoterIds(set))
           /\ InputTotal \in Nat \ {0} /\ set.total_weight = InputTotal /\ set.threshold = ThresholdOf(InputTotal)
           /\ \A S \in SUBSET VoterIds(set) :
                  IsWeights(Shares(input), S) /\ WeightOfIds(set, S) = Sum(Shares(input), S)
           /\ WeightOfIds(set, VoterIds(set)) = InputTotal
<1> DEFINE ids == IdsIn(input, DOMAIN input)
           share == Shares(input)
<1>1. InputTotal \in Nat /\ ~(InputTotal = 0 \/ InputTotal > MaxWeight)
  BY SetFacts
<1>2. /\ set.total_weight = InputTotal /\ set.threshold = ThresholdOf(InputTotal)
      /\ VoterIds(set) = ids /\ \A id \in ids : WeightOfVoter(set, id) = share[id]
  BY <1>1, SetFacts
<1>3. IsWeights(share, ids) /\ Sum(share, ids) = InputTotal
  BY SharesAddUp, InputSums DEF SetInv
<1> HIDE DEF ids, share
<1>4. ASSUME NEW S \in SUBSET ids
      PROVE  IsWeights(share, S) /\ WeightOfIds(set, S) = Sum(share, S)
  <2> DEFINE w == [id \in S |-> WeightOfVoter(set, id)]
  <2>1. IsWeights(share, S)
    BY <1>3, SumOfLess
  <2>2. WeightOfIds(set, S) = Sum(w, S)
    BY DEF WeightOfIds, SumFunction, Sum
  <2>3. \A id \in S : share[id] = w[id]
    BY <1>2
  <2> HIDE DEF w
  <2>4. Sum(w, S) = Sum(share, S)
    BY <2>1, <2>3, SumOfSame
  <2> QED  BY <2>1, <2>2, <2>4
<1>5. IsFiniteSet(ids)
  BY <1>3 DEF IsWeights
<1>6. WeightOfIds(set, ids) = InputTotal
  BY <1>3, <1>4
<1> QED  BY <1>1, <1>2, <1>4, <1>5, <1>6 DEF share

\* What the other modules assume of a voter set (VoterWeights): the weight of a set of
\* voters is an additive measure, everything weighs something, and the threshold is all but
\* what may be faulty.
IsWeighed(vs, weight) ==
    LET voters == VoterIds(vs)
    IN  /\ IsFiniteSet(voters)
        /\ weight \in [SUBSET voters -> Nat]
        /\ weight[{}] = 0
        /\ \A S, T \in SUBSET voters : weight[S \union T] + weight[S \intersect T] = weight[S] + weight[T]
        /\ weight[voters] > 0 /\ vs.total_weight = weight[voters]
        /\ vs.threshold = weight[voters] - (weight[voters] - 1) \div 3

WeighsVoters == set # NoSet => IsWeighed(set, [S \in SUBSET VoterIds(set) |-> WeightOfIds(set, S)])

LEMMA SetIsWeighed ==
    ASSUME SetInv
    PROVE  WeighsVoters
<1> SUFFICES ASSUME set # NoSet
             PROVE  IsWeighed(set, [S \in SUBSET VoterIds(set) |-> WeightOfIds(set, S)])
  BY DEF WeighsVoters
<1> DEFINE V == VoterIds(set)
           share == Shares(input)
           weight == [S \in SUBSET V |-> WeightOfIds(set, S)]
<1>1. /\ IsFiniteSet(V) /\ InputTotal \in Nat /\ InputTotal > 0 /\ set.total_weight = InputTotal
      /\ set.threshold = ThresholdOf(InputTotal) /\ WeightOfIds(set, V) = InputTotal
      /\ \A S \in SUBSET V : IsWeights(share, S) /\ WeightOfIds(set, S) = Sum(share, S)
  BY VotersWeigh
<1> HIDE DEF V, share
<1>2. ASSUME NEW S \in SUBSET V PROVE weight[S] = Sum(share, S) /\ weight[S] \in Nat
  BY <1>1, SumFacts
<1>3. weight[V] = InputTotal
  BY <1>1
<1>4. weight \in [SUBSET V -> Nat]
  <2>1. \A S \in SUBSET V : WeightOfIds(set, S) \in Nat
    BY <1>2
  <2> QED  BY <2>1
<1> HIDE DEF weight
<1>5. weight[{}] = 0
  BY <1>1, <1>2, SumFacts
<1>6. ASSUME NEW S \in SUBSET V, NEW T \in SUBSET V
      PROVE  weight[S \union T] + weight[S \intersect T] = weight[S] + weight[T]
  <2>1. S \union T \in SUBSET V /\ S \intersect T \in SUBSET V
    OBVIOUS
  <2>2. Sum(share, S \union T) + Sum(share, S \intersect T) = Sum(share, S) + Sum(share, T)
    BY <1>1, SumOfUnion
  <2> QED  BY <1>2, <2>1, <2>2
<1>7. set.threshold = weight[V] - (weight[V] - 1) \div 3
  BY <1>1, <1>3 DEF ThresholdOf, SatSub
<1> QED  BY <1>1, <1>3, <1>4, <1>5, <1>6, <1>7 DEF IsWeighed, V, weight

\* What every proof about rounds and voters assumes of its voter set holds of every set that
\* VoterSet::new makes.
THEOREM SetsAreWeighed == SetSpec => []WeighsVoters
  BY SetIsMade, SetIsWeighed, PTL

\* The list had no weight or too much, or this is a voter set as Round takes it.
MakesVoterSets == set # NoSet => IsVoterSet(set)

LEMMA SetIsVoterSet ==
    ASSUME SetInv
    PROVE  MakesVoterSets
<1> SUFFICES ASSUME set # NoSet PROVE IsVoterSet(set)
  BY DEF MakesVoterSets
<1> DEFINE ids == IdsIn(input, DOMAIN input)
           share == Shares(input)
<1>1. ~(InputTotal = 0 \/ InputTotal > MaxWeight) /\ InputTotal \in Nat
  BY SetFacts
<1>2. /\ set.total_weight = InputTotal /\ set.threshold = ThresholdOf(InputTotal)
      /\ ids \in SUBSET Nat /\ HasVoters(set, ids, share)
  BY <1>1, SetFacts
<1>3. set.total_weight = WeightOfIds(set, VoterIds(set)) /\ set.total_weight <= MaxWeight
  BY <1>1, <1>2, VotersWeigh, MaxWeightAssumption
<1>4. \A id \in ids : share[id] \in Nat \ {0}
  <2> TAKE id \in ids
  <2>1. /\ share[id] = Sum(GivenTo(input, id), DOMAIN input)
        /\ Sum(GivenTo(input, id), DOMAIN input) \in Nat /\ Sum(GivenTo(input, id), DOMAIN input) > 0
    BY ShareFacts DEF SetInv, Shares
  <2> QED  BY <2>1
<1> HIDE DEF ids, share
<1> QED  BY <1>2, <1>3, <1>4 DEF IsVoterSet, HasVoters

\* What Round assumes of its voters (RoundVotersAssumption) holds of every set that
\* VoterSet::new makes: its voters are in order and have weight, its total and threshold are theirs.
THEOREM SetsAreVoterSets == SetSpec => []MakesVoterSets
  BY SetIsMade, SetIsVoterSet, PTL

\* The arithmetic of the threshold: a total of 3f + 1, 3f + 2 or 3f + 3 leaves f.
LEMMA ThresholdArithmetic ==
    ASSUME NEW total \in Nat, total > 0
    PROVE  LET threshold == total - (total - 1) \div 3
               faulty    == total - threshold
           IN  /\ faulty \in Nat /\ threshold \in Nat
               /\ 3 * (faulty + 1) >= total /\ total > 3 * faulty
               /\ \A a, b, both, either \in Nat :
                      /\ a >= threshold /\ b >= threshold /\ either <= total /\ either + both = a + b
                      => both > faulty
  OBVIOUS

LEMMA SetIsTight ==
    ASSUME SetInv
    PROVE  ThresholdIsTight
<1> SUFFICES ASSUME set # NoSet
             PROVE  LET faulty == set.total_weight - set.threshold
                    IN  /\ \A S, T \in SUBSET VoterIds(set) :
                              WeightOfIds(set, S) >= set.threshold /\ WeightOfIds(set, T) >= set.threshold
                                  => WeightOfIds(set, S \intersect T) > faulty
                        /\ 3 * (faulty + 1) >= set.total_weight
  BY DEF ThresholdIsTight
<1> DEFINE V == VoterIds(set)
           share == Shares(input)
           total == set.total_weight
           faulty == total - set.threshold
<1>1. /\ total \in Nat /\ total > 0 /\ total = InputTotal /\ WeightOfIds(set, V) = total
      /\ \A S \in SUBSET V : IsWeights(share, S) /\ WeightOfIds(set, S) = Sum(share, S)
  BY VotersWeigh
<1>2. set.threshold = total - (total - 1) \div 3
  BY <1>1, VotersWeigh DEF ThresholdOf, SatSub
<1> HIDE DEF V, share, total
<1>3. 3 * (faulty + 1) >= total
  BY <1>1, <1>2, ThresholdArithmetic
<1>4. ASSUME NEW S \in SUBSET V, NEW T \in SUBSET V,
             WeightOfIds(set, S) >= set.threshold, WeightOfIds(set, T) >= set.threshold
      PROVE  WeightOfIds(set, S \intersect T) > faulty
  <2> DEFINE a == WeightOfIds(set, S)
             b == WeightOfIds(set, T)
             both == WeightOfIds(set, S \intersect T)
             either == WeightOfIds(set, S \union T)
  <2>1. S \union T \in SUBSET V /\ S \intersect T \in SUBSET V
    OBVIOUS
  <2>2. a \in Nat /\ b \in Nat /\ both \in Nat /\ either \in Nat
    BY <1>1, <2>1, SumFacts
  <2>3. either + both = a + b
    BY <1>1, <2>1, SumOfUnion
  <2>4. either <= total
    BY <1>1, <2>1, SumOfLess
  <2> HIDE DEF a, b, both, either
  <2>5. a >= total - (total - 1) \div 3 /\ b >= total - (total - 1) \div 3
    BY <1>2, <1>4 DEF a, b
  <2>6. both > total - (total - (total - 1) \div 3)
    BY <1>1, <2>2, <2>3, <2>4, <2>5, ThresholdArithmetic
  <2> QED  BY <1>2, <2>6 DEF both
<1> QED  BY <1>3, <1>4 DEF V, total

\* Two supermajorities of any set share more than may be faulty, and the rest of it is one.
THEOREM ThresholdStaysTight == SetSpec => []ThresholdIsTight
  BY SetIsMade, SetIsTight, PTL

-----------------------------------------------------------------------------
(* Bitfields as sets of positions *)

\* The bits that a word may have.
Word == SUBSET (0 .. WordBits - 1)

LEMMA WordFacts ==
    WordBits \in Nat \ {0} /\ WordBits \div 2 \in Nat /\ WordBits = 2 * (WordBits \div 2)
<1>1. PICK n \in 1 .. 32 : WordBits = 2 * n
  BY WordBitsAssumption
<1> QED  BY <1>1

LEMMA Division ==
    ASSUME NEW w \in Nat \ {0}, NEW p \in Nat
    PROVE  p \div w \in Nat /\ p % w \in 0 .. w - 1 /\ p = (p \div w) * w + (p % w)
OBVIOUS

\* A position is in one word, at one offset.
LEMMA OnePlace ==
    ASSUME NEW w \in Nat \ {0}, NEW i \in Nat, NEW j \in Nat, NEW a \in 0 .. w - 1, NEW b \in 0 .. w - 1,
           i * w + a = j * w + b
    PROVE  i = j /\ a = b
<1>1. ASSUME NEW k \in Nat, NEW l \in Nat, k < l PROVE k * w + w <= l * w
  <2>1. PICK d \in Nat : l = k + 1 + d
    <3>1. l - k - 1 \in Nat /\ l = k + 1 + (l - k - 1)
      BY <1>1
    <3> QED  BY <3>1
  <2>2. l * w = k * w + w + d * w /\ d * w \in Nat /\ k * w \in Nat
    BY <2>1
  <2> QED  BY <2>2
<1>2. i * w \in Nat /\ j * w \in Nat
  OBVIOUS
<1>3. ~(i < j)
  BY <1>1, <1>2
<1>4. ~(j < i)
  BY <1>1, <1>2
<1> QED  BY <1>2, <1>3, <1>4

\* Words begin at even positions.
LEMMA ParityOfOffset ==
    ASSUME NEW i \in Nat, NEW a \in 0 .. WordBits - 1
    PROVE  i * WordBits + a \in Nat /\ (i * WordBits + a) % 2 = a % 2
<1>1. PICK h \in Nat : WordBits = 2 * h
  BY WordFacts
<1>2. i * h \in Nat /\ i * WordBits = 2 * (i * h) /\ a \in Nat
  BY <1>1, WordFacts
<1>3. \A m \in Nat, x \in Nat : (2 * m + x) % 2 = x % 2
  OBVIOUS
<1> QED  BY <1>2, <1>3

\* A function on the numbers up to n is a sequence of that length.
LEMMA LenOf ==
    ASSUME NEW S, NEW n \in Nat, NEW f \in [1 .. n -> S]
    PROVE  f \in Seq(S) /\ Len(f) = n
<1>1. f \in Seq(S)
  OBVIOUS
<1> QED  BY <1>1, LenProperties

LEMMA PositionsFacts ==
    ASSUME NEW bits \in Seq(Word)
    PROVE  /\ DOMAIN bits = 1 .. Len(bits) /\ Len(bits) \in Nat
           /\ \A i \in 1 .. Len(bits) : bits[i] \in Word
           /\ Positions(bits) \in SUBSET Nat
           /\ \A p : p \in Positions(bits) <=>
                  \E i \in 1 .. Len(bits) : \E a \in bits[i] : p = (i - 1) * WordBits + a
<1>1. DOMAIN bits = 1 .. Len(bits) /\ Len(bits) \in Nat /\ \A i \in 1 .. Len(bits) : bits[i] \in Word
  BY LenProperties
<1>2. \A p : p \in Positions(bits) <=>
          \E i \in 1 .. Len(bits) : \E a \in bits[i] : p = (i - 1) * WordBits + a
  BY <1>1 DEF Positions
<1>3. ASSUME NEW i \in 1 .. Len(bits), NEW a \in bits[i] PROVE (i - 1) * WordBits + a \in Nat
  <2>1. i - 1 \in Nat /\ a \in 0 .. WordBits - 1
    BY <1>1 DEF Word
  <2> QED  BY <2>1, ParityOfOffset
<1> QED  BY <1>1, <1>2, <1>3

\* A longer bitfield has the words it had, and empty ones.
LEMMA ResizeFacts ==
    ASSUME NEW bits \in Seq(Word), NEW len \in Nat, len >= Len(bits)
    PROVE  /\ Resize(bits, len) \in Seq(Word) /\ Len(Resize(bits, len)) = len
           /\ \A i \in 1 .. len : Resize(bits, len)[i] = IF i <= Len(bits) THEN bits[i] ELSE {}
<1> DEFINE more == [i \in 1 .. (len - Len(bits)) |-> {}]
<1>1. Len(bits) \in Nat /\ len - Len(bits) \in Nat
  BY LenProperties
<1>2. more \in Seq(Word) /\ Len(more) = len - Len(bits) /\ \A i \in 1 .. (len - Len(bits)) : more[i] = {}
  <2>1. {} \in Word
    BY DEF Word
  <2>2. more \in [1 .. (len - Len(bits)) -> Word]
    BY <2>1
  <2>3. more \in Seq(Word)
    BY <1>1, <2>2
  <2>4. Len(more) = len - Len(bits)
    BY <1>1, <2>3
  <2> QED  BY <2>3, <2>4
<1>3. Resize(bits, len) = bits \o more
  BY DEF Resize
<1> HIDE DEF more
<1>4. /\ bits \o more \in Seq(Word) /\ Len(bits \o more) = Len(bits) + Len(more)
      /\ \A i \in 1 .. Len(bits) + Len(more) :
             (bits \o more)[i] = IF i <= Len(bits) THEN bits[i] ELSE more[i - Len(bits)]
  BY <1>2, ConcatProperties
<1>5. Len(bits) + Len(more) = len
  BY <1>1, <1>2
<1>6. ASSUME NEW i \in 1 .. len, ~(i <= Len(bits)) PROVE more[i - Len(bits)] = {}
  <2>1. i - Len(bits) \in 1 .. (len - Len(bits))
    BY <1>1, <1>6
  <2> QED  BY <1>2, <2>1
<1> QED  BY <1>3, <1>4, <1>5, <1>6

\* Words that are added to a bitfield, some of them empty.
LEMMA PositionsOfLonger ==
    ASSUME NEW bits \in Seq(Word), NEW more \in Seq(Word), Len(more) >= Len(bits),
           \A i \in 1 .. Len(more) : more[i] = IF i <= Len(bits) THEN bits[i] ELSE {}
    PROVE  Positions(more) = Positions(bits)
<1>1. Len(bits) \in Nat /\ Len(more) \in Nat
  BY LenProperties
<1>2. ASSUME NEW p PROVE p \in Positions(more) <=> p \in Positions(bits)
  <2>1. ASSUME NEW i \in 1 .. Len(more), NEW a \in more[i] PROVE i \in 1 .. Len(bits) /\ a \in bits[i]
    BY <1>1, <2>1
  <2>2. ASSUME NEW i \in 1 .. Len(bits), NEW a \in bits[i] PROVE i \in 1 .. Len(more) /\ a \in more[i]
    BY <1>1, <2>2
  <2> QED  BY <2>1, <2>2, PositionsFacts
<1> QED  BY <1>2

LEMMA SetBitFacts ==
    ASSUME NEW bits \in Seq(Word), NEW position \in Nat
    PROVE  SetBit(bits, position) \in Seq(Word) /\ Positions(SetBit(bits, position)) = Positions(bits) \union {position}
<1> DEFINE word == position \div WordBits
           off == position % WordBits
           resized == IF word >= Len(bits) THEN Resize(bits, word + 1) ELSE bits
           new == [resized EXCEPT ![word + 1] = resized[word + 1] \union {off}]
<1>1. word \in Nat /\ off \in 0 .. WordBits - 1 /\ position = word * WordBits + off /\ Len(bits) \in Nat
  BY WordFacts, Division, LenProperties
<1>2. SetBit(bits, position) = new
  BY DEF SetBit
<1> HIDE DEF word, off
<1>3. resized \in Seq(Word) /\ word + 1 \in 1 .. Len(resized) /\ Positions(resized) = Positions(bits)
  <2>1. CASE word >= Len(bits)
    <3>1. word + 1 \in Nat /\ word + 1 >= Len(bits)
      BY <1>1, <2>1
    <3>2. /\ resized = Resize(bits, word + 1) /\ resized \in Seq(Word) /\ Len(resized) = word + 1
          /\ \A i \in 1 .. Len(resized) : resized[i] = IF i <= Len(bits) THEN bits[i] ELSE {}
      BY <2>1, <3>1, ResizeFacts
    <3> HIDE DEF resized
    <3> QED  BY <1>1, <3>1, <3>2, PositionsOfLonger
  <2>2. CASE ~(word >= Len(bits))
    BY <1>1, <2>2
  <2> QED  BY <2>1, <2>2
<1> HIDE DEF resized
<1>4. Len(resized) \in Nat /\ DOMAIN resized = 1 .. Len(resized) /\ \A i \in 1 .. Len(resized) : resized[i] \in Word
  BY <1>3, LenProperties
<1>5. resized[word + 1] \union {off} \in Word
  BY <1>1, <1>3, <1>4 DEF Word
<1>6. new \in Seq(Word) /\ Len(new) = Len(resized)
      /\ \A i \in 1 .. Len(resized) : new[i] = IF i = word + 1 THEN resized[i] \union {off} ELSE resized[i]
  <2>1. new \in [1 .. Len(resized) -> Word]
    BY <1>4, <1>5
  <2>2. new \in Seq(Word)
    BY <1>4, <2>1
  <2>3. Len(new) = Len(resized)
    BY <1>4, <2>1, LenOf
  <2> QED  BY <1>3, <1>4, <2>2, <2>3
<1> HIDE DEF new
<1>7. ASSUME NEW p PROVE p \in Positions(new) <=> p \in Positions(resized) \/ p = position
  <2>1. ASSUME NEW i \in 1 .. Len(new), NEW a \in new[i], p = (i - 1) * WordBits + a
        PROVE  p \in Positions(resized) \/ p = position
    <3>1. CASE a \in resized[i]
      <4>1. i \in 1 .. Len(resized)
        BY <1>6
      <4>2. \E k \in 1 .. Len(resized) : \E b \in resized[k] : p = (k - 1) * WordBits + b
        BY <2>1, <3>1, <4>1
      <4> QED  BY <1>3, <4>2, PositionsFacts
    <3>2. CASE a \notin resized[i]
      <4>1. i \in 1 .. Len(resized)
        BY <1>6
      <4>2. i = word + 1 /\ a = off
        BY <1>6, <3>2, <4>1
      <4>3. i - 1 = word
        BY <1>1, <4>2
      <4> QED  BY <1>1, <2>1, <4>2, <4>3
    <3> QED  BY <3>1, <3>2
  <2>2. ASSUME NEW i \in 1 .. Len(resized), NEW a \in resized[i] PROVE i \in 1 .. Len(new) /\ a \in new[i]
    BY <1>6, <2>2
  <2>3. /\ word + 1 \in 1 .. Len(new) /\ off \in new[word + 1]
        /\ position = ((word + 1) - 1) * WordBits + off
    <3>1. (word + 1) - 1 = word
      BY <1>1
    <3> QED  BY <1>1, <1>3, <1>6, <3>1
  <2> QED  BY <1>3, <1>6, <2>1, <2>2, <2>3, PositionsFacts
<1> QED  BY <1>2, <1>3, <1>6, <1>7

\* Two bitfields word by word, the shorter one as if it had empty words.
LEMMA PositionsOfBoth ==
    ASSUME NEW bits \in Seq(Word), NEW other \in Seq(Word), NEW both \in Seq(Word),
           Len(both) >= Len(bits), Len(both) >= Len(other),
           \A i \in 1 .. Len(both) :
               both[i] = (IF i <= Len(bits) THEN bits[i] ELSE {}) \union (IF i <= Len(other) THEN other[i] ELSE {})
    PROVE  Positions(both) = Positions(bits) \union Positions(other)
<1>1. Len(bits) \in Nat /\ Len(other) \in Nat /\ Len(both) \in Nat
  BY LenProperties
<1>2. ASSUME NEW p PROVE p \in Positions(both) <=> p \in Positions(bits) \/ p \in Positions(other)
  <2>1. ASSUME NEW i \in 1 .. Len(both), NEW a \in both[i]
        PROVE  (i \in 1 .. Len(bits) /\ a \in bits[i]) \/ (i \in 1 .. Len(other) /\ a \in other[i])
    BY <1>1, <2>1
  <2>2. ASSUME NEW i \in 1 .. Len(bits), NEW a \in bits[i] PROVE i \in 1 .. Len(both) /\ a \in both[i]
    BY <1>1, <2>2
  <2>3. ASSUME NEW i \in 1 .. Len(other), NEW a \in other[i] PROVE i \in 1 .. Len(both) /\ a \in both[i]
    BY <1>1, <2>3
  <2>4. p \in Positions(both) => p \in Positions(bits) \/ p \in Positions(other)
    BY <2>1, PositionsFacts
  <2>5. p \in Positions(bits) => p \in Positions(both)
    BY <2>2, PositionsFacts
  <2>6. p \in Positions(other) => p \in Positions(both)
    BY <2>3, PositionsFacts
  <2> QED  BY <2>4, <2>5, <2>6
<1> QED  BY <1>2

LEMMA MergeFacts ==
    ASSUME NEW bits \in Seq(Word), NEW other \in Seq(Word)
    PROVE  Merge(bits, other) \in Seq(Word) /\ Positions(Merge(bits, other)) = Positions(bits) \union Positions(other)
<1> DEFINE resized == IF Len(bits) < Len(other) THEN Resize(bits, Len(other)) ELSE bits
           both == [i \in DOMAIN resized |-> IF i <= Len(other) THEN resized[i] \union other[i] ELSE resized[i]]
<1>1. /\ Len(bits) \in Nat /\ Len(other) \in Nat
      /\ DOMAIN bits = 1 .. Len(bits) /\ \A i \in 1 .. Len(bits) : bits[i] \in Word
      /\ DOMAIN other = 1 .. Len(other) /\ \A i \in 1 .. Len(other) : other[i] \in Word
  BY LenProperties
<1>2. /\ resized \in Seq(Word) /\ Len(resized) >= Len(bits) /\ Len(resized) >= Len(other)
      /\ \A i \in 1 .. Len(resized) : resized[i] = IF i <= Len(bits) THEN bits[i] ELSE {}
  <2>1. CASE Len(bits) < Len(other)
    <3>1. resized = Resize(bits, Len(other)) /\ Len(other) >= Len(bits)
      BY <1>1, <2>1
    <3> HIDE DEF resized
    <3> QED  BY <1>1, <2>1, <3>1, ResizeFacts
  <2>2. CASE ~(Len(bits) < Len(other))
    BY <1>1, <2>2
  <2> QED  BY <2>1, <2>2
<1>3. Merge(bits, other) = both
  BY DEF Merge
<1> HIDE DEF resized
<1>4. Len(resized) \in Nat /\ DOMAIN resized = 1 .. Len(resized) /\ \A i \in 1 .. Len(resized) : resized[i] \in Word
  BY <1>2, LenProperties
<1>5. both \in [1 .. Len(resized) -> Word]
  <2>1. ASSUME NEW i \in 1 .. Len(resized)
        PROVE  (IF i <= Len(other) THEN resized[i] \union other[i] ELSE resized[i]) \in Word
    BY <1>1, <1>4 DEF Word
  <2> QED  BY <1>4, <2>1
<1>6. both \in Seq(Word) /\ Len(both) = Len(resized)
  <2>1. both \in Seq(Word)
    BY <1>4, <1>5
  <2> QED  BY <1>4, <1>5, <2>1, LenOf
<1>7. \A i \in 1 .. Len(both) :
          both[i] = (IF i <= Len(bits) THEN bits[i] ELSE {}) \union (IF i <= Len(other) THEN other[i] ELSE {})
  BY <1>2, <1>4, <1>6
<1> HIDE DEF both
<1>8. Len(both) >= Len(bits) /\ Len(both) >= Len(other) /\ both \in Seq(Word)
  BY <1>2, <1>6
<1>9. Positions(both) = Positions(bits) \union Positions(other)
  BY <1>7, <1>8, PositionsOfBoth
<1> QED  BY <1>3, <1>8, <1>9

-----------------------------------------------------------------------------
(* The positions that an iterator yields *)

\* No element occurs twice.
OnceEach(s) == \A a, b \in DOMAIN s : s[a] = s[b] => a = b

\* Nor does it in sequences in a row that share none.
LEMMA RowIsOnceEach ==
    ASSUME NEW S, NEW n \in Nat, NEW seqs \in [1 .. n -> Seq(S)],
           \A i, k \in 1 .. n : \A j \in 1 .. Len(seqs[i]), l \in 1 .. Len(seqs[k]) :
               seqs[i][j] = seqs[k][l] => i = k /\ j = l
    PROVE  OnceEach(FlattenSeq(seqs))
<1> DEFINE flat == FlattenSeq(seqs)
<1>1. flat \in Seq(S) /\ DOMAIN flat = 1 .. Len(flat)
  BY FlattenFacts, LenProperties
<1>2. PICK off : InARow(seqs, n, flat, off)
  BY FlattenFacts
<1> HIDE DEF flat
<1>3. ASSUME NEW a \in 1 .. Len(flat), NEW b \in 1 .. Len(flat), flat[a] = flat[b] PROVE a = b
  <2>1. PICK i \in 1 .. n : \E j \in 1 .. Len(seqs[i]) : a = off[i] + j
    BY <1>2 DEF InARow
  <2>2. PICK j \in 1 .. Len(seqs[i]) : a = off[i] + j
    BY <2>1
  <2>3. PICK k \in 1 .. n : \E l \in 1 .. Len(seqs[k]) : b = off[k] + l
    BY <1>2 DEF InARow
  <2>4. PICK l \in 1 .. Len(seqs[k]) : b = off[k] + l
    BY <2>3
  <2>5. flat[off[i] + j] = seqs[i][j] /\ flat[off[k] + l] = seqs[k][l]
    BY <1>2 DEF InARow
  <2>6. i = k /\ j = l
    BY <1>3, <2>2, <2>4, <2>5
  <2> QED  BY <2>2, <2>4, <2>6
<1> QED  BY <1>1, <1>3 DEF OnceEach, flat

\* What a row of sequences of numbers has in it.
LEMMA NumbersInRow ==
    ASSUME NEW n \in Nat, NEW rows \in [1 .. n -> Seq(Nat)]
    PROVE  /\ FlattenSeq(rows) \in Seq(Nat)
           /\ \A x : x \in ToSet(FlattenSeq(rows)) <=> \E i \in 1 .. n : \E j \in 1 .. Len(rows[i]) : x = rows[i][j]
<1>1. ASSUME NEW S, rows \in [1 .. n -> Seq(S)]
      PROVE  /\ FlattenSeq(rows) \in Seq(S)
             /\ \A x : x \in ToSet(FlattenSeq(rows)) <=> \E i \in 1 .. n : \E j \in 1 .. Len(rows[i]) : x = rows[i][j]
  BY ONLY n \in Nat, rows \in [1 .. n -> Seq(S)], RowHas
<1> QED  BY <1>1

\* What a word yields: its bits of one parity.
LEMMA WordYields ==
    ASSUME NEW base \in Nat, NEW word \in Word, NEW start \in {0, 1}
    PROVE  LET bitPos(j) == start + 2 * (j - 1)
               row == FlattenSeq([j \in 1 .. (WordBits \div 2) |->
                                      IF bitPos(j) \in word THEN <<base * WordBits + bitPos(j)>> ELSE <<>>])
           IN  /\ row \in Seq(Nat) /\ OnceEach(row)
               /\ \A p : p \in ToSet(row) <=> \E a \in word : a % 2 = start /\ p = base * WordBits + a
<1> DEFINE h == WordBits \div 2
           bitPos(j) == start + 2 * (j - 1)
           seqs == [j \in 1 .. h |-> IF bitPos(j) \in word THEN <<base * WordBits + bitPos(j)>> ELSE <<>>]
           row == FlattenSeq(seqs)
<1>1. h \in Nat /\ WordBits = 2 * h /\ base * WordBits \in Nat /\ word \subseteq 0 .. WordBits - 1
  BY WordFacts DEF Word
<1> HIDE DEF h
<1>2. \A j \in 1 .. h : bitPos(j) \in 0 .. WordBits - 1 /\ bitPos(j) % 2 = start
  <2> TAKE j \in 1 .. h
  <2>1. PICK m \in Nat : j = m + 1 /\ m <= h - 1
    <3>1. j - 1 \in Nat /\ j = (j - 1) + 1 /\ j - 1 <= h - 1
      BY <1>1
    <3> QED  BY <3>1
  <2>2. bitPos(j) = 2 * m + start
    BY <2>1
  <2>3. \A k \in Nat, d \in {0, 1} : (2 * k + d) % 2 = d
    OBVIOUS
  <2> QED  BY <1>1, <2>1, <2>2, <2>3
<1>3. \A a \in 0 .. WordBits - 1 : a % 2 = start => \E j \in 1 .. h : a = bitPos(j)
  <2> TAKE a \in 0 .. WordBits - 1
  <2> HAVE a % 2 = start
  <2>1. a \div 2 \in Nat /\ a = 2 * (a \div 2) + start
    BY <1>1
  <2>2. a \div 2 + 1 \in 1 .. h /\ a = bitPos(a \div 2 + 1)
    BY <1>1, <2>1
  <2> QED  BY <2>2
<1>4. \A i, j \in 1 .. h : bitPos(i) = bitPos(j) => i = j
  BY <1>1
<1> HIDE DEF bitPos
<1>5. \A j \in 1 .. h : base * WordBits + bitPos(j) \in Nat
  BY <1>1, <1>2
<1>6. /\ seqs \in [1 .. h -> Seq(Nat)]
      /\ \A j \in 1 .. h : bitPos(j) \in word =>
             Len(seqs[j]) = 1 /\ seqs[j][1] = base * WordBits + bitPos(j)
      /\ \A j \in 1 .. h : bitPos(j) \notin word => Len(seqs[j]) = 0
  <2>1. \A j \in 1 .. h : seqs[j] = IF bitPos(j) \in word THEN <<base * WordBits + bitPos(j)>> ELSE <<>>
    OBVIOUS
  <2>2. \A x \in Nat : <<x>> \in Seq(Nat) /\ Len(<<x>>) = 1 /\ <<x>>[1] = x
    OBVIOUS
  <2>3. <<>> \in Seq(Nat) /\ Len(<<>>) = 0
    OBVIOUS
  <2>4. \A j \in 1 .. h : seqs[j] \in Seq(Nat)
    BY <1>5, <2>1, <2>2, <2>3
  <2>5. seqs \in [1 .. h -> Seq(Nat)]
    BY <2>4
  <2> QED  BY <1>5, <2>1, <2>2, <2>3, <2>5
<1> HIDE DEF seqs
<1>7. \A j \in 1 .. h : \A k \in 1 .. Len(seqs[j]) :
          k = 1 /\ bitPos(j) \in word /\ seqs[j][k] = base * WordBits + bitPos(j)
  <2> TAKE j \in 1 .. h
  <2>1. Len(seqs[j]) = 1 \/ Len(seqs[j]) = 0
    BY <1>6
  <2> TAKE k \in 1 .. Len(seqs[j])
  <2>2. Len(seqs[j]) # 0
    OBVIOUS
  <2>3. bitPos(j) \in word
    BY <1>6, <2>2
  <2>4. k \in 1 .. 1
    BY <2>1, <2>2
  <2> QED  BY <1>6, <2>3, <2>4
<1>8. \A i, k \in 1 .. h : \A j \in 1 .. Len(seqs[i]), l \in 1 .. Len(seqs[k]) :
          seqs[i][j] = seqs[k][l] => i = k /\ j = l
  <2> TAKE i, k \in 1 .. h
  <2> TAKE j \in 1 .. Len(seqs[i]), l \in 1 .. Len(seqs[k])
  <2> HAVE seqs[i][j] = seqs[k][l]
  <2>1. base * WordBits + bitPos(i) = base * WordBits + bitPos(k) /\ j = 1 /\ l = 1
    BY <1>7
  <2>2. bitPos(i) = bitPos(k)
    BY <1>1, <1>2, <2>1
  <2> QED  BY <1>4, <2>1, <2>2
<1>9. row \in Seq(Nat) /\ OnceEach(row)
  <2>1. seqs \in [1 .. h -> Seq(Nat)] /\ h \in Nat
    BY <1>1, <1>6
  <2>2. row \in Seq(Nat)
    BY <2>1, NumbersInRow
  <2>3. OnceEach(row)
    BY <1>8, <2>1, RowIsOnceEach
  <2> QED  BY <2>2, <2>3
<1>10. \A p : p \in ToSet(row) <=> \E j \in 1 .. h : \E k \in 1 .. Len(seqs[j]) : p = seqs[j][k]
  <2>1. seqs \in [1 .. h -> Seq(Nat)] /\ h \in Nat
    BY <1>1, <1>6
  <2> HIDE DEF row
  <2>2. \A x : x \in ToSet(FlattenSeq(seqs)) <=> \E i \in 1 .. h : \E j \in 1 .. Len(seqs[i]) : x = seqs[i][j]
    BY <2>1, NumbersInRow
  <2> QED  BY <2>2 DEF row
<1> HIDE DEF row
<1>11. ASSUME NEW p PROVE p \in ToSet(row) <=> \E a \in word : a % 2 = start /\ p = base * WordBits + a
  <2>1. ASSUME NEW j \in 1 .. h, NEW k \in 1 .. Len(seqs[j]), p = seqs[j][k]
        PROVE  \E a \in word : a % 2 = start /\ p = base * WordBits + a
    BY <1>2, <1>7, <2>1
  <2>2. ASSUME NEW a \in word, a % 2 = start, p = base * WordBits + a PROVE p \in ToSet(row)
    <3>1. PICK j \in 1 .. h : a = bitPos(j)
      BY <1>1, <1>3, <2>2
    <3>2. Len(seqs[j]) = 1 /\ p = seqs[j][1]
      BY <1>6, <2>2, <3>1
    <3>3. 1 \in 1 .. Len(seqs[j])
      BY <3>2
    <3> QED  BY <1>10, <3>2, <3>3
  <2> QED  BY <1>10, <2>1, <2>2
<1> QED  BY <1>9, <1>11 DEF row, seqs, bitPos, h

\* iter1s yields the positions of its parity, each once.
LEMMA Iter1sFacts ==
    ASSUME NEW words \in Seq(Word), NEW start \in {0, 1}
    PROVE  /\ Iter1s(words, start) \in Seq(Nat) /\ OnceEach(Iter1s(words, start))
           /\ ToSet(Iter1s(words, start)) = {p \in Positions(words) : p % 2 = start}
<1> DEFINE n == Len(words)
           bitPos(j) == start + 2 * (j - 1)
           bit(i, j) == IF bitPos(j) \in words[i] THEN <<(i - 1) * WordBits + bitPos(j)>> ELSE <<>>
           row(i) == FlattenSeq([j \in 1 .. (WordBits \div 2) |-> bit(i, j)])
           rows == [i \in 1 .. n |-> row(i)]
           all == FlattenSeq(rows)
<1>1. n \in Nat /\ DOMAIN words = 1 .. n /\ \A i \in 1 .. n : words[i] \in Word
  BY LenProperties
<1>2. Iter1s(words, start) = all
  <2>1. WordBits \div 2 - start \div 2 = WordBits \div 2
    <3>1. start \div 2 = 0
      OBVIOUS
    <3> QED  BY <3>1, WordFacts
  <2> QED  BY <1>1, <2>1 DEF Iter1s
<1>3. ASSUME NEW i \in 1 .. n
      PROVE  /\ row(i) \in Seq(Nat) /\ OnceEach(row(i))
             /\ \A p : p \in ToSet(row(i)) <=> \E a \in words[i] : a % 2 = start /\ p = (i - 1) * WordBits + a
  <2>1. i - 1 \in Nat /\ words[i] \in Word
    BY <1>1
  <2> QED  BY <2>1, WordYields
<1> HIDE DEF row
<1>4. rows \in [1 .. n -> Seq(Nat)] /\ \A i \in 1 .. n : rows[i] = row(i)
  BY <1>3
<1> HIDE DEF rows
<1>5. \A i \in 1 .. n : DOMAIN row(i) = 1 .. Len(row(i))
  BY <1>3, LenProperties
<1>6. \A i \in 1 .. n : \A j \in 1 .. Len(rows[i]) :
          \E a \in words[i] : a % 2 = start /\ rows[i][j] = (i - 1) * WordBits + a
  <2> TAKE i \in 1 .. n
  <2> TAKE j \in 1 .. Len(rows[i])
  <2>1. rows[i][j] \in ToSet(row(i))
    BY <1>4, <1>5 DEF ToSet
  <2> QED  BY <1>3, <2>1
<1>7. \A i, k \in 1 .. n : \A j \in 1 .. Len(rows[i]), l \in 1 .. Len(rows[k]) :
          rows[i][j] = rows[k][l] => i = k /\ j = l
  <2> TAKE i, k \in 1 .. n
  <2> TAKE j \in 1 .. Len(rows[i]), l \in 1 .. Len(rows[k])
  <2> HAVE rows[i][j] = rows[k][l]
  <2>1. PICK a \in words[i] : rows[i][j] = (i - 1) * WordBits + a
    BY <1>6
  <2>2. PICK b \in words[k] : rows[k][l] = (k - 1) * WordBits + b
    BY <1>6
  <2>3. a \in 0 .. WordBits - 1 /\ b \in 0 .. WordBits - 1 /\ i - 1 \in Nat /\ k - 1 \in Nat
    BY <1>1 DEF Word
  <2>4. (i - 1) * WordBits + a = (k - 1) * WordBits + b
    BY <2>1, <2>2
  <2>5. i - 1 = k - 1
    BY <2>3, <2>4, WordFacts, OnePlace
  <2>6. i = k
    BY <2>5
  <2>7. j \in DOMAIN row(i) /\ l \in DOMAIN row(i) /\ row(i)[j] = row(i)[l]
    BY <1>4, <1>5, <2>6
  <2>8. j = l
    BY <1>3, <2>7 DEF OnceEach
  <2> QED  BY <2>6, <2>8
<1>8. all \in Seq(Nat) /\ OnceEach(all)
  <2>1. rows \in [1 .. n -> Seq(Nat)] /\ n \in Nat
    BY <1>1, <1>4
  <2>2. all \in Seq(Nat)
    BY <2>1, NumbersInRow
  <2>3. OnceEach(all)
    BY <1>7, <2>1, RowIsOnceEach
  <2> QED  BY <2>2, <2>3
<1>9. \A p : p \in ToSet(all) <=> \E i \in 1 .. n : \E j \in 1 .. Len(rows[i]) : p = rows[i][j]
  <2>1. rows \in [1 .. n -> Seq(Nat)] /\ n \in Nat
    BY <1>1, <1>4
  <2> HIDE DEF all
  <2>2. \A x : x \in ToSet(FlattenSeq(rows)) <=> \E i \in 1 .. n : \E j \in 1 .. Len(rows[i]) : x = rows[i][j]
    BY <2>1, NumbersInRow
  <2> QED  BY <2>2 DEF all
<1> HIDE DEF all
<1>10. \A p : p \in Positions(words) <=> \E i \in 1 .. n : \E a \in words[i] : p = (i - 1) * WordBits + a
  BY PositionsFacts
<1>11. \A i \in 1 .. n : \A a \in words[i] : ((i - 1) * WordBits + a) % 2 = a % 2
  <2> TAKE i \in 1 .. n
  <2> TAKE a \in words[i]
  <2>1. i - 1 \in Nat /\ a \in 0 .. WordBits - 1
    BY <1>1 DEF Word
  <2> QED  BY <2>1, ParityOfOffset
<1>12. ASSUME NEW p PROVE p \in ToSet(all) <=> p \in Positions(words) /\ p % 2 = start
  <2>1. ASSUME p \in ToSet(all) PROVE p \in Positions(words) /\ p % 2 = start
    <3>1. PICK i \in 1 .. n : \E j \in 1 .. Len(rows[i]) : p = rows[i][j]
      BY <1>9, <2>1
    <3>2. PICK j \in 1 .. Len(rows[i]) : p = rows[i][j]
      BY <3>1
    <3>3. PICK a \in words[i] : a % 2 = start /\ p = (i - 1) * WordBits + a
      BY <1>6, <3>2
    <3> QED  BY <1>10, <1>11, <3>3
  <2>2. ASSUME p \in Positions(words), p % 2 = start PROVE p \in ToSet(all)
    <3>1. PICK i \in 1 .. n : \E a \in words[i] : p = (i - 1) * WordBits + a
      BY <1>10, <2>2
    <3>2. PICK a \in words[i] : p = (i - 1) * WordBits + a
      BY <3>1
    <3>3. a % 2 = start
      BY <1>11, <2>2, <3>2
    <3>4. p \in ToSet(row(i))
      BY <1>3, <3>2, <3>3
    <3>5. PICK j \in DOMAIN row(i) : p = row(i)[j]
      BY <3>4 DEF ToSet
    <3>6. j \in 1 .. Len(rows[i]) /\ p = rows[i][j]
      BY <1>4, <1>5, <3>5
    <3> QED  BY <1>9, <3>6
  <2> QED  BY <2>1, <2>2
<1> QED  BY <1>2, <1>8, <1>12 DEF all

\* iter1s_merged yields those of both bitfields, each once.
LEMMA Iter1sMergedFacts ==
    ASSUME NEW bits \in Seq(Word), NEW other \in Seq(Word), NEW start \in {0, 1}
    PROVE  /\ Iter1sMerged(bits, other, start) \in Seq(Nat) /\ OnceEach(Iter1sMerged(bits, other, start))
           /\ ToSet(Iter1sMerged(bits, other, start)) =
                  {p \in Positions(bits) \union Positions(other) : p % 2 = start}
<1> DEFINE word(b, i) == IF i <= Len(b) THEN b[i] ELSE {}
           len == IF Len(bits) < Len(other) THEN Len(other) ELSE Len(bits)
           both == [i \in 1 .. len |-> word(bits, i) \union word(other, i)]
<1>1. /\ Len(bits) \in Nat /\ Len(other) \in Nat
      /\ \A i \in 1 .. Len(bits) : bits[i] \in Word
      /\ \A i \in 1 .. Len(other) : other[i] \in Word
  BY LenProperties
<1>2. len \in Nat /\ len >= Len(bits) /\ len >= Len(other)
  BY <1>1
<1>3. Iter1sMerged(bits, other, start) = Iter1s(both, start)
  BY DEF Iter1sMerged
<1> HIDE DEF len
<1>4. \A i \in 1 .. len : word(bits, i) \in Word /\ word(other, i) \in Word
  <2> TAKE i \in 1 .. len
  <2>1. {} \in Word
    BY DEF Word
  <2>2. i <= Len(bits) => i \in 1 .. Len(bits)
    BY <1>1, <1>2
  <2>3. i <= Len(other) => i \in 1 .. Len(other)
    BY <1>1, <1>2
  <2> QED  BY <1>1, <2>1, <2>2, <2>3
<1>5. both \in [1 .. len -> Word]
  <2> HIDE DEF word
  <2>1. \A i \in 1 .. len : word(bits, i) \union word(other, i) \in Word
    BY <1>4 DEF Word
  <2> QED  BY <2>1
<1>6. both \in Seq(Word) /\ Len(both) = len
  <2> HIDE DEF both
  <2> QED  BY <1>2, <1>5, LenOf
<1>7. \A i \in 1 .. Len(both) :
          both[i] = (IF i <= Len(bits) THEN bits[i] ELSE {}) \union (IF i <= Len(other) THEN other[i] ELSE {})
  BY <1>6
<1> HIDE DEF both
<1>8. Positions(both) = Positions(bits) \union Positions(other)
  BY <1>2, <1>6, <1>7, PositionsOfBoth
<1> QED  BY <1>3, <1>6, <1>8, Iter1sFacts

-----------------------------------------------------------------------------
(* What bitfields weigh *)

\* The loop over the bits adds up, with saturation, the weights of those that are votes.
LEMMA BitsAddUp ==
    ASSUME NEW vs, NEW bits \in Seq(Nat), NEW w,
           IsWeights(w, 1 .. Len(bits)),
           \A i \in 1 .. Len(bits) :
               w[i] = IF IsVoteOf(vs, bits[i]) THEN VoterOfBit(vs, bits[i]).weight ELSE 0
    PROVE  WeightOfBits(vs, bits) = Capped(Sum(w, 1 .. Len(bits)))
<1> DEFINE n == Len(bits)
           S == 1 .. n
           Step(f, s) == IF s = {} THEN 0
                         ELSE IF IsVoteOf(vs, bits[Max(s)])
                              THEN SatAdd(f[s \ {Max(s)}], VoterOfBit(vs, bits[Max(s)]).weight)
                              ELSE f[s \ {Max(s)}]
           iter[s \in SUBSET S] == IF s = {} THEN 0
                                   ELSE IF IsVoteOf(vs, bits[Max(s)])
                                        THEN SatAdd(iter[s \ {Max(s)}], VoterOfBit(vs, bits[Max(s)]).weight)
                                        ELSE iter[s \ {Max(s)}]
           F == [s \in SUBSET S |-> Capped(Sum(w, s))]
           Good == {s \in SUBSET S : iter[s] = F[s]}
<1>1. n \in Nat /\ DOMAIN bits = S
  BY LenProperties
<1>2. WeightOfBits(vs, bits) = iter[S]
  BY <1>1 DEF WeightOfBits, FoldLeft, MapThenFoldSet
<1>3. iter = CHOOSE f : f = [s \in SUBSET S |-> Step(f, s)]
  OBVIOUS
<1> HIDE DEF iter, n
<1>4. ASSUME NEW s \in SUBSET S PROVE IsWeights(w, s) /\ Sum(w, s) \in Nat
  <2>1. IsWeights(w, s)
    BY FS_Subset DEF IsWeights, n
  <2> QED  BY <2>1, SumFacts
<1>5. ASSUME NEW s \in SUBSET S, s # {} PROVE Max(s) \in s
  BY <1>1, <1>5, GreatestOf
<1>6. ASSUME NEW s \in SUBSET S PROVE F[s] = Step(F, s)
  <2>1. CASE s = {}
    <3>1. Sum(w, s) = 0
      BY <1>4, <2>1, SumFacts
    <3> QED  BY <2>1, <3>1, MaxWeightAssumption DEF Capped
  <2>2. CASE s # {}
    <3> DEFINE m == Max(s)
               r == s \ {m}
    <3>1. m \in s
      BY <1>5, <2>2
    <3> HIDE DEF m
    <3>2. Sum(w, s) = w[m] + Sum(w, r) /\ Sum(w, r) \in Nat /\ w[m] \in Nat /\ r \in SUBSET S
      BY <1>4, <3>1, SumFacts DEF IsWeights
    <3>3. w[m] = IF IsVoteOf(vs, bits[m]) THEN VoterOfBit(vs, bits[m]).weight ELSE 0
      BY <3>1 DEF n
    <3>4. Capped(Sum(w, s)) = SatAdd(Capped(Sum(w, r)), w[m])
      BY <3>2, MaxWeightAssumption DEF Capped, SatAdd
    <3>5. SatAdd(Capped(Sum(w, r)), 0) = Capped(Sum(w, r))
      BY <3>2, MaxWeightAssumption DEF Capped, SatAdd
    <3>6. Capped(Sum(w, s)) = IF IsVoteOf(vs, bits[m])
                              THEN SatAdd(Capped(Sum(w, r)), VoterOfBit(vs, bits[m]).weight)
                              ELSE Capped(Sum(w, r))
      BY <3>3, <3>4, <3>5
    <3> QED  BY <2>2, <3>2, <3>6 DEF m
  <2> QED  BY <2>1, <2>2
<1>7. iter = [s \in SUBSET S |-> Step(iter, s)]
  <2>1. F = [s \in SUBSET S |-> Step(F, s)]
    BY <1>6
  <2> HIDE DEF Step, F
  <2> QED  BY <1>3, <2>1
<1> HIDE DEF F
<1>8. {} \in Good
  BY <1>6, <1>7
<1>9. ASSUME NEW s \in SUBSET S, s # {}, \A j \in s : s \ {j} \in Good PROVE s \in Good
  <2>1. Max(s) \in s
    BY <1>5, <1>9
  <2>2. iter[s \ {Max(s)}] = F[s \ {Max(s)}]
    BY <1>9, <2>1
  <2>3. iter[s] = Step(iter, s) /\ F[s] = Step(F, s)
    BY <1>6, <1>7
  <2> QED  BY <2>2, <2>3
<1>10. S \in Good
  <2> HIDE DEF Good
  <2>1. IsFiniteSet(S)
    BY DEF IsWeights, n
  <2> QED  BY <1>8, <1>9, <2>1, SubsetInduction
<1> QED  BY <1>2, <1>10 DEF F, n

\* Bits that are yielded once each weigh what the voters weigh that they belong to.
LEMMA BitsWeigh ==
    ASSUME NEW vs, IsVoterSet(vs), NEW phase \in Phase, NEW positions \in SUBSET Nat,
           NEW bits \in Seq(Nat), OnceEach(bits),
           ToSet(bits) = {p \in positions : p % 2 = Parity(phase)}
    PROVE  WeightOfBits(vs, bits) = WeightOfIds(vs, VotersWith(vs, positions, phase))
<1> DEFINE S == 1 .. Len(bits)
           votes == {i \in S : IsVoteOf(vs, bits[i])}
           ids == VotersWith(vs, positions, phase)
           w == [i \in S |-> IF IsVoteOf(vs, bits[i]) THEN VoterOfBit(vs, bits[i]).weight ELSE 0]
           f == [i \in votes |-> VoterOfBit(vs, bits[i]).id]
<1>1. Len(bits) \in Nat /\ DOMAIN bits = S /\ \A i \in S : bits[i] \in Nat
  BY LenProperties
<1>2. \A i \in S : bits[i] \in positions /\ bits[i] % 2 = Parity(phase)
  <2> TAKE i \in S
  <2>1. bits[i] \in ToSet(bits)
    BY <1>1 DEF ToSet
  <2> QED  BY <2>1
<1>3. \A p \in positions : p % 2 = Parity(phase) => \E i \in S : bits[i] = p
  <2> TAKE p \in positions
  <2> HAVE p % 2 = Parity(phase)
  <2>1. p \in ToSet(bits)
    OBVIOUS
  <2> QED  BY <1>1, <2>1 DEF ToSet
<1>4. \A i, j \in S : bits[i] = bits[j] => i = j
  BY <1>1 DEF OnceEach
<1> HIDE DEF S
<1>5. \A i \in votes : /\ bits[i] = VoteBit(vs, f[i], phase) /\ f[i] \in VoterIds(vs)
                       /\ VoterOfBit(vs, bits[i]).weight = WeightOfVoter(vs, f[i])
  <2> TAKE i \in votes
  <2>1. bits[i] \in AllBits(vs) /\ bits[i] % 2 = Parity(phase) /\ f[i] = VoterOfBit(vs, bits[i]).id
    BY <1>1, <1>2, BitFacts
  <2> HIDE DEF f
  <2>2. f[i] \in VoterIds(vs) /\ bits[i] = VoteBit(vs, f[i], phase)
    BY <2>1, BitFacts
  <2>3. VoterOfBit(vs, VoteBit(vs, f[i], phase)).weight = WeightOfVoter(vs, f[i])
    BY <2>2, BitFacts
  <2> QED  BY <2>2, <2>3
<1>6. ids \in SUBSET VoterIds(vs)
  BY DEF VotersWith
<1>7. f \in [votes -> ids] /\ \A i, j \in votes : f[i] = f[j] => i = j
  <2>1. \A i \in votes : f[i] \in ids
    BY <1>2, <1>5 DEF VotersWith
  <2>2. \A i, j \in votes : f[i] = f[j] => i = j
    BY <1>4, <1>5
  <2> QED  BY <2>1, <2>2
<1>8. \A id \in ids : \E i \in votes : f[i] = id
  <2> TAKE id \in ids
  <2> DEFINE p == VoteBit(vs, id, phase)
  <2>1. id \in VoterIds(vs) /\ p \in positions
    BY DEF VotersWith
  <2>2. p \in AllBits(vs) /\ p % 2 = Parity(phase) /\ VoterOfBit(vs, p).id = id
    BY <2>1, BitFacts
  <2> HIDE DEF p
  <2>3. IsVoteOf(vs, p)
    BY <2>1, <2>2, BitFacts
  <2>4. PICK i \in S : bits[i] = p
    BY <1>3, <2>1, <2>2
  <2> QED  BY <2>2, <2>3, <2>4
<1> HIDE DEF ids
<1>9. /\ IsWeights(WeightsOf(vs), ids) /\ WeightOfIds(vs, ids) = Sum(WeightsOf(vs), ids)
      /\ WeightOfIds(vs, ids) \in Nat /\ WeightOfIds(vs, ids) <= MaxWeight
      /\ \A id \in VoterIds(vs) : WeightOfVoter(vs, id) \in Nat
  <2>1. /\ IsWeights(WeightsOf(vs), ids) /\ WeightOfIds(vs, ids) = Sum(WeightsOf(vs), ids)
        /\ WeightOfIds(vs, ids) \in Nat /\ WeightOfIds(vs, ids) <= vs.total_weight
        /\ vs.total_weight \in Nat \ {0} /\ vs.total_weight <= MaxWeight
        /\ \A id \in VoterIds(vs) : WeightOfVoter(vs, id) \in Nat \ {0}
    BY <1>6, WeightFacts
  <2> QED  BY <2>1, MaxWeightAssumption
<1>10. IsWeights(w, S)
  <2>1. IsFiniteSet(S)
    BY <1>1, FS_Interval DEF S
  <2>2. \A i \in S : w[i] \in Nat
    BY <1>5, <1>9
  <2> QED  BY <2>1, <2>2 DEF IsWeights
<1>11. \A i \in votes : WeightsOf(vs)[f[i]] = w[i]
  BY <1>5 DEF WeightsOf
<1>12. \A i \in S : w[i] = IF IsVoteOf(vs, bits[i]) THEN VoterOfBit(vs, bits[i]).weight ELSE 0
  OBVIOUS
<1>13. \A i \in S \ votes : ~(w[i] > 0)
  OBVIOUS
<1>14. votes \in SUBSET S
  OBVIOUS
<1> HIDE DEF w, f, votes
<1>15. IsWeights(w, votes) /\ IsWeights(w, S \ votes)
  BY <1>10, <1>14, SumOfLess
<1>16. Sum(WeightsOf(vs), ids) = Sum(w, votes)
  BY <1>7, <1>8, <1>11, <1>15, SumOfRenamed
<1>17. Sum(w, S) = Sum(w, votes)
  <2>1. Sum(w, S \ votes) = 0
    <3>1. ~(Sum(w, S \ votes) > 0)
      BY <1>13, <1>15, SumIsPositive
    <3>2. Sum(w, S \ votes) \in Nat
      BY <1>15, SumFacts
    <3> QED  BY <3>1, <3>2
  <2>2. Sum(w, votes \union (S \ votes)) + Sum(w, votes \intersect (S \ votes)) = Sum(w, votes) + Sum(w, S \ votes)
    BY <1>15, SumOfUnion
  <2>3. votes \union (S \ votes) = S /\ votes \intersect (S \ votes) = {}
    BY <1>14
  <2>4. Sum(w, {}) = 0
    <3>1. IsWeights(w, {})
      BY FS_EmptySet DEF IsWeights
    <3> QED  BY <3>1, SumFacts
  <2>5. Sum(w, S) \in Nat /\ Sum(w, votes) \in Nat
    BY <1>10, <1>15, SumFacts
  <2>6. Sum(w, S) + Sum(w, {}) = Sum(w, votes) + Sum(w, S \ votes)
    BY <2>2, <2>3
  <2> QED  BY <2>1, <2>4, <2>5, <2>6
<1>18. WeightOfBits(vs, bits) = Capped(Sum(w, S))
  BY <1>10, <1>12, BitsAddUp DEF S
<1>19. Sum(w, S) = WeightOfIds(vs, ids)
  BY <1>9, <1>16, <1>17
<1>20. Capped(Sum(w, S)) = WeightOfIds(vs, ids)
  BY <1>9, <1>19, MaxWeightAssumption DEF Capped
<1> QED  BY <1>18, <1>20 DEF ids

\* Context::weight and equivocation_weight on bitfields of whatever lengths.
LEMMA BitfieldsWeigh ==
    ASSUME NEW vs, IsVoterSet(vs), NEW equivs \in Seq(Word), NEW node \in Seq(Word), NEW phase \in Phase
    PROVE  /\ EquivocationWeight(vs, equivs, phase) = WeightOfIds(vs, VotersWith(vs, Positions(equivs), phase))
           /\ ContextWeight(vs, equivs, node, phase) =
                  WeightOfIds(vs, VotersWith(vs, Positions(node) \union Positions(equivs), phase))
<1>1. Parity(phase) \in {0, 1}
  BY DEF Parity
<1>2. Positions(equivs) \in SUBSET Nat /\ Positions(node) \in SUBSET Nat
  BY PositionsFacts
<1>3. EquivocationWeight(vs, equivs, phase) = WeightOfIds(vs, VotersWith(vs, Positions(equivs), phase))
  <2> DEFINE bits == Iter1s(equivs, Parity(phase))
  <2>1. /\ bits \in Seq(Nat) /\ OnceEach(bits)
        /\ ToSet(bits) = {p \in Positions(equivs) : p % 2 = Parity(phase)}
    BY <1>1, Iter1sFacts
  <2> HIDE DEF bits
  <2>2. WeightOfBits(vs, bits) = WeightOfIds(vs, VotersWith(vs, Positions(equivs), phase))
    BY <1>2, <2>1, BitsWeigh
  <2> QED  BY <2>2 DEF EquivocationWeight, bits
<1>4. CASE IsBlank(equivs)
  <2> DEFINE bits == Iter1s(node, Parity(phase))
  <2>1. /\ bits \in Seq(Nat) /\ OnceEach(bits)
        /\ ToSet(bits) = {p \in Positions(node) : p % 2 = Parity(phase)}
    BY <1>1, Iter1sFacts
  <2> HIDE DEF bits
  <2>2. WeightOfBits(vs, bits) = WeightOfIds(vs, VotersWith(vs, Positions(node), phase))
    BY <1>2, <2>1, BitsWeigh
  <2>3. Positions(equivs) = {}
    BY <1>4 DEF IsBlank, Positions
  <2>4. Positions(node) \union Positions(equivs) = Positions(node)
    BY <2>3
  <2> QED  BY <1>3, <1>4, <2>2, <2>4 DEF ContextWeight, bits
<1>5. CASE ~IsBlank(equivs)
  <2> DEFINE bits == Iter1sMerged(node, equivs, Parity(phase))
             both == Positions(node) \union Positions(equivs)
  <2>1. /\ bits \in Seq(Nat) /\ OnceEach(bits)
        /\ ToSet(bits) = {p \in both : p % 2 = Parity(phase)}
    BY <1>1, Iter1sMergedFacts
  <2>2. both \in SUBSET Nat
    BY <1>2
  <2> HIDE DEF bits, both
  <2>3. WeightOfBits(vs, bits) = WeightOfIds(vs, VotersWith(vs, both, phase))
    BY <2>1, <2>2, BitsWeigh
  <2> QED  BY <1>3, <1>5, <2>3 DEF ContextWeight, bits, both
<1> QED  BY <1>4, <1>5

-----------------------------------------------------------------------------
(* The votes in bitfields *)

\* The bits of votes, which are pairs of an id and a phase.
BitsOf(vs, votes) == {VoteBit(vs, v[1], v[2]) : v \in votes}

\* A bitfield with exactly the bits of these votes.
HasBits(vs, bits, votes) ==
    /\ bits \in Seq(Word)
    /\ votes \in SUBSET (VoterIds(vs) \X Phase)
    /\ Positions(bits) = BitsOf(vs, votes)

\* Different votes have different bits.
LEMMA VotersOfBits ==
    ASSUME NEW vs, IsVoterSet(vs), NEW votes \in SUBSET (VoterIds(vs) \X Phase), NEW phase \in Phase
    PROVE  VotersWith(vs, BitsOf(vs, votes), phase) = {id \in VoterIds(vs) : <<id, phase>> \in votes}
<1>1. ASSUME NEW id \in VoterIds(vs), VoteBit(vs, id, phase) \in BitsOf(vs, votes) PROVE <<id, phase>> \in votes
  <2>1. PICK v \in votes : VoteBit(vs, id, phase) = VoteBit(vs, v[1], v[2])
    BY <1>1 DEF BitsOf
  <2>2. v = <<v[1], v[2]>> /\ v[1] \in VoterIds(vs) /\ v[2] \in Phase
    OBVIOUS
  <2>3. v[1] = id /\ Parity(v[2]) = Parity(phase)
    BY <2>1, <2>2, BitFacts
  <2>4. v[2] = phase
    BY <2>2, <2>3 DEF Parity, Phase
  <2> QED  BY <2>2, <2>3, <2>4
<1>2. ASSUME NEW id \in VoterIds(vs), <<id, phase>> \in votes PROVE VoteBit(vs, id, phase) \in BitsOf(vs, votes)
  BY <1>2 DEF BitsOf
<1> QED  BY <1>1, <1>2 DEF VotersWith

LEMMA EmptyHasBits == ASSUME NEW vs PROVE HasBits(vs, <<>>, {})
<1>1. <<>> \in Seq(Word)
  OBVIOUS
<1>2. Positions(<<>>) = {}
  BY DEF Positions
<1> QED  BY <1>1, <1>2 DEF HasBits, BitsOf

LEMMA SetBitHasBits ==
    ASSUME NEW vs, IsVoterSet(vs), NEW bits, NEW votes, HasBits(vs, bits, votes),
           NEW id \in VoterIds(vs), NEW phase \in Phase
    PROVE  HasBits(vs, SetBit(bits, VoteBit(vs, id, phase)), votes \union {<<id, phase>>})
<1> DEFINE p == VoteBit(vs, id, phase)
<1>1. p \in Nat
  <2>1. p \in AllBits(vs)
    BY BitFacts
  <2> QED  BY <2>1 DEF AllBits
<1>2. bits \in Seq(Word) /\ votes \in SUBSET (VoterIds(vs) \X Phase) /\ Positions(bits) = BitsOf(vs, votes)
  BY DEF HasBits
<1>3. BitsOf(vs, votes \union {<<id, phase>>}) = BitsOf(vs, votes) \union {p}
  <2>1. BitsOf(vs, {<<id, phase>>}) = {p}
    <3>1. <<id, phase>>[1] = id /\ <<id, phase>>[2] = phase
      OBVIOUS
    <3> QED  BY <3>1 DEF BitsOf
  <2>2. \A more : BitsOf(vs, votes \union more) = BitsOf(vs, votes) \union BitsOf(vs, more)
    BY DEF BitsOf
  <2> HIDE DEF p
  <2> QED  BY <2>1, <2>2
<1> HIDE DEF p
<1>4. SetBit(bits, p) \in Seq(Word) /\ Positions(SetBit(bits, p)) = Positions(bits) \union {p}
  BY <1>1, <1>2, SetBitFacts
<1>5. votes \union {<<id, phase>>} \in SUBSET (VoterIds(vs) \X Phase)
  BY <1>2
<1> QED  BY <1>2, <1>3, <1>4, <1>5 DEF HasBits, p

LEMMA MergeHasBits ==
    ASSUME NEW vs, NEW bits, NEW votes, HasBits(vs, bits, votes), NEW others, NEW more, HasBits(vs, others, more)
    PROVE  HasBits(vs, Merge(bits, others), votes \union more)
<1>1. /\ bits \in Seq(Word) /\ votes \in SUBSET (VoterIds(vs) \X Phase) /\ Positions(bits) = BitsOf(vs, votes)
      /\ others \in Seq(Word) /\ more \in SUBSET (VoterIds(vs) \X Phase) /\ Positions(others) = BitsOf(vs, more)
  BY DEF HasBits
<1>2. BitsOf(vs, votes \union more) = BitsOf(vs, votes) \union BitsOf(vs, more)
  BY DEF BitsOf
<1>3. Merge(bits, others) \in Seq(Word) /\ Positions(Merge(bits, others)) = Positions(bits) \union Positions(others)
  BY <1>1, MergeFacts
<1> QED  BY <1>1, <1>2, <1>3 DEF HasBits

\* Bitfields and histories agree, and there is nothing in them before there is a set.
CtxInv ==
    /\ SetInv
    /\ nodes \in [Node -> Seq(Word)] /\ DOMAIN voted = Node
    /\ HasBits(set, equivocations, marked)
    /\ \A n \in Node : HasBits(set, nodes[n], voted[n])
    /\ set = NoSet =>
           /\ equivocations = <<>> /\ marked = {}
           /\ \A n \in Node : nodes[n] = <<>> /\ voted[n] = {}

\* A vote, a node or an equivocation is added, for a set that is one.
LEMMA VotesKeepBits ==
    ASSUME CtxInv, set # NoSet, UNCHANGED setVars,
           \/ \E n \in Node, id \in Id, phase \in Phase : AddVoteTo(n, id, phase)
           \/ \E n, m \in Node : AddNode(n, m)
           \/ \E id \in Id, phase \in Phase : Equivocated(id, phase)
    PROVE  CtxInv'
<1>1. /\ SetInv /\ nodes \in [Node -> Seq(Word)] /\ DOMAIN voted = Node
      /\ HasBits(set, equivocations, marked) /\ \A n \in Node : HasBits(set, nodes[n], voted[n])
  BY DEF CtxInv
<1>2. IsVoterSet(set)
  BY <1>1, SetIsVoterSet DEF MakesVoterSets
<1>3. set' = set /\ input' = input /\ SetInv'
  BY <1>1 DEF setVars, SetInv
<1>4. ASSUME NEW n \in Node, NEW id \in Id, NEW phase \in Phase, AddVoteTo(n, id, phase) PROVE CtxInv'
  <2>1. /\ id \in VoterIds(set)
        /\ nodes' = [nodes EXCEPT ![n] = SetBit(nodes[n], VoteBit(set, id, phase))]
        /\ voted' = [voted EXCEPT ![n] = voted[n] \union {<<id, phase>>}]
        /\ equivocations' = equivocations /\ marked' = marked
    BY <1>4 DEF AddVoteTo
  <2>2. HasBits(set, SetBit(nodes[n], VoteBit(set, id, phase)), voted[n] \union {<<id, phase>>})
    BY <1>1, <1>2, <2>1, SetBitHasBits
  <2>3. SetBit(nodes[n], VoteBit(set, id, phase)) \in Seq(Word)
    BY <2>2 DEF HasBits
  <2>4. nodes' \in [Node -> Seq(Word)] /\ DOMAIN voted' = Node
    BY <1>1, <2>1, <2>3
  <2>5. \A k \in Node : HasBits(set, nodes'[k], voted'[k])
    BY <1>1, <2>1, <2>2
  <2> QED  BY <1>1, <1>3, <2>1, <2>4, <2>5 DEF CtxInv
<1>5. ASSUME NEW n \in Node, NEW m \in Node, AddNode(n, m) PROVE CtxInv'
  <2>1. /\ nodes' = [nodes EXCEPT ![n] = Merge(nodes[n], nodes[m])]
        /\ voted' = [voted EXCEPT ![n] = voted[n] \union voted[m]]
        /\ equivocations' = equivocations /\ marked' = marked
    BY <1>5 DEF AddNode
  <2>2. HasBits(set, Merge(nodes[n], nodes[m]), voted[n] \union voted[m])
    BY <1>1, MergeHasBits
  <2>3. Merge(nodes[n], nodes[m]) \in Seq(Word)
    BY <2>2 DEF HasBits
  <2>4. nodes' \in [Node -> Seq(Word)] /\ DOMAIN voted' = Node
    BY <1>1, <2>1, <2>3
  <2>5. \A k \in Node : HasBits(set, nodes'[k], voted'[k])
    BY <1>1, <2>1, <2>2
  <2> QED  BY <1>1, <1>3, <2>1, <2>4, <2>5 DEF CtxInv
<1>6. ASSUME NEW id \in Id, NEW phase \in Phase, Equivocated(id, phase) PROVE CtxInv'
  <2>1. /\ id \in VoterIds(set) /\ nodes' = nodes /\ voted' = voted
        /\ equivocations' = SetBit(equivocations, VoteBit(set, id, phase))
        /\ marked' = marked \union {<<id, phase>>}
    BY <1>6 DEF Equivocated
  <2>2. HasBits(set, equivocations', marked')
    BY <1>1, <1>2, <2>1, SetBitHasBits
  <2> QED  BY <1>1, <1>3, <2>1, <2>2 DEF CtxInv
<1> QED  BY <1>4, <1>5, <1>6

LEMMA ContextInvariant == CtxSpec => []CtxInv
<1>1. CtxInit => CtxInv
  <2> SUFFICES ASSUME CtxInit PROVE CtxInv
    OBVIOUS
  <2>1. /\ set = NoSet /\ equivocations = <<>> /\ marked = {}
        /\ nodes = [n \in Node |-> <<>>] /\ voted = [n \in Node |-> {}]
    BY DEF CtxInit, SetInit, NewBitfield
  <2>2. SetInv
    BY SetStarts DEF CtxInit
  <2>3. HasBits(set, <<>>, {})
    BY EmptyHasBits
  <2>4. <<>> \in Seq(Word)
    OBVIOUS
  <2> QED  BY <2>1, <2>2, <2>3, <2>4 DEF CtxInv
<1>2. CtxInv /\ [CtxNext]_<<setVars, ctxVars>> => CtxInv'
  <2> SUFFICES ASSUME CtxInv, [CtxNext]_<<setVars, ctxVars>> PROVE CtxInv'
    OBVIOUS
  <2>1. CASE SetNext /\ UNCHANGED ctxVars
    <3>1. SetInv' /\ input = <<>>
      BY <2>1, SetSteps DEF CtxInv, SetNext
    <3>2. set = NoSet
      BY <3>1, NoListNoSet DEF CtxInv, SetInv
    <3>3. /\ equivocations' = <<>> /\ marked' = {} /\ nodes' \in [Node -> Seq(Word)] /\ DOMAIN voted' = Node
          /\ \A n \in Node : nodes'[n] = <<>> /\ voted'[n] = {}
      BY <2>1, <3>2 DEF CtxInv, ctxVars
    <3>4. HasBits(set', <<>>, {})
      BY EmptyHasBits
    <3>5. HasBits(set', equivocations', marked') /\ \A n \in Node : HasBits(set', nodes'[n], voted'[n])
      BY <3>3, <3>4
    <3> QED  BY <3>1, <3>3, <3>5 DEF CtxInv
  <2>2. CASE /\ set # NoSet /\ UNCHANGED setVars
             /\ \/ \E n \in Node, id \in Id, phase \in Phase : AddVoteTo(n, id, phase)
                \/ \E n, m \in Node : AddNode(n, m)
                \/ \E id \in Id, phase \in Phase : Equivocated(id, phase)
    BY <2>2, VotesKeepBits
  <2>3. CASE UNCHANGED <<setVars, ctxVars>>
    <3>1. /\ set' = set /\ input' = input /\ nodes' = nodes /\ voted' = voted
          /\ equivocations' = equivocations /\ marked' = marked
      BY <2>3 DEF setVars, ctxVars
    <3> QED  BY <3>1 DEF CtxInv, SetInv
  <2> QED  BY <2>1, <2>2, <2>3 DEF CtxNext
<1> QED  BY <1>1, <1>2, PTL DEF CtxSpec

LEMMA BitsAreExact ==
    ASSUME CtxInv
    PROVE  WeightIsExact
<1> SUFFICES ASSUME set # NoSet, NEW phase \in Phase
             PROVE  LET weight(S) == WeightOfIds(set, {id \in VoterIds(set) : <<id, phase>> \in S})
                    IN  /\ EquivocationWeight(set, equivocations, phase) = weight(marked)
                        /\ \A n \in Node :
                              /\ ContextWeight(set, equivocations, nodes[n], phase) = weight(voted[n] \union marked)
                              /\ NodeWeight(set, Positions(equivocations), Positions(nodes[n]), phase) =
                                     weight(voted[n] \union marked)
  BY DEF WeightIsExact
<1> DEFINE weight(S) == WeightOfIds(set, {id \in VoterIds(set) : <<id, phase>> \in S})
<1>1. IsVoterSet(set)
  BY SetIsVoterSet DEF MakesVoterSets, CtxInv
<1>2. /\ equivocations \in Seq(Word) /\ marked \in SUBSET (VoterIds(set) \X Phase)
      /\ Positions(equivocations) = BitsOf(set, marked)
  BY DEF CtxInv, HasBits
<1>3. ASSUME NEW votes \in SUBSET (VoterIds(set) \X Phase)
      PROVE  WeightOfIds(set, VotersWith(set, BitsOf(set, votes), phase)) = weight(votes)
  <2>1. VotersWith(set, BitsOf(set, votes), phase) = {id \in VoterIds(set) : <<id, phase>> \in votes}
    BY <1>1, VotersOfBits
  <2> QED  BY <2>1
<1> HIDE DEF weight
<1>4. EquivocationWeight(set, equivocations, phase) = weight(marked)
  <2>1. EquivocationWeight(set, equivocations, phase) =
            WeightOfIds(set, VotersWith(set, Positions(equivocations), phase))
    BY <1>1, <1>2, BitfieldsWeigh
  <2> QED  BY <1>2, <1>3, <2>1
<1>5. ASSUME NEW n \in Node
      PROVE  /\ ContextWeight(set, equivocations, nodes[n], phase) = weight(voted[n] \union marked)
             /\ NodeWeight(set, Positions(equivocations), Positions(nodes[n]), phase) =
                    weight(voted[n] \union marked)
  <2> DEFINE both == Positions(nodes[n]) \union Positions(equivocations)
  <2>1. /\ nodes[n] \in Seq(Word) /\ voted[n] \in SUBSET (VoterIds(set) \X Phase)
        /\ Positions(nodes[n]) = BitsOf(set, voted[n])
    BY DEF CtxInv, HasBits
  <2>2. both = BitsOf(set, voted[n] \union marked) /\ voted[n] \union marked \in SUBSET (VoterIds(set) \X Phase)
    BY <1>2, <2>1 DEF BitsOf
  <2>3. Positions(nodes[n]) \in SUBSET Nat /\ Positions(equivocations) \in SUBSET Nat
    BY <1>2, <2>1, PositionsFacts
  <2>4. ContextWeight(set, equivocations, nodes[n], phase) = WeightOfIds(set, VotersWith(set, both, phase))
    BY <1>1, <1>2, <2>1, BitfieldsWeigh
  <2>5. NodeWeight(set, Positions(equivocations), Positions(nodes[n]), phase)
            = WeightOfIds(set, VotersWith(set, both, phase))
    BY <1>1, <2>3, NodeWeightIsExact
  <2> HIDE DEF both
  <2>6. WeightOfIds(set, VotersWith(set, both, phase)) = weight(voted[n] \union marked)
    BY <1>3, <2>2
  <2> QED  BY <2>4, <2>5, <2>6
<1> QED  BY <1>4, <1>5 DEF weight

\* Context::weight and equivocation_weight, on bitfields of words of any even size that grew
\* and were merged in any order: every voter counts once, for its vote in the phase or as an
\* equivocator in it, and the set-of-bits reading on which all proofs about rounds rest weighs
\* the same.
THEOREM VotersCountOnce == CtxSpec => []WeightIsExact
  BY ContextInvariant, BitsAreExact, PTL
=============================================================================
