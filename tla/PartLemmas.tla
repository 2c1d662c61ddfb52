----------------------------- MODULE PartLemmas -----------------------------
(***************************************************************************)
(* Lemmas about the parts a round is made of, for every block tree, voter  *)
(* set and number of votes.  Sums over finite sets, the voters of a set,   *)
(* the bits of their votes, and the weight of a node as the sum over the   *)
(* voters whose bits it has.  The compressed vote graph, which answers as  *)
(* the plain block tree with its votes would.                              *)
(***************************************************************************)
EXTENDS VoteGraph, Context, SequenceTheorems, FiniteSetTheorems, WellFoundedInduction, TLAPS

-----------------------------------------------------------------------------
(* Numbers and sequences *)

\* A set of numbers has a least element.
LEMMA SmallestNumber ==
    ASSUME NEW T \in SUBSET Nat, T # {}
    PROVE  \E n \in T : \A m \in T : n <= m
<1>1. PICK n \in T : \A m \in T : ~ (<<m, n>> \in OpToRel(<, Nat))
  BY NatLessThanWellFounded, WFMin
<1>2. \A m \in T : ~(m < n)
  BY <1>1 DEF OpToRel
<1> QED  BY <1>2

\* What holds of zero, and of a number when of the one before it, holds up to n.
LEMMA CountingUp ==
    ASSUME NEW n \in Nat, NEW Good, 0 \in Good, \A k \in 1 .. n : k - 1 \in Good => k \in Good
    PROVE  \A k \in 0 .. n : k \in Good
<1> DEFINE bad == {k \in 0 .. n : k \notin Good}
<1>1. ASSUME bad # {} PROVE FALSE
  <2> bad \in SUBSET Nat
    OBVIOUS
  <2>1. PICK k \in bad : \A m \in bad : k <= m
    <3> HIDE DEF bad
    <3> QED  BY <1>1, SmallestNumber
  <2>2. k \in 1 .. n /\ k - 1 \in 0 .. n /\ ~(k <= k - 1)
    BY <2>1
  <2> QED  BY <2>1, <2>2
<1> QED  BY <1>1

\* A set of numbers up to k has a greatest element.
LEMMA GreatestOf ==
    ASSUME NEW k \in Nat, NEW s \in SUBSET (1 .. k), s # {}
    PROVE  /\ Max(s) \in s
           /\ k \in s => Max(s) = k
<1>1. \E x \in s : \A y \in s : x >= y
  <2> DEFINE less == {k - x : x \in s}
  <2>1. less \in SUBSET Nat /\ less # {}
    <3>1. \A x \in s : k - x \in Nat
      <4>1. \A x \in s : x \in Nat /\ x <= k
        OBVIOUS
      <4> QED  BY <4>1
    <3>2. PICK x \in s : TRUE
      OBVIOUS
    <3>3. less # {}
      BY <3>2
    <3> QED  BY <3>1, <3>3
  <2>2. PICK m \in less : \A l \in less : m <= l
    <3> HIDE DEF less
    <3>1. \E m \in less : \A l \in less : m <= l
      BY <2>1, SmallestNumber
    <3> QED  BY <3>1
  <2>3. PICK x \in s : m = k - x
    BY <2>2
  <2>4. \A y \in s : k - y \in less
    OBVIOUS
  <2>5. \A y \in s : k - x <= k - y
    <3> HIDE DEF less
    <3> QED  BY <2>2, <2>3, <2>4
  <2>6. \A y \in s : x >= y
    <3> HIDE DEF less
    <3> QED  BY <2>5
  <2> QED  BY <2>6
<1>2. Max(s) = CHOOSE x \in s : \A y \in s : x >= y
  BY DEF Max
<1>3. Max(s) \in s /\ \A y \in s : Max(s) >= y
  BY <1>1, <1>2
<1>4. ASSUME k \in s PROVE Max(s) = k
  <2>1. Max(s) >= k /\ Max(s) \in 1 .. k
    BY <1>3, <1>4
  <2> HIDE DEF Max
  <2> QED  BY <2>1
<1> QED  BY <1>3, <1>4

\* The function by which FlattenSeq is defined exists.
LEMMA FlattenExists ==
    ASSUME NEW n \in Nat, NEW seqs
    PROVE  \E f : f = [i \in 1 .. n |-> IF i = 1 THEN seqs[i] ELSE f[i - 1] \o seqs[i]]
<1> DEFINE Step(f, i) == IF i = 1 THEN seqs[i] ELSE f[i - 1] \o seqs[i]
           Exists(k) == \E f : f = [i \in 1 .. k |-> Step(f, i)]
           Good == {k \in 0 .. n : Exists(k)}
<1>1. 0 \in Good
  <2> DEFINE f == [i \in 1 .. 0 |-> i]
  <2>1. f = [i \in 1 .. 0 |-> Step(f, i)]
    OBVIOUS
  <2>2. Exists(0)
    <3> HIDE DEF Step, f
    <3> QED  BY <2>1
  <2> HIDE DEF Exists
  <2> QED  BY <2>2
<1>2. ASSUME NEW k \in 1 .. n, k - 1 \in Good PROVE k \in Good
  <2>5. Exists(k - 1)
    BY <1>2
  <2>1. PICK g : g = [i \in 1 .. k - 1 |-> Step(g, i)]
    <3> HIDE DEF Step
    <3> QED  BY <2>5
  <2> DEFINE f == [i \in 1 .. k |-> IF i = k THEN Step(g, k) ELSE g[i]]
  <2>2. ASSUME NEW i \in 1 .. k PROVE f[i] = Step(f, i)
    <3>1. i # 1 => i - 1 \in 1 .. k /\ i - 1 # k /\ i - 1 \in 1 .. k - 1
      BY <1>2
    <3>2. i # 1 => f[i - 1] = g[i - 1]
      BY <3>1
    <3>3. Step(f, i) = Step(g, i)
      BY <3>2
    <3>4. i # k => i \in 1 .. k - 1
      BY <1>2
    <3> HIDE DEF Step
    <3>5. i # k => g[i] = Step(g, i)
      BY <2>1, <3>4
    <3> QED  BY <3>3, <3>5
  <2>3. f = [i \in 1 .. k |-> Step(f, i)]
    <3> HIDE DEF Step
    <3>1. f = [i \in 1 .. k |-> f[i]]
      OBVIOUS
    <3> HIDE DEF f
    <3> QED  BY <2>2, <3>1
  <2>4. Exists(k)
    <3> HIDE DEF Step, f
    <3> QED  BY <2>3
  <2> HIDE DEF Exists
  <2> QED  BY <2>4
<1>3. n \in Good
  <2> HIDE DEF Good
  <2> QED  BY <1>1, <1>2, CountingUp
<1> QED  BY <1>3

LEMMA ConcatFacts ==
    ASSUME NEW S, NEW s \in Seq(S), NEW t \in Seq(S)
    PROVE  /\ s \o t \in Seq(S) /\ Len(s \o t) = Len(s) + Len(t) /\ Len(s) \in Nat /\ Len(t) \in Nat
           /\ \A j \in 1 .. Len(s) : (s \o t)[j] = s[j]
           /\ \A j \in 1 .. Len(t) : (s \o t)[Len(s) + j] = t[j]
<1>1. /\ Len(s \o t) = Len(s) + Len(t) /\ Len(s) \in Nat /\ Len(t) \in Nat
      /\ \A j \in 1 .. Len(s) + Len(t) : (s \o t)[j] = IF j <= Len(s) THEN s[j] ELSE t[j - Len(s)]
  BY ConcatProperties, LenProperties
<1>2. s \o t \in Seq(S)
  BY ConcatProperties
<1>3. ASSUME NEW j \in 1 .. Len(t) PROVE (s \o t)[Len(s) + j] = t[j]
  <2>1. Len(s) + j \in 1 .. Len(s) + Len(t) /\ ~(Len(s) + j <= Len(s)) /\ Len(s) + j - Len(s) = j
    BY <1>1
  <2> QED  BY <1>1, <2>1
<1> QED  BY <1>1, <1>2, <1>3

\* Sequences in a row: flat has those of seqs at the offsets off, one after the other, and
\* nothing else.
InARow(seqs, n, flat, off) ==
    /\ off \in [1 .. n -> Nat]
    /\ \A i \in 1 .. n : \A j \in 1 .. Len(seqs[i]) :
           off[i] + j \in 1 .. Len(flat) /\ flat[off[i] + j] = seqs[i][j]
    /\ \A i \in 1 .. n : off[i] + Len(seqs[i]) <= Len(flat)
    /\ \A i, j \in 1 .. n : i < j => off[i] + Len(seqs[i]) <= off[j]
    /\ \A k \in 1 .. Len(flat) : \E i \in 1 .. n : \E j \in 1 .. Len(seqs[i]) : k = off[i] + j

\* A sequence more in the row.
LEMMA OneMoreInRow ==
    ASSUME NEW S, NEW k \in Nat \ {0}, NEW seqs, \A i \in 1 .. k : seqs[i] \in Seq(S),
           NEW past \in Seq(S), NEW o, InARow(seqs, k - 1, past, o)
    PROVE  past \o seqs[k] \in Seq(S) /\ \E off : InARow(seqs, k, past \o seqs[k], off)
<1> DEFINE s == seqs[k]
           flat == past \o s
           off == [i \in 1 .. k |-> IF i = k THEN Len(past) ELSE o[i]]
<1>1. k \in 1 .. k /\ s \in Seq(S) /\ Len(past) \in Nat /\ Len(s) \in Nat
  <2>1. k \in 1 .. k
    OBVIOUS
  <2>2. s \in Seq(S)
    BY <2>1
  <2> QED  BY <2>1, <2>2, LenProperties
<1> HIDE DEF s
<1>3. /\ flat \in Seq(S) /\ Len(flat) = Len(past) + Len(s)
      /\ \A j \in 1 .. Len(past) : flat[j] = past[j]
      /\ \A j \in 1 .. Len(s) : flat[Len(past) + j] = s[j]
  BY <1>1, ConcatFacts
<1> HIDE DEF flat
<1>2. InARow(seqs, k - 1, past, o)
  OBVIOUS
<1>4. \A i \in 1 .. k : i # k => i \in 1 .. k - 1 /\ off[i] = o[i]
  OBVIOUS
<1>5. off[k] = Len(past) /\ seqs[k] = s /\ off \in [1 .. k -> Nat]
  BY <1>1, <1>2, <1>4 DEF InARow, s
<1> HIDE DEF off
<1>6. ASSUME NEW i \in 1 .. k, NEW j \in 1 .. Len(seqs[i])
      PROVE  off[i] + j \in 1 .. Len(flat) /\ flat[off[i] + j] = seqs[i][j]
  <2>1. CASE i = k
    <3>1. j \in 1 .. Len(s) /\ off[i] = Len(past) /\ seqs[i] = s
      BY <1>5, <2>1
    <3>2. Len(past) + j \in 1 .. Len(flat)
      BY <1>1, <1>3, <3>1
    <3> QED  BY <1>3, <3>1, <3>2
  <2>2. CASE i # k
    <3>1. o[i] + j \in 1 .. Len(past) /\ past[o[i] + j] = seqs[i][j]
      BY <1>2, <1>4, <2>2 DEF InARow
    <3>2. o[i] + j \in 1 .. Len(flat)
      BY <1>1, <1>3, <3>1
    <3>3. off[i] = o[i]
      BY <1>4, <2>2
    <3> QED  BY <1>3, <3>1, <3>2, <3>3
  <2> QED  BY <2>1, <2>2
<1>7. ASSUME NEW i \in 1 .. k, NEW j \in 1 .. k, i < j PROVE off[i] + Len(seqs[i]) <= off[j]
  <2>1. CASE j = k
    <3>1. i # k /\ i \in 1 .. k - 1 /\ seqs[i] \in Seq(S) /\ Len(seqs[i]) \in Nat /\ o[i] \in Nat
      BY <1>2, <1>7, <2>1 DEF InARow
    <3>2. o[i] + Len(seqs[i]) <= Len(past)
      BY <1>2, <3>1 DEF InARow
    <3> QED  BY <1>1, <1>4, <1>5, <2>1, <3>1, <3>2
  <2>2. CASE j # k
    <3>1. i # k /\ i \in 1 .. k - 1 /\ j \in 1 .. k - 1
      BY <1>7, <2>2
    <3> QED  BY <1>2, <1>4, <1>7, <3>1 DEF InARow
  <2> QED  BY <2>1, <2>2
<1>8. ASSUME NEW m \in 1 .. Len(flat)
      PROVE  \E i \in 1 .. k : \E j \in 1 .. Len(seqs[i]) : m = off[i] + j
  <2>1. CASE m \in 1 .. Len(past)
    <3>1. PICK i \in 1 .. k - 1 : \E j \in 1 .. Len(seqs[i]) : m = o[i] + j
      BY <1>2, <2>1 DEF InARow
    <3>2. i \in 1 .. k /\ i # k
      OBVIOUS
    <3> QED  BY <1>4, <3>1, <3>2
  <2>2. CASE m \notin 1 .. Len(past)
    <3>1. m - Len(past) \in 1 .. Len(s) /\ m = Len(past) + (m - Len(past))
      BY <1>1, <1>3, <2>2
    <3>2. k \in 1 .. k
      OBVIOUS
    <3> QED  BY <1>5, <3>1, <3>2
  <2> QED  BY <2>1, <2>2
<1>10. ASSUME NEW i \in 1 .. k PROVE off[i] + Len(seqs[i]) <= Len(flat)
  <2>1. CASE i = k
    BY <1>1, <1>3, <1>5, <2>1
  <2>2. CASE i # k
    <3>1. /\ o[i] + Len(seqs[i]) <= Len(past) /\ o[i] \in Nat /\ seqs[i] \in Seq(S)
          /\ Len(seqs[i]) \in Nat /\ off[i] = o[i]
      BY <1>2, <1>4, <2>2 DEF InARow
    <3> QED  BY <1>1, <1>3, <3>1
  <2> QED  BY <2>1, <2>2
<1>9. InARow(seqs, k, flat, off)
  BY <1>5, <1>6, <1>7, <1>8, <1>10 DEF InARow
<1> QED  BY <1>3, <1>9 DEF flat, s

\* FlattenSeq puts sequences in a row.
LEMMA FlattenFacts ==
    ASSUME NEW S, NEW n \in Nat, NEW seqs \in [1 .. n -> Seq(S)]
    PROVE  FlattenSeq(seqs) \in Seq(S) /\ \E off : InARow(seqs, n, FlattenSeq(seqs), off)
<1>1. Len(seqs) = n
  BY LenProperties
<1>2. CASE n = 0
  <2>1. seqs = <<>> /\ FlattenSeq(seqs) = <<>>
    BY <1>1, <1>2 DEF FlattenSeq
  <2> DEFINE off == [i \in 1 .. n |-> 0]
  <2>2. InARow(seqs, n, FlattenSeq(seqs), off)
    BY <1>2, <2>1 DEF InARow
  <2> QED  BY <2>1, <2>2
<1>3. CASE n # 0
  <2> DEFINE Step(f, i) == IF i = 1 THEN seqs[i] ELSE f[i - 1] \o seqs[i]
             flatten[i \in 1 .. n] == IF i = 1 THEN seqs[i] ELSE flatten[i - 1] \o seqs[i]
             Good == {k \in 0 .. n : k # 0 => /\ flatten[k] \in Seq(S)
                                              /\ \E off : InARow(seqs, k, flatten[k], off)}
  <2>1. FlattenSeq(seqs) = flatten[n]
    BY <1>1, <1>3 DEF FlattenSeq
  <2>2. flatten = CHOOSE f : f = [i \in 1 .. n |-> Step(f, i)]
    OBVIOUS
  <2>3. \E f : f = [i \in 1 .. n |-> Step(f, i)]
    BY FlattenExists
  <2> HIDE DEF flatten
  <2>4. \A i \in 1 .. n : flatten[i] = Step(flatten, i)
    <3> HIDE DEF Step
    <3>1. flatten = [i \in 1 .. n |-> Step(flatten, i)]
      BY <2>2, <2>3
    <3> QED  BY <3>1
  <2>5. ASSUME NEW k \in 1 .. n, k - 1 \in Good PROVE k \in Good
    <3> DEFINE flat == flatten[k]
               s == seqs[k]
    <3>1. s \in Seq(S) /\ Len(s) \in Nat /\ flat = Step(flatten, k)
      BY <2>4
    <3>2. CASE k = 1
      <4> DEFINE off == [i \in 1 .. 1 |-> 0]
      <4>1. flat = s
        BY <3>1, <3>2
      <4>2. InARow(seqs, k, flat, off)
        BY <3>1, <3>2, <4>1 DEF InARow
      <4> HIDE DEF off, flat
      <4> QED  BY <3>1, <4>1, <4>2 DEF flat
    <3>3. CASE k # 1
      <4> DEFINE past == flatten[k - 1]
      <4>1. k - 1 \in 1 .. n /\ past \in Seq(S) /\ flat = past \o s
        BY <2>5, <3>1, <3>3
      <4>2. PICK o : InARow(seqs, k - 1, past, o)
        BY <2>5, <3>3
      <4>3. k \in Nat \ {0} /\ \A i \in 1 .. k : seqs[i] \in Seq(S)
        OBVIOUS
      <4> HIDE DEF past, flat
      <4>4. flat \in Seq(S) /\ \E off : InARow(seqs, k, flat, off)
        BY <4>1, <4>2, <4>3, OneMoreInRow
      <4> QED  BY <4>4 DEF flat
    <3> QED  BY <3>2, <3>3
  <2>6. 0 \in Good
    OBVIOUS
  <2>7. n \in Good
    <3> HIDE DEF Good
    <3>1. \A k \in 0 .. n : k \in Good
      BY <2>5, <2>6, CountingUp
    <3> QED  BY <3>1
  <2> QED  BY <1>3, <2>1, <2>7
<1> QED  BY <1>2, <1>3

\* What a flattened list has in it.
LEMMA RowHas ==
    ASSUME NEW S, NEW n \in Nat, NEW seqs \in [1 .. n -> Seq(S)]
    PROVE  /\ FlattenSeq(seqs) \in Seq(S)
           /\ \A x : x \in ToSet(FlattenSeq(seqs)) <=>
                         \E i \in 1 .. n : \E j \in 1 .. Len(seqs[i]) : x = seqs[i][j]
<1> DEFINE flat == FlattenSeq(seqs)
<1>1. flat \in Seq(S)
  BY FlattenFacts
<1>2. PICK off : InARow(seqs, n, flat, off)
  BY FlattenFacts
<1> HIDE DEF flat
<1>3. DOMAIN flat = 1 .. Len(flat)
  BY <1>1
<1>4. ASSUME NEW x, x \in ToSet(flat)
      PROVE  \E i \in 1 .. n : \E j \in 1 .. Len(seqs[i]) : x = seqs[i][j]
  <2>1. PICK k \in 1 .. Len(flat) : x = flat[k]
    BY <1>3, <1>4 DEF ToSet
  <2>2. PICK i \in 1 .. n : \E j \in 1 .. Len(seqs[i]) : k = off[i] + j
    BY <1>2 DEF InARow
  <2>3. PICK j \in 1 .. Len(seqs[i]) : k = off[i] + j
    BY <2>2
  <2>4. flat[off[i] + j] = seqs[i][j]
    BY <1>2 DEF InARow
  <2> QED  BY <2>1, <2>3, <2>4
<1>5. ASSUME NEW i \in 1 .. n, NEW j \in 1 .. Len(seqs[i]) PROVE seqs[i][j] \in ToSet(flat)
  <2>1. off[i] + j \in 1 .. Len(flat) /\ flat[off[i] + j] = seqs[i][j]
    BY <1>2 DEF InARow
  <2> QED  BY <1>3, <2>1 DEF ToSet
<1>6. \A x : x \in ToSet(flat) <=> \E i \in 1 .. n : \E j \in 1 .. Len(seqs[i]) : x = seqs[i][j]
  BY <1>4, <1>5
<1> QED  BY <1>1, <1>6 DEF flat

-----------------------------------------------------------------------------
(* Sums *)

\* What holds of the empty set and of a set with one more, holds of a finite set.
LEMMA SubsetInduction ==
    ASSUME NEW S, IsFiniteSet(S), NEW Good, {} \in Good,
           \A s \in SUBSET S : s # {} /\ (\A i \in s : s \ {i} \in Good) => s \in Good
    PROVE  S \in Good
<1> DEFINE bad == {s \in SUBSET S : s \notin Good}
           sizes == {Cardinality(s) : s \in bad}
<1>1. \A s \in SUBSET S : IsFiniteSet(s) /\ Cardinality(s) \in Nat
  BY FS_Subset, FS_CardinalityType
<1>2. \A s : s \in bad <=> s \in SUBSET S /\ s \notin Good
  OBVIOUS
<1> HIDE DEF bad
<1>3. ASSUME S \notin Good PROVE FALSE
  <2>1. sizes \in SUBSET Nat /\ sizes # {}
    BY <1>1, <1>2, <1>3
  <2>2. PICK s \in bad : \A m \in sizes : Cardinality(s) <= m
    BY <2>1, SmallestNumber
  <2>3. s \in SUBSET S /\ s # {} /\ IsFiniteSet(s) /\ Cardinality(s) \in Nat
    BY <1>1, <1>2
  <2>4. PICK i \in s : s \ {i} \notin Good
    BY <1>2, <2>3
  <2>5. s \ {i} \in bad
    BY <1>2, <2>3, <2>4
  <2>6. Cardinality(s) <= Cardinality(s \ {i})
    BY <2>2, <2>5
  <2>7. Cardinality(s \ {i}) = Cardinality(s) - 1
    BY <2>3, <2>4, FS_RemoveElement
  <2> QED  BY <2>3, <2>6, <2>7
<1> QED  BY <1>3

\* A mark for every unit of weight: the sum is how many there are.
Marks(w, S) == UNION {{i} \X (1 .. w[i]) : i \in S}

\* w gives a weight to each of finitely many.
IsWeights(w, S) == IsFiniteSet(S) /\ \A i \in S : w[i] \in Nat

LEMMA MarksOfOne ==
    ASSUME NEW x, NEW n \in Nat
    PROVE  IsFiniteSet({x} \X (1 .. n)) /\ Cardinality({x} \X (1 .. n)) = n
<1>1. IsFiniteSet({x}) /\ Cardinality({x}) = 1
  BY FS_Singleton
<1>2. IsFiniteSet(1 .. n) /\ Cardinality(1 .. n) = n
  BY FS_Interval
<1>3. IsFiniteSet({x} \X (1 .. n)) /\ Cardinality({x} \X (1 .. n)) = Cardinality({x}) * Cardinality(1 .. n)
  BY <1>1, <1>2, FS_Product
<1> QED  BY <1>1, <1>2, <1>3

LEMMA MarksAreFinite ==
    ASSUME NEW w, NEW S, IsWeights(w, S)
    PROVE  IsFiniteSet(Marks(w, S)) /\ Cardinality(Marks(w, S)) \in Nat
<1> DEFINE f == [i \in S |-> {i} \X (1 .. w[i])]
           T == {{i} \X (1 .. w[i]) : i \in S}
<1>1. f \in Surjection(S, T)
  BY DEF Surjection
<1>2. IsFiniteSet(T)
  BY <1>1, FS_Surjection DEF IsWeights
<1>3. \A t \in T : IsFiniteSet(t)
  <2>1. \A i \in S : IsFiniteSet({i} \X (1 .. w[i]))
    BY MarksOfOne DEF IsWeights
  <2> QED  BY <2>1
<1>4. IsFiniteSet(UNION T)
  BY <1>2, <1>3, FS_UNION
<1> QED  BY <1>4, FS_CardinalityType DEF Marks

LEMMA MarksOfMore ==
    ASSUME NEW w, NEW S, IsWeights(w, S), NEW x \in S
    PROVE  /\ IsWeights(w, S \ {x})
           /\ Cardinality(Marks(w, S)) = w[x] + Cardinality(Marks(w, S \ {x}))
<1> DEFINE rest == Marks(w, S \ {x})
           one == {x} \X (1 .. w[x])
<1>1. IsWeights(w, S \ {x})
  BY FS_RemoveElement DEF IsWeights
<1>2. IsFiniteSet(rest) /\ Cardinality(rest) \in Nat
  BY <1>1, MarksAreFinite
<1>3. IsFiniteSet(one) /\ Cardinality(one) = w[x] /\ w[x] \in Nat
  BY MarksOfOne DEF IsWeights
<1>4. Marks(w, S) = one \union rest
  BY DEF Marks
<1>5. one \intersect rest = {}
  BY DEF Marks
<1> HIDE DEF one, rest
<1>6. Cardinality(one \union rest) = Cardinality(one) + Cardinality(rest) - Cardinality(one \intersect rest)
  BY <1>2, <1>3, FS_Union
<1>7. Cardinality(one \intersect rest) = 0
  BY <1>5, FS_EmptySet
<1>8. Cardinality(one \union rest) = w[x] + Cardinality(rest)
  BY <1>2, <1>3, <1>6, <1>7
<1> QED  BY <1>1, <1>4, <1>8 DEF rest

LEMMA NoMarks == ASSUME NEW w PROVE Cardinality(Marks(w, {})) = 0
<1>1. Marks(w, {}) = {}
  BY DEF Marks
<1> QED  BY <1>1, FS_EmptySet

\* The fold of the library counts them.
LEMMA SumIsMarks ==
    ASSUME NEW w, NEW S, IsWeights(w, S)
    PROVE  SumFunctionOnSet(w, S) = Cardinality(Marks(w, S))
<1> DEFINE pick(s) == CHOOSE x \in s : TRUE
           Step(f, s) == IF s = {} THEN 0 ELSE w[pick(s)] + f[s \ {pick(s)}]
           iter[s \in SUBSET S] == IF s = {} THEN 0 ELSE w[pick(s)] + iter[s \ {pick(s)}]
           F == [s \in SUBSET S |-> Cardinality(Marks(w, s))]
<1>1. SumFunctionOnSet(w, S) = iter[S]
  BY DEF SumFunctionOnSet, FoldFunctionOnSet, MapThenFoldSet
<1>2. iter = CHOOSE f : f = [s \in SUBSET S |-> Step(f, s)]
  OBVIOUS
<1> HIDE DEF iter
<1>3. ASSUME NEW s \in SUBSET S PROVE IsWeights(w, s)
  BY FS_Subset DEF IsWeights
<1>4. ASSUME NEW s \in SUBSET S, s # {} PROVE pick(s) \in s
  <2>1. \E x \in s : TRUE
    BY <1>4
  <2> QED  BY <2>1
<1> HIDE DEF pick
<1>5. ASSUME NEW s \in SUBSET S PROVE F[s] = Step(F, s)
  <2>1. CASE s = {}
    BY <2>1, NoMarks
  <2>2. CASE s # {}
    BY <1>3, <1>4, <2>2, MarksOfMore
  <2> QED  BY <2>1, <2>2
<1>6. iter = [s \in SUBSET S |-> Step(iter, s)]
  <2>1. F = [s \in SUBSET S |-> Step(F, s)]
    BY <1>5
  <2> HIDE DEF Step, F
  <2> QED  BY <1>2, <2>1
<1>7. ASSUME NEW z \in SUBSET S, iter[z] # F[z] PROVE FALSE
  <2> DEFINE bad == {s \in SUBSET S : iter[s] # F[s]}
             sizes == {Cardinality(s) : s \in bad}
  <2>1. \A s \in bad : s \in SUBSET S /\ IsFiniteSet(s) /\ Cardinality(s) \in Nat
    BY <1>3, FS_CardinalityType DEF IsWeights
  <2>2. z \in bad
    BY <1>7
  <2> HIDE DEF bad
  <2>3. sizes \in SUBSET Nat /\ sizes # {}
    BY <2>1, <2>2
  <2>4. PICK s \in bad : \A m \in sizes : Cardinality(s) <= m
    BY <2>3, SmallestNumber
  <2>5. s \in SUBSET S /\ iter[s] # F[s] /\ IsFiniteSet(s) /\ Cardinality(s) \in Nat
    BY <2>1, <2>4 DEF bad
  <2>6. iter[s] = Step(iter, s) /\ F[s] = Step(F, s)
    BY <1>5, <1>6, <2>5
  <2>7. s # {}
    BY <2>5, <2>6
  <2> DEFINE rest == s \ {pick(s)}
  <2>8. Cardinality(rest) = Cardinality(s) - 1 /\ rest \in SUBSET S
    BY <1>4, <2>5, <2>7, FS_RemoveElement
  <2>9. iter[rest] # F[rest]
    <3> HIDE DEF F, iter
    <3> QED  BY <2>5, <2>6, <2>7
  <2>10. rest \in bad
    BY <2>8, <2>9 DEF bad
  <2>11. Cardinality(s) <= Cardinality(rest)
    BY <2>4, <2>10
  <2> QED  BY <2>5, <2>8, <2>11
<1> QED  BY <1>1, <1>7

\* A sum as one would define it.
Sum(w, S) == SumFunctionOnSet(w, S)

\* What one needs to know of sums.
LEMMA SumFacts ==
    ASSUME NEW w, NEW S, IsWeights(w, S)
    PROVE  /\ Sum(w, S) \in Nat
           /\ S = {} => Sum(w, S) = 0
           /\ \A x \in S : IsWeights(w, S \ {x}) /\ Sum(w, S) = w[x] + Sum(w, S \ {x})
<1>1. Sum(w, S) = Cardinality(Marks(w, S)) /\ Sum(w, S) \in Nat
  BY SumIsMarks, MarksAreFinite DEF Sum
<1>2. S = {} => Sum(w, S) = 0
  BY <1>1, NoMarks
<1>3. ASSUME NEW x \in S PROVE IsWeights(w, S \ {x}) /\ Sum(w, S) = w[x] + Sum(w, S \ {x})
  BY <1>1, MarksOfMore, SumIsMarks DEF Sum
<1> QED  BY <1>1, <1>2, <1>3

LEMMA SumOfSame ==
    ASSUME NEW w, NEW v, NEW S, IsWeights(w, S), \A i \in S : w[i] = v[i]
    PROVE  IsWeights(v, S) /\ Sum(v, S) = Sum(w, S)
<1>1. IsWeights(v, S)
  BY DEF IsWeights
<1>2. Marks(w, S) = Marks(v, S)
  BY DEF Marks
<1> QED  BY <1>1, <1>2, SumIsMarks DEF Sum

\* Sums are additive.
LEMMA SumOfUnion ==
    ASSUME NEW w, NEW S, NEW T, IsWeights(w, S), IsWeights(w, T)
    PROVE  /\ IsWeights(w, S \union T) /\ IsWeights(w, S \intersect T)
           /\ Sum(w, S \union T) + Sum(w, S \intersect T) = Sum(w, S) + Sum(w, T)
<1>1. IsWeights(w, S \union T) /\ IsWeights(w, S \intersect T)
  BY FS_Union, FS_Intersection DEF IsWeights
<1>2. Marks(w, S \union T) = Marks(w, S) \union Marks(w, T)
  BY DEF Marks
<1>3. Marks(w, S \intersect T) = Marks(w, S) \intersect Marks(w, T)
  BY DEF Marks
<1>4. /\ IsFiniteSet(Marks(w, S)) /\ IsFiniteSet(Marks(w, T))
      /\ Cardinality(Marks(w, S)) \in Nat /\ Cardinality(Marks(w, T)) \in Nat
      /\ Cardinality(Marks(w, S \union T)) \in Nat /\ Cardinality(Marks(w, S \intersect T)) \in Nat
  BY <1>1, MarksAreFinite
<1>5. Cardinality(Marks(w, S \union T))
      = Cardinality(Marks(w, S)) + Cardinality(Marks(w, T)) - Cardinality(Marks(w, S \intersect T))
  <2> DEFINE A == Marks(w, S)
             B == Marks(w, T)
  <2>1. IsFiniteSet(A) /\ IsFiniteSet(B)
    BY <1>4
  <2> HIDE DEF A, B
  <2>2. Cardinality(A \union B) = Cardinality(A) + Cardinality(B) - Cardinality(A \intersect B)
    BY <2>1, FS_Union
  <2> QED  BY <1>2, <1>3, <2>2 DEF A, B
<1> QED  BY <1>1, <1>4, <1>5, SumIsMarks DEF Sum

LEMMA SumOfLess ==
    ASSUME NEW w, NEW S, IsWeights(w, S), NEW T \in SUBSET S
    PROVE  IsWeights(w, T) /\ Sum(w, T) <= Sum(w, S)
<1>1. IsWeights(w, T)
  BY FS_Subset DEF IsWeights
<1>2. Marks(w, T) \subseteq Marks(w, S)
  BY DEF Marks
<1>3. Cardinality(Marks(w, T)) <= Cardinality(Marks(w, S))
  BY <1>2, MarksAreFinite, FS_Subset
<1> QED  BY <1>1, <1>3, SumIsMarks DEF Sum

\* A sum is positive when one of its terms is, and only then.
LEMMA SumIsPositive ==
    ASSUME NEW w, NEW S, IsWeights(w, S)
    PROVE  Sum(w, S) > 0 <=> \E i \in S : w[i] > 0
<1>1. ASSUME NEW i \in S, w[i] > 0 PROVE Sum(w, S) > 0
  <2>1. Sum(w, S) = w[i] + Sum(w, S \ {i}) /\ Sum(w, S \ {i}) \in Nat /\ w[i] \in Nat
    BY SumFacts DEF IsWeights
  <2> QED  BY <1>1, <2>1
<1>2. ASSUME \A i \in S : ~(w[i] > 0) PROVE ~(Sum(w, S) > 0)
  <2>1. \A i \in S : 1 .. w[i] = {}
    BY <1>2 DEF IsWeights
  <2>2. Marks(w, S) = {}
    BY <2>1 DEF Marks
  <2>3. Sum(w, S) = 0
    BY <2>2, SumIsMarks, FS_EmptySet DEF Sum
  <2> QED  BY <2>3
<1> QED  BY <1>1, <1>2

LEMMA SumOfSmaller ==
    ASSUME NEW w, NEW v, NEW S, IsWeights(w, S), IsWeights(v, S), \A i \in S : v[i] <= w[i]
    PROVE  Sum(v, S) <= Sum(w, S)
<1>1. Marks(v, S) \subseteq Marks(w, S)
  <2>1. ASSUME NEW i \in S PROVE {i} \X (1 .. v[i]) \subseteq {i} \X (1 .. w[i])
    BY DEF IsWeights
  <2> QED  BY <2>1 DEF Marks
<1>2. Cardinality(Marks(v, S)) <= Cardinality(Marks(w, S))
  BY <1>1, MarksAreFinite, FS_Subset
<1> QED  BY <1>2, SumIsMarks DEF Sum
-----------------------------------------------------------------------------
(* Voters and their bits *)

\* A set with these voters, in order, each with its share.
HasVoters(vs, ids, share) ==
    /\ Len(vs.voters) \in Nat \ {0} /\ DOMAIN vs.voters = 1 .. Len(vs.voters)
    /\ \A i \in DOMAIN vs.voters : /\ vs.voters[i].id \in ids
                                   /\ vs.voters[i].weight = share[vs.voters[i].id]
    /\ \A id \in ids : \E i \in DOMAIN vs.voters : vs.voters[i].id = id
    /\ \A i, j \in DOMAIN vs.voters : i < j => vs.voters[i].id < vs.voters[j].id

\* Looking a voter up gives its position and its share.
LEMMA VoterFacts ==
    ASSUME NEW vs, NEW ids \in SUBSET Nat, NEW share, HasVoters(vs, ids, share)
    PROVE  /\ VoterIds(vs) = ids
           /\ \A i \in 1 .. Len(vs.voters) : Position(vs, vs.voters[i].id) = i - 1
           /\ \A id \in ids : WeightOfVoter(vs, id) = share[id]
<1>1. VoterIds(vs) = ids
  BY DEF VoterIds, HasVoters
<1>2. ASSUME NEW i \in 1 .. Len(vs.voters) PROVE Position(vs, vs.voters[i].id) = i - 1
  <2> DEFINE id == vs.voters[i].id
             I == {j \in 1 .. Len(vs.voters) : vs.voters[j].id = id}
  <2>1. id \in Nat /\ i \in Nat
    <3>1. i \in DOMAIN vs.voters /\ i \in Nat
      BY DEF HasVoters
    <3>2. vs.voters[i].id \in ids
      BY <3>1 DEF HasVoters
    <3> QED  BY <3>1, <3>2
  <2>2. ASSUME NEW j \in I PROVE j = i
    <3>1. j \in 1 .. Len(vs.voters) /\ Len(vs.voters) \in Nat
      BY DEF HasVoters
    <3>2. i \in Nat /\ j \in Nat
      BY <3>1
    <3>3. i < j => id < id
      BY DEF HasVoters
    <3>4. j < i => id < id
      BY DEF HasVoters
    <3> QED  BY <2>1, <3>2, <3>3, <3>4
  <2>3. I = {i}
    BY <2>2
  <2>4. Position(vs, id) = (IF I # {} THEN Min(I) ELSE 0) - 1
    BY DEF Position, SelectInSeq
  <2> HIDE DEF I
  <2>5. Min(I) = i
    BY <2>1, <2>3 DEF Min
  <2> QED  BY <2>3, <2>4, <2>5
<1>3. ASSUME NEW id \in ids PROVE WeightOfVoter(vs, id) = share[id]
  <2>1. PICK i \in 1 .. Len(vs.voters) : vs.voters[i].id = id
    BY DEF HasVoters
  <2>2. Position(vs, id) + 1 = i
    BY <1>2, <2>1 DEF HasVoters
  <2> QED  BY <2>1, <2>2 DEF WeightOfVoter, HasVoters
<1> QED  BY <1>1, <1>2, <1>3

\* The voters of a set, each with the weight it has.
LEMMA SetHasVoters ==
    ASSUME NEW vs, IsVoterSet(vs)
    PROVE  /\ VoterIds(vs) \in SUBSET Nat
           /\ HasVoters(vs, VoterIds(vs), [id \in VoterIds(vs) |-> WeightOfVoter(vs, id)])
<1> DEFINE V == VoterIds(vs)
           n == Len(vs.voters)
           share == [id \in V |-> LET i == CHOOSE i \in 1 .. n : vs.voters[i].id = id IN vs.voters[i].weight]
<1>1. /\ n \in Nat \ {0} /\ DOMAIN vs.voters = 1 .. n /\ V \in SUBSET Nat
      /\ \A i, j \in 1 .. n : i < j => vs.voters[i].id < vs.voters[j].id
      /\ \A i \in 1 .. n : vs.voters[i].id \in Nat /\ vs.voters[i].id \in V
      /\ \A id \in V : \E i \in 1 .. n : vs.voters[i].id = id
  BY DEF IsVoterSet, VoterIds
<1> HIDE DEF V, n
<1>2. ASSUME NEW i \in 1 .. n, NEW j \in 1 .. n, vs.voters[i].id = vs.voters[j].id PROVE i = j
  <2>1. vs.voters[i].id \in Nat /\ ~(vs.voters[i].id < vs.voters[i].id)
    BY <1>1
  <2>2. ~(i < j) /\ ~(j < i)
    BY <1>1, <1>2, <2>1
  <2> QED  BY <1>1, <2>2
<1>3. ASSUME NEW i \in 1 .. n PROVE vs.voters[i].weight = share[vs.voters[i].id]
  BY <1>1, <1>2
<1> HIDE DEF share
<1>4. HasVoters(vs, V, share)
  BY <1>1, <1>3 DEF HasVoters, n
<1>5. \A id \in V : WeightOfVoter(vs, id) = share[id]
  BY <1>1, <1>4, VoterFacts
<1>6. \A i \in 1 .. n : vs.voters[i].weight = [id \in V |-> WeightOfVoter(vs, id)][vs.voters[i].id]
  BY <1>1, <1>3, <1>5
<1> QED  BY <1>1, <1>6 DEF HasVoters, V, n

\* The bits that votes for a set can have.
AllBits(vs) == 0 .. 2 * Len(vs.voters) - 1

\* Every voter has one bit per phase, and every bit is one of these.
LEMMA BitFacts ==
    ASSUME NEW vs, IsVoterSet(vs)
    PROVE  /\ \A id \in VoterIds(vs) : \A phase \in Phase :
                  LET p == VoteBit(vs, id, phase)
                  IN  /\ p \in AllBits(vs) /\ p % 2 = Parity(phase)
                      /\ VoterOfBit(vs, p).id = id /\ VoterOfBit(vs, p).weight = WeightOfVoter(vs, id)
           /\ \A p \in AllBits(vs) :
                  /\ VoterOfBit(vs, p).id \in VoterIds(vs)
                  /\ \A phase \in Phase :
                         p % 2 = Parity(phase) => p = VoteBit(vs, VoterOfBit(vs, p).id, phase)
           /\ \A p \in Nat : IsVoteOf(vs, p) <=> p \in AllBits(vs)
<1> DEFINE n == Len(vs.voters)
<1>1. /\ n \in Nat \ {0} /\ DOMAIN vs.voters = 1 .. n
      /\ \A i \in 1 .. n : Position(vs, vs.voters[i].id) = i - 1 /\ vs.voters[i].id \in VoterIds(vs)
      /\ \A id \in VoterIds(vs) : \E i \in 1 .. n : vs.voters[i].id = id
  BY SetHasVoters, VoterFacts DEF IsVoterSet, VoterIds
<1>2. \A phase \in Phase : Parity(phase) \in {0, 1}
  BY DEF Phase, Parity
<1> HIDE DEF n
<1>3. \A k \in Nat, d \in {0, 1} : (k * 2 + d) \div 2 = k /\ (k * 2 + d) % 2 = d
  OBVIOUS
<1>4. \A p \in Nat : p \div 2 \in Nat /\ p = (p \div 2) * 2 + (p % 2) /\ p % 2 \in {0, 1}
  OBVIOUS
<1>5. ASSUME NEW id \in VoterIds(vs), NEW phase \in Phase
      PROVE  LET p == VoteBit(vs, id, phase)
             IN  /\ p \in AllBits(vs) /\ p % 2 = Parity(phase)
                 /\ VoterOfBit(vs, p).id = id /\ VoterOfBit(vs, p).weight = WeightOfVoter(vs, id)
  <2>1. PICK i \in 1 .. n : vs.voters[i].id = id
    BY <1>1
  <2>2. Position(vs, id) = i - 1 /\ i - 1 \in Nat /\ i \in Nat /\ i <= n
    BY <1>1, <2>1
  <2>3. VoteBit(vs, id, phase) = (i - 1) * 2 + Parity(phase)
    BY <2>2 DEF VoteBit
  <2>4. VoteBit(vs, id, phase) \div 2 + 1 = i /\ VoteBit(vs, id, phase) % 2 = Parity(phase)
    <3>1. VoteBit(vs, id, phase) \div 2 = i - 1
      BY <1>2, <1>3, <2>2, <2>3
    <3> QED  BY <1>2, <1>3, <2>2, <2>3, <3>1
  <2>5. VoteBit(vs, id, phase) \in AllBits(vs)
    <3>1. Parity(phase) \in {0, 1}
      BY <1>2
    <3> QED  BY <1>1, <2>2, <2>3, <3>1 DEF AllBits, n
  <2>6. VoterOfBit(vs, VoteBit(vs, id, phase)) = vs.voters[i]
    BY <2>4 DEF VoterOfBit
  <2>7. WeightOfVoter(vs, id) = vs.voters[i].weight
    BY <2>2 DEF WeightOfVoter
  <2> QED  BY <2>1, <2>4, <2>5, <2>6, <2>7
<1>6. \A p \in Nat : IsVoteOf(vs, p) <=> p \in AllBits(vs)
  <2> TAKE p \in Nat
  <2>1. PICK k \in Nat, d \in {0, 1} : p = k * 2 + d /\ p \div 2 = k
    BY <1>4
  <2>2. k < n <=> p \in 0 .. 2 * n - 1
    BY <1>1, <2>1
  <2> QED  BY <2>1, <2>2 DEF IsVoteOf, AllBits, n
<1>7. ASSUME NEW p \in AllBits(vs)
      PROVE  /\ VoterOfBit(vs, p).id \in VoterIds(vs)
             /\ \A phase \in Phase :
                    p % 2 = Parity(phase) => p = VoteBit(vs, VoterOfBit(vs, p).id, phase)
  <2>1. p \in Nat /\ p \div 2 \in Nat
    BY <1>1, <1>4 DEF AllBits, n
  <2>2. p \div 2 < n
    BY <1>6, <2>1 DEF IsVoteOf, n
  <2>3. p \div 2 + 1 \in 1 .. n
    BY <1>1, <2>1, <2>2
  <2>4. Position(vs, VoterOfBit(vs, p).id) = p \div 2 /\ VoterOfBit(vs, p).id \in VoterIds(vs)
    <3>1. Position(vs, vs.voters[p \div 2 + 1].id) = (p \div 2 + 1) - 1
      BY <1>1, <2>3
    <3> QED  BY <1>1, <2>1, <2>3, <3>1 DEF VoterOfBit
  <2>5. ASSUME NEW phase \in Phase, p % 2 = Parity(phase) PROVE p = VoteBit(vs, VoterOfBit(vs, p).id, phase)
    BY <1>4, <2>1, <2>4, <2>5 DEF VoteBit
  <2> QED  BY <2>4, <2>5
<1> QED  BY <1>5, <1>6, <1>7

-----------------------------------------------------------------------------
(* The weight of a node *)

\* A sum over other names.
LEMMA SumOfRenamed ==
    ASSUME NEW w, NEW S, IsWeights(w, S), NEW v, NEW T, NEW f \in [S -> T],
           \A i, j \in S : f[i] = f[j] => i = j,
           \A t \in T : \E i \in S : f[i] = t,
           \A i \in S : v[f[i]] = w[i]
    PROVE  IsWeights(v, T) /\ Sum(v, T) = Sum(w, S)
<1>1. IsFiniteSet(T)
  <2>1. f \in Surjection(S, T)
    BY DEF Surjection
  <2> QED  BY <2>1, FS_Surjection DEF IsWeights
<1>2. IsWeights(v, T)
  <2>1. ASSUME NEW t \in T PROVE v[t] \in Nat
    <3>1. PICK i \in S : f[i] = t
      OBVIOUS
    <3> QED  BY <3>1 DEF IsWeights
  <2> QED  BY <1>1, <2>1 DEF IsWeights
<1> DEFINE image(s) == {f[i] : i \in s}
           Good == {s \in SUBSET S : Sum(v, image(s)) = Sum(w, s)}
<1>3. \A s \in SUBSET S : IsWeights(w, s) /\ IsWeights(v, image(s))
  <2> TAKE s \in SUBSET S
  <2>1. image(s) \in SUBSET T
    OBVIOUS
  <2> QED  BY <1>2, <2>1, FS_Subset DEF IsWeights
<1>4. {} \in Good
  <2>1. Sum(w, {}) = 0 /\ Sum(v, {}) = 0
    <3>1. IsWeights(w, {}) /\ IsWeights(v, {})
      BY FS_EmptySet DEF IsWeights
    <3> QED  BY <3>1, SumFacts
  <2>2. image({}) = {}
    OBVIOUS
  <2> QED  BY <2>1, <2>2
<1>5. ASSUME NEW s \in SUBSET S, NEW i \in s, s \ {i} \in Good PROVE s \in Good
  <2>1. Sum(v, image(s \ {i})) = Sum(w, s \ {i})
    BY <1>5
  <2>2. Sum(w, s) = w[i] + Sum(w, s \ {i})
    <3>1. IsWeights(w, s)
      BY <1>3
    <3> QED  BY <3>1, SumFacts
  <2>3. image(s) \ {f[i]} = image(s \ {i}) /\ f[i] \in image(s)
    OBVIOUS
  <2>4. Sum(v, image(s)) = v[f[i]] + Sum(v, image(s) \ {f[i]})
    <3>1. IsWeights(v, image(s)) /\ f[i] \in image(s)
      BY <1>3, <2>3
    <3> HIDE DEF image
    <3> QED  BY <3>1, SumFacts
  <2>5. v[f[i]] = w[i]
    OBVIOUS
  <2> HIDE DEF image
  <2>6. Sum(v, image(s)) = Sum(w, s)
    BY <2>1, <2>2, <2>3, <2>4, <2>5
  <2> QED  BY <2>6
<1>6. S \in Good
  <2>1. \A s \in SUBSET S : s # {} /\ (\A i \in s : s \ {i} \in Good) => s \in Good
    BY <1>5
  <2> HIDE DEF Good
  <2> QED  BY <1>4, <2>1, SubsetInduction DEF IsWeights
<1>7. image(S) = T
  OBVIOUS
<1> QED  BY <1>2, <1>6, <1>7

\* A sum that saturates.
Capped(total) == IF total > MaxWeight THEN MaxWeight ELSE total

\* Adding up with saturation, in any order.
LEMMA FoldIsCapped ==
    ASSUME NEW w, NEW S, IsWeights(w, S)
    PROVE  FoldSet(LAMBDA p, total : SatAdd(total, w[p]), 0, S) = Capped(Sum(w, S))
<1> DEFINE pick(s) == CHOOSE x \in s : TRUE
           Step(f, s) == IF s = {} THEN 0 ELSE SatAdd(f[s \ {pick(s)}], w[pick(s)])
           iter[s \in SUBSET S] == IF s = {} THEN 0 ELSE SatAdd(iter[s \ {pick(s)}], w[pick(s)])
           F == [s \in SUBSET S |-> Capped(Sum(w, s))]
           Good == {s \in SUBSET S : iter[s] = F[s]}
<1>1. FoldSet(LAMBDA p, total : SatAdd(total, w[p]), 0, S) = iter[S]
  BY DEF FoldSet, MapThenFoldSet
<1>2. iter = CHOOSE f : f = [s \in SUBSET S |-> Step(f, s)]
  OBVIOUS
<1> HIDE DEF iter
<1>3. ASSUME NEW s \in SUBSET S PROVE IsWeights(w, s) /\ Sum(w, s) \in Nat
  <2>1. IsWeights(w, s)
    BY FS_Subset DEF IsWeights
  <2> QED  BY <2>1, SumFacts
<1>4. ASSUME NEW s \in SUBSET S, s # {} PROVE pick(s) \in s
  <2>1. \E x \in s : TRUE
    BY <1>4
  <2> QED  BY <2>1
<1> HIDE DEF pick
<1>5. ASSUME NEW s \in SUBSET S PROVE F[s] = Step(F, s)
  <2>1. CASE s = {}
    <3>1. Sum(w, s) = 0
      BY <1>3, <2>1, SumFacts
    <3> QED  BY <2>1, <3>1, MaxWeightAssumption DEF Capped
  <2>2. CASE s # {}
    <3> DEFINE r == s \ {pick(s)}
    <3>1. Sum(w, s) = w[pick(s)] + Sum(w, r)
      BY <1>3, <1>4, <2>2, SumFacts
    <3>2. Sum(w, r) \in Nat /\ w[pick(s)] \in Nat /\ r \in SUBSET S
      BY <1>3, <1>4, <2>2 DEF IsWeights
    <3>3. Capped(Sum(w, s)) = SatAdd(Capped(Sum(w, r)), w[pick(s)])
      BY <3>1, <3>2, MaxWeightAssumption DEF Capped, SatAdd
    <3> QED  BY <2>2, <3>2, <3>3
  <2> QED  BY <2>1, <2>2
<1>6. iter = [s \in SUBSET S |-> Step(iter, s)]
  <2>1. F = [s \in SUBSET S |-> Step(F, s)]
    BY <1>5
  <2> HIDE DEF Step, F
  <2> QED  BY <1>2, <2>1
<1> HIDE DEF F
<1>7. {} \in Good
  BY <1>5, <1>6
<1>8. ASSUME NEW s \in SUBSET S, s # {}, \A j \in s : s \ {j} \in Good PROVE s \in Good
  <2>1. pick(s) \in s
    BY <1>4, <1>8
  <2>2. iter[s \ {pick(s)}] = F[s \ {pick(s)}]
    BY <1>8, <2>1
  <2>3. iter[s] = Step(iter, s) /\ F[s] = Step(F, s)
    BY <1>5, <1>6
  <2> QED  BY <2>2, <2>3
<1>9. S \in Good
  <2> HIDE DEF Good
  <2> QED  BY <1>7, <1>8, SubsetInduction DEF IsWeights
<1> QED  BY <1>1, <1>9 DEF F

\* The voters who have a bit of the phase among these.
VotersWith(vs, bits, phase) == {id \in VoterIds(vs) : VoteBit(vs, id, phase) \in bits}

\* The weights of the voters of a set.
WeightsOf(vs) == [id \in VoterIds(vs) |-> WeightOfVoter(vs, id)]

\* The weight of voters is a sum, no more than the total.
LEMMA WeightFacts ==
    ASSUME NEW vs, IsVoterSet(vs), NEW ids \in SUBSET VoterIds(vs)
    PROVE  /\ IsFiniteSet(VoterIds(vs)) /\ IsWeights(WeightsOf(vs), ids)
           /\ WeightOfIds(vs, ids) = Sum(WeightsOf(vs), ids) /\ WeightOfIds(vs, ids) \in Nat
           /\ WeightOfIds(vs, ids) <= vs.total_weight
           /\ vs.total_weight \in Nat \ {0} /\ vs.total_weight <= MaxWeight
           /\ \A id \in VoterIds(vs) : WeightOfVoter(vs, id) \in Nat \ {0}
<1> DEFINE V == VoterIds(vs)
           n == Len(vs.voters)
<1>1. /\ n \in Nat \ {0} /\ DOMAIN vs.voters = 1 .. n
      /\ \A i \in 1 .. n : vs.voters[i].weight \in Nat \ {0} /\ vs.voters[i].id \in V
      /\ \A id \in V : \E i \in 1 .. n : vs.voters[i].id = id
      /\ \A i \in 1 .. n : vs.voters[i].weight = WeightOfVoter(vs, vs.voters[i].id)
  <2>1. HasVoters(vs, V, WeightsOf(vs))
    BY SetHasVoters DEF WeightsOf
  <2> QED  BY <2>1 DEF HasVoters, IsVoterSet, WeightsOf, VoterIds
<1>2. IsFiniteSet(V)
  <2> DEFINE f == [i \in 1 .. n |-> vs.voters[i].id]
  <2>1. f \in Surjection(1 .. n, V)
    BY <1>1 DEF Surjection
  <2>2. IsFiniteSet(1 .. n)
    BY <1>1, FS_Interval
  <2> QED  BY <2>1, <2>2, FS_Surjection
<1> HIDE DEF V, n
<1>3. \A id \in V : WeightOfVoter(vs, id) \in Nat \ {0}
  BY <1>1
<1>4. IsWeights(WeightsOf(vs), V) /\ ids \in SUBSET V
  BY <1>2, <1>3 DEF IsWeights, WeightsOf, V
<1>5. ASSUME NEW S \in SUBSET V PROVE IsWeights(WeightsOf(vs), S) /\ WeightOfIds(vs, S) = Sum(WeightsOf(vs), S)
  <2> DEFINE w == [id \in S |-> WeightOfVoter(vs, id)]
  <2>1. WeightOfIds(vs, S) = Sum(w, S)
    BY DEF WeightOfIds, SumFunction, Sum
  <2>2. IsWeights(WeightsOf(vs), S)
    BY <1>4, SumOfLess
  <2>3. \A id \in S : WeightsOf(vs)[id] = w[id]
    BY DEF WeightsOf, V
  <2> HIDE DEF w
  <2> QED  BY <2>1, <2>2, <2>3, SumOfSame
<1>6. vs.total_weight = Sum(WeightsOf(vs), V) /\ vs.total_weight <= MaxWeight
  BY <1>5 DEF IsVoterSet, V
<1>7. vs.total_weight \in Nat /\ vs.total_weight > 0
  <2>1. \E id \in V : WeightsOf(vs)[id] > 0
    BY <1>1, <1>3 DEF WeightsOf, V
  <2> QED  BY <1>4, <1>6, <2>1, SumFacts, SumIsPositive
<1>8. WeightOfIds(vs, ids) \in Nat /\ WeightOfIds(vs, ids) <= vs.total_weight
  BY <1>4, <1>5, <1>6, SumFacts, SumOfLess
<1> QED  BY <1>2, <1>3, <1>4, <1>5, <1>6, <1>7, <1>8 DEF V

\* Context::weight: the voters whose bits the node has in the phase, or the equivocations,
\* once each.  Their weights never saturate.
LEMMA NodeWeightIsExact ==
    ASSUME NEW vs, IsVoterSet(vs), NEW equivocations \in SUBSET Nat, NEW node \in SUBSET Nat, NEW phase \in Phase
    PROVE  NodeWeight(vs, equivocations, node, phase) =
               WeightOfIds(vs, VotersWith(vs, node \union equivocations, phase))
<1> DEFINE bits == {p \in node \union equivocations : p % 2 = Parity(phase) /\ IsVoteOf(vs, p)}
           ids == VotersWith(vs, node \union equivocations, phase)
           f == [p \in bits |-> VoterOfBit(vs, p).id]
           g == [id \in ids |-> VoteBit(vs, id, phase)]
           w == [p \in bits |-> VoterOfBit(vs, p).weight]
<1>1. \A p \in bits : /\ p \in AllBits(vs) /\ p = VoteBit(vs, VoterOfBit(vs, p).id, phase)
                      /\ VoterOfBit(vs, p).id \in VoterIds(vs)
  BY BitFacts
<1>2. \A id \in VoterIds(vs) : VoterOfBit(vs, VoteBit(vs, id, phase)).weight = WeightOfVoter(vs, id)
  BY BitFacts
<1>3. \A id \in ids : VoteBit(vs, id, phase) \in bits /\ VoterOfBit(vs, VoteBit(vs, id, phase)).id = id
  <2> TAKE id \in ids
  <2>1. id \in VoterIds(vs) /\ VoteBit(vs, id, phase) \in node \union equivocations
    BY DEF VotersWith
  <2>2. VoteBit(vs, id, phase) \in Nat
    BY <2>1
  <2> QED  BY <2>1, <2>2, BitFacts
<1>4. \A p \in bits : VoterOfBit(vs, p).id \in ids /\ VoterOfBit(vs, p).weight = WeightOfVoter(vs, VoterOfBit(vs, p).id)
  BY <1>1, <1>2 DEF VotersWith
<1>5. ids \in SUBSET VoterIds(vs)
  BY DEF VotersWith
<1> HIDE DEF bits, ids
<1>6. /\ IsWeights(WeightsOf(vs), ids) /\ WeightOfIds(vs, ids) = Sum(WeightsOf(vs), ids)
      /\ WeightOfIds(vs, ids) \in Nat /\ WeightOfIds(vs, ids) <= MaxWeight
  BY <1>5, WeightFacts, MaxWeightAssumption
<1>7. IsWeights(w, bits) /\ Sum(w, bits) = Sum(WeightsOf(vs), ids)
  <2>1. g \in [ids -> bits] /\ \A i, j \in ids : g[i] = g[j] => i = j
    BY <1>3
  <2>2. \A p \in bits : \E id \in ids : g[id] = p
    BY <1>1, <1>4
  <2>3. \A id \in ids : w[g[id]] = WeightsOf(vs)[id]
    BY <1>2, <1>3, <1>5 DEF WeightsOf
  <2> HIDE DEF g, w
  <2> QED  BY <1>6, <2>1, <2>2, <2>3, SumOfRenamed
<1>8. Capped(Sum(w, bits)) = WeightOfIds(vs, ids)
  BY <1>6, <1>7, MaxWeightAssumption DEF Capped
<1>9. NodeWeight(vs, equivocations, node, phase) = FoldSet(LAMBDA p, total : SatAdd(total, w[p]), 0, bits)
  BY DEF NodeWeight, bits
<1> HIDE DEF w
<1>10. FoldSet(LAMBDA p, total : SatAdd(total, w[p]), 0, bits) = Capped(Sum(w, bits))
  BY <1>7, FoldIsCapped
<1> QED  BY <1>8, <1>9, <1>10 DEF ids

-----------------------------------------------------------------------------
(* Blocks *)

\* Chains of blocks: a block is on its own chain, chains are linear, numbers rise along them
\* and leave nothing out.
LEMMA ChainFacts ==
    /\ \A b \in Block : b \in Ancestors[b] /\ Ancestors[b] \subseteq Block /\ Number[b] \in Nat
    /\ \A a, b \in Block : a \in Ancestors[b] => Ancestors[a] \subseteq Ancestors[b]
    /\ \A b \in Block : \A x, y \in Ancestors[b] : x \in Ancestors[y] \/ y \in Ancestors[x]
    /\ \A a, b \in Block : a \in Ancestors[b] /\ a # b => Number[a] < Number[b] /\ b \notin Ancestors[a]
    /\ \A a, b \in Block : a \in Ancestors[b] => Number[a] <= Number[b]
    /\ \A b \in Block : \A x, y \in Ancestors[b] : Number[x] = Number[y] => x = y
    /\ \A b \in Block : \A x, y \in Ancestors[b] : x \in Ancestors[y] <=> Number[x] <= Number[y]
<1>1. /\ \A b \in Block : b \in Ancestors[b] /\ Ancestors[b] \subseteq Block /\ Number[b] \in Nat
      /\ \A a, b \in Block : a \in Ancestors[b] => Ancestors[a] \subseteq Ancestors[b]
      /\ \A b \in Block : \A x, y \in Ancestors[b] : x \in Ancestors[y] \/ y \in Ancestors[x]
      /\ \A a, b \in Block : a \in Ancestors[b] /\ a # b => Number[a] < Number[b]
  BY BlockTreeAssumption
<1>2. \A a, b \in Block : a \in Ancestors[b] /\ a # b => b \notin Ancestors[a]
  <2> SUFFICES ASSUME NEW a \in Block, NEW b \in Block, a \in Ancestors[b], a # b, b \in Ancestors[a]
               PROVE  FALSE
    OBVIOUS
  <2>1. Number[a] < Number[b] /\ Number[b] < Number[a] /\ Number[a] \in Nat /\ Number[b] \in Nat
    BY <1>1
  <2> QED  BY <2>1
<1>3. \A a, b \in Block : a \in Ancestors[b] => Number[a] <= Number[b]
  <2> SUFFICES ASSUME NEW a \in Block, NEW b \in Block, a \in Ancestors[b]
               PROVE  Number[a] <= Number[b]
    OBVIOUS
  <2>1. Number[a] \in Nat /\ Number[b] \in Nat /\ (a # b => Number[a] < Number[b])
    BY <1>1
  <2> QED  BY <2>1
<1>4. ASSUME NEW b \in Block, NEW x \in Ancestors[b], NEW y \in Ancestors[b]
      PROVE  /\ Number[x] = Number[y] => x = y
             /\ x \in Ancestors[y] <=> Number[x] <= Number[y]
  <2>1. x \in Block /\ y \in Block /\ Number[x] \in Nat /\ Number[y] \in Nat
    BY <1>1
  <2>2. x \in Ancestors[y] \/ y \in Ancestors[x]
    BY <1>1
  <2>3. (x \in Ancestors[y] /\ x # y => Number[x] < Number[y]) /\ (y \in Ancestors[x] /\ x # y => Number[y] < Number[x])
    BY <1>1, <2>1
  <2>4. x = y => x \in Ancestors[y]
    BY <1>1, <2>1
  <2> QED  BY <2>1, <2>2, <2>3, <2>4
<1>5. \A b \in Block : \A x, y \in Ancestors[b] : Number[x] = Number[y] => x = y
  BY <1>4
<1>6. \A b \in Block : \A x, y \in Ancestors[b] : x \in Ancestors[y] <=> Number[x] <= Number[y]
  BY <1>4
<1> QED  BY <1>1, <1>2, <1>3, <1>5, <1>6

\* AncestorAt finds the one block of a chain with a number.
LEMMA AncestorAtFacts ==
    ASSUME NEW b \in Block, NEW a \in Ancestors[b], NEW n \in Number[a] .. Number[b]
    PROVE  /\ AncestorAt(b, n) \in Ancestors[b] /\ Number[AncestorAt(b, n)] = n
           /\ a \in Ancestors[AncestorAt(b, n)]
           /\ \A x \in Ancestors[b] : Number[x] = n => AncestorAt(b, n) = x
<1>1. PICK x \in Ancestors[b] : Number[x] = n
  BY ContiguityAssumption
<1>2. AncestorAt(b, n) \in Ancestors[b] /\ Number[AncestorAt(b, n)] = n
  BY <1>1 DEF AncestorAt
<1>3. Number[a] <= n
  BY ChainFacts
<1> QED  BY <1>2, <1>3, ChainFacts

-----------------------------------------------------------------------------
(* The shape of a graph *)

\* p is the highest of the nodes that are below h.
HighestBelow(nodes, h, p) ==
    /\ p \in nodes /\ p \in Ancestors[h] /\ p # h
    /\ \A x \in nodes : x \in Ancestors[h] /\ x # h => x \in Ancestors[p]

\* The edge from h to p: the blocks from the parent of h down to p.
Edge(h, p) == [i \in 1 .. (Number[h] - Number[p]) |-> AncestorAt(h, Number[h] - i)]

\* Nodes are blocks of the chains from the base, up to some height.
NodesFit(g) ==
    /\ DOMAIN g.entries \subseteq Block
    /\ g.base \in DOMAIN g.entries
    /\ \A h \in DOMAIN g.entries : g.base \in Ancestors[h]
    /\ \E n \in Nat : \A h \in DOMAIN g.entries : Number[h] <= n

\* Every node but the base has the edge to the next node, which has it as a descendent.
EdgesFit(g) ==
    /\ g.entries[g.base].ancestors = <<>>
    /\ \A h \in DOMAIN g.entries \ {g.base} :
           \E p \in DOMAIN g.entries :
               HighestBelow(DOMAIN g.entries, h, p) /\ g.entries[h].ancestors = Edge(h, p)
    /\ \A h \in DOMAIN g.entries :
           g.entries[h].descendents = {d \in DOMAIN g.entries : HighestBelow(DOMAIN g.entries, d, h)}

\* The heads are the nodes with no node above.
HeadsFit(g) ==
    g.heads = {h \in DOMAIN g.entries : \A d \in DOMAIN g.entries : h \in Ancestors[d] => d = h}

\* The graph is the forest of its nodes.
IsGraph(g) == NodesFit(g) /\ EdgesFit(g) /\ HeadsFit(g)

\* The edge of a node, as Entry reads it: offsets are differences of numbers.
LEMMA EdgeFacts ==
    ASSUME NEW g, IsGraph(g), NEW h \in DOMAIN g.entries, h # g.base
    PROVE  /\ AncestorNode(g, h) \in DOMAIN g.entries
           /\ HighestBelow(DOMAIN g.entries, h, AncestorNode(g, h))
           /\ g.entries[h].ancestors = Edge(h, AncestorNode(g, h))
           /\ Number[AncestorNode(g, h)] < Number[h]
           /\ \A n \in Nat : AncestorBlock(g, h, n) =
                  IF Number[AncestorNode(g, h)] <= n /\ n < Number[h] THEN AncestorAt(h, n) ELSE None
<1>1. PICK p \in DOMAIN g.entries :
          HighestBelow(DOMAIN g.entries, h, p) /\ g.entries[h].ancestors = Edge(h, p)
  BY DEF IsGraph, EdgesFit
<1>2. p \in Block /\ h \in Block /\ p \in Ancestors[h] /\ p # h
  BY <1>1 DEF IsGraph, NodesFit, HighestBelow
<1>3. Number[p] \in Nat /\ Number[h] \in Nat /\ Number[p] < Number[h]
  BY <1>2, ChainFacts
<1>4. Len(Edge(h, p)) = Number[h] - Number[p] /\ Edge(h, p) # <<>>
  BY <1>3 DEF Edge
<1>5. AncestorAt(h, Number[p]) = p
  BY <1>2, <1>3, AncestorAtFacts
<1>6. Last(Edge(h, p)) = AncestorAt(h, Number[h] - (Number[h] - Number[p]))
  BY <1>3, <1>4 DEF Edge, Last
<1>7. Number[h] - (Number[h] - Number[p]) = Number[p]
  BY <1>3
<1>8. AncestorNode(g, h) = p
  BY <1>1, <1>4, <1>5, <1>6, <1>7 DEF AncestorNode
<1>9. ASSUME NEW n \in Nat
      PROVE  AncestorBlock(g, h, n) =
                 IF Number[p] <= n /\ n < Number[h] THEN AncestorAt(h, n) ELSE None
  <2>1. CASE n < Number[h] /\ Number[p] <= n
    <3>1. Number[h] - n \in 1 .. (Number[h] - Number[p]) /\ Number[h] - (Number[h] - n) = n
      BY <1>3, <2>1
    <3>2. Edge(h, p)[Number[h] - n] = AncestorAt(h, n)
      BY <3>1 DEF Edge
    <3> QED  BY <1>1, <1>3, <1>4, <2>1, <3>1, <3>2 DEF AncestorBlock
  <2>2. CASE n < Number[h] /\ ~(Number[p] <= n)
    BY <1>1, <1>3, <1>4, <2>2 DEF AncestorBlock
  <2>3. CASE ~(n < Number[h])
    BY <2>3 DEF AncestorBlock
  <2> QED  BY <2>1, <2>2, <2>3
<1> QED  BY <1>1, <1>3, <1>8, <1>9

\* The base has no edge.
LEMMA BaseFacts ==
    ASSUME NEW g, IsGraph(g)
    PROVE  /\ g.base \in DOMAIN g.entries
           /\ AncestorNode(g, g.base) = None
           /\ \A n \in Nat : AncestorBlock(g, g.base, n) = None
<1>1. g.base \in DOMAIN g.entries /\ g.base \in Block /\ g.entries[g.base].ancestors = <<>>
  BY DEF IsGraph, NodesFit, EdgesFit
<1>2. Number[g.base] \in Nat
  BY <1>1, ChainFacts
<1>3. ASSUME NEW n \in Nat PROVE AncestorBlock(g, g.base, n) = None
  BY <1>1, <1>2 DEF AncestorBlock
<1> QED  BY <1>1, <1>3 DEF AncestorNode

\* Entry::in_direct_ancestry: the block is on the edge of the node, its lower end included.
LEMMA DirectAncestry ==
    ASSUME NEW g, IsGraph(g), NEW h \in DOMAIN g.entries, NEW b \in Block
    PROVE  InDirectAncestry(g, h, b) <=>
               h # g.base /\ b \in Ancestors[h] /\ b # h /\ AncestorNode(g, h) \in Ancestors[b]
<1>1. h \in Block /\ Number[h] \in Nat /\ Number[b] \in Nat /\ b # None
  BY ChainFacts, BlockTreeAssumption DEF IsGraph, NodesFit
<1>2. CASE h = g.base
  BY <1>1, <1>2, BaseFacts DEF InDirectAncestry
<1>3. CASE h # g.base
  <2> DEFINE p == AncestorNode(g, h)
  <2>1. p \in Block /\ p \in Ancestors[h] /\ Number[p] \in Nat
    BY <1>3, EdgeFacts, ChainFacts DEF IsGraph, NodesFit, HighestBelow
  <2>2. AncestorBlock(g, h, Number[b]) =
            IF Number[p] <= Number[b] /\ Number[b] < Number[h] THEN AncestorAt(h, Number[b]) ELSE None
    BY <1>1, <1>3, EdgeFacts
  <2> HIDE DEF p
  <2>3. ASSUME InDirectAncestry(g, h, b)
        PROVE  b \in Ancestors[h] /\ b # h /\ p \in Ancestors[b]
    <3>1. Number[p] <= Number[b] /\ Number[b] < Number[h] /\ AncestorAt(h, Number[b]) = b
      BY <1>1, <2>2, <2>3 DEF InDirectAncestry
    <3>2. Number[b] \in Number[p] .. Number[h]
      BY <1>1, <2>1, <3>1
    <3> QED  BY <1>1, <2>1, <3>1, <3>2, AncestorAtFacts
  <2>4. ASSUME b \in Ancestors[h], b # h, p \in Ancestors[b]
        PROVE  InDirectAncestry(g, h, b)
    <3>1. Number[b] < Number[h] /\ Number[p] <= Number[b]
      BY <1>1, <2>1, <2>4, ChainFacts
    <3>2. Number[b] \in Number[p] .. Number[h]
      BY <1>1, <2>1, <3>1
    <3>3. AncestorAt(h, Number[b]) = b
      BY <1>1, <2>1, <2>4, <3>2, AncestorAtFacts
    <3> QED  BY <2>2, <3>1, <3>3 DEF InDirectAncestry
  <2> QED  BY <1>3, <2>3, <2>4 DEF p
<1> QED  BY <1>2, <1>3

-----------------------------------------------------------------------------
(* Searches *)

\* A node below a node is the node itself or at or below the next one.
LEMMA NodesBelow ==
    ASSUME NEW g, IsGraph(g), NEW h \in DOMAIN g.entries, NEW x \in DOMAIN g.entries
    PROVE  x \in Ancestors[h] <=>
               x = h \/ (h # g.base /\ x \in Ancestors[AncestorNode(g, h)])
<1>1. h \in Block /\ x \in Block /\ h \in Ancestors[h]
  BY ChainFacts DEF IsGraph, NodesFit
<1>2. CASE h = g.base
  <2>1. h \in Ancestors[x]
    BY <1>2 DEF IsGraph, NodesFit
  <2> QED  BY <1>1, <1>2, <2>1, ChainFacts
<1>3. CASE h # g.base
  <2> DEFINE p == AncestorNode(g, h)
  <2>1. p \in Block /\ p \in Ancestors[h] /\ (x \in Ancestors[h] /\ x # h => x \in Ancestors[p])
    BY <1>3, EdgeFacts DEF IsGraph, NodesFit, HighestBelow
  <2>2. x \in Ancestors[p] => x \in Ancestors[h]
    BY <1>1, <2>1, ChainFacts
  <2> QED  BY <1>1, <1>3, <2>1, <2>2
<1> QED  BY <1>2, <1>3

\* Every node is at or below a head.
LEMMA HeadAbove ==
    ASSUME NEW g, IsGraph(g), NEW x \in DOMAIN g.entries
    PROVE  \E h \in g.heads : x \in Ancestors[h]
<1>1. DOMAIN g.entries \subseteq Block
  BY DEF IsGraph, NodesFit
<1>2. PICK n \in Nat : \A h \in DOMAIN g.entries : Number[h] <= n
  BY DEF IsGraph, NodesFit
<1> DEFINE above == {h \in DOMAIN g.entries : x \in Ancestors[h]}
           depths == {n - Number[h] : h \in above}
<1>3. x \in above
  BY <1>1, ChainFacts
<1>4. depths \in SUBSET Nat /\ depths # {}
  BY <1>1, <1>2, <1>3, ChainFacts
<1>5. PICK k \in depths : \A m \in depths : k <= m
  BY <1>4, SmallestNumber
<1>6. PICK h \in above : k = n - Number[h]
  BY <1>5
<1>7. ASSUME NEW d \in DOMAIN g.entries, h \in Ancestors[d]
      PROVE  d = h
  <2>1. d \in Block /\ h \in Block /\ x \in Ancestors[d] /\ Number[d] \in Nat /\ Number[h] \in Nat
    BY <1>1, <1>7, ChainFacts
  <2>2. n - Number[h] <= n - Number[d]
    BY <1>5, <1>6, <2>1
  <2>3. ~(Number[h] < Number[d])
    BY <2>1, <2>2
  <2> QED  BY <1>7, <2>1, <2>3, ChainFacts
<1>8. h \in g.heads
  BY <1>7 DEF IsGraph, HeadsFit
<1> QED  BY <1>8

\* find_containing_nodes finds the nodes with the block on their edges, all of them.
LEMMA Containing ==
    ASSUME NEW g, IsGraph(g), NEW b \in Block
    PROVE  ContainingNodes(g, b) = {h \in DOMAIN g.entries : InDirectAncestry(g, h, b)}
<1> DEFINE nodes == DOMAIN g.entries
           walk[h \in DOMAIN g.entries] ==
               IF AncestorBlock(g, h, Number[b]) # None
               THEN IF InDirectAncestry(g, h, b) THEN {h} ELSE {}
               ELSE IF AncestorNode(g, h) = None THEN {} ELSE walk[AncestorNode(g, h)]
           Step(w, h) ==
               IF AncestorBlock(g, h, Number[b]) # None
               THEN IF InDirectAncestry(g, h, b) THEN {h} ELSE {}
               ELSE IF AncestorNode(g, h) = None THEN {} ELSE w[AncestorNode(g, h)]
           found == [h \in DOMAIN g.entries |->
                        {x \in nodes : x \in Ancestors[h] /\ InDirectAncestry(g, x, b)}]
<1>1. ContainingNodes(g, b) = UNION {walk[h] : h \in g.heads}
  BY DEF ContainingNodes
<1>2. walk = CHOOSE w : w = [h \in DOMAIN g.entries |-> Step(w, h)]
  OBVIOUS
<1> HIDE DEF walk
<1>3. ASSUME NEW h \in nodes PROVE found[h] = Step(found, h)
  <2>1. h \in Block /\ Number[h] \in Nat /\ Number[b] \in Nat /\ nodes \subseteq Block /\ None \notin Block
    BY ChainFacts, BlockTreeAssumption DEF IsGraph, NodesFit
  <2>2. CASE h = g.base
    <3>1. AncestorBlock(g, h, Number[b]) = None /\ AncestorNode(g, h) = None
      BY <2>1, <2>2, BaseFacts
    <3>2. \A x \in nodes : x \in Ancestors[h] => ~InDirectAncestry(g, x, b)
      BY <2>2, NodesBelow, DirectAncestry
    <3> QED  BY <3>1, <3>2
  <2>3. CASE h # g.base
    <3> DEFINE p == AncestorNode(g, h)
    <3>1. /\ p \in nodes /\ p \in Block /\ p # None /\ Number[p] \in Nat
          /\ AncestorBlock(g, h, Number[b]) =
                 IF Number[p] <= Number[b] /\ Number[b] < Number[h] THEN AncestorAt(h, Number[b]) ELSE None
          /\ p \in Ancestors[h]
      BY <2>1, <2>3, EdgeFacts, ChainFacts DEF HighestBelow
    <3>2. \A x \in nodes : x \in Ancestors[h] <=> x = h \/ x \in Ancestors[p]
      BY <2>3, NodesBelow
    <3> HIDE DEF p
    <3>3. CASE Number[p] <= Number[b] /\ Number[b] < Number[h]
      <4>1. AncestorBlock(g, h, Number[b]) # None
        <5>1. Number[b] \in Number[p] .. Number[h]
          BY <2>1, <3>1, <3>3
        <5>2. AncestorAt(h, Number[b]) \in Block
          BY <2>1, <3>1, <5>1, AncestorAtFacts, ChainFacts
        <5> QED  BY <2>1, <3>1, <3>3, <5>2
      <4>2. ASSUME NEW x \in nodes, x \in Ancestors[p], InDirectAncestry(g, x, b) PROVE FALSE
        <5>1. x \in Block /\ b \in Ancestors[x] /\ b # x
          BY <2>1, <4>2, DirectAncestry
        <5>2. Number[b] < Number[x] /\ Number[x] <= Number[p] /\ Number[x] \in Nat
          BY <3>1, <4>2, <5>1, ChainFacts
        <5> QED  BY <2>1, <3>1, <3>3, <5>2
      <4> QED  BY <3>2, <4>1, <4>2
    <3>4. CASE ~(Number[p] <= Number[b] /\ Number[b] < Number[h])
      <4>1. AncestorBlock(g, h, Number[b]) = None
        BY <3>1, <3>4
      <4>2. ~InDirectAncestry(g, h, b)
        BY <2>1, <4>1 DEF InDirectAncestry
      <4>3. Step(found, h) = found[p]
        BY <3>1, <4>1 DEF p
      <4> QED  BY <3>1, <3>2, <4>2, <4>3
    <3> QED  BY <3>3, <3>4
  <2> QED  BY <2>2, <2>3
<1>4. walk = [h \in DOMAIN g.entries |-> Step(walk, h)]
  <2>1. found = [h \in DOMAIN g.entries |-> Step(found, h)]
    BY <1>3
  <2> HIDE DEF Step, found
  <2> QED  BY <1>2, <2>1
<1> HIDE DEF Step, found
<1>5. ASSUME NEW x \in nodes, walk[x] # found[x] PROVE FALSE
  <2> DEFINE bad == {y \in nodes : walk[y] # found[y]}
             wrong == {Number[h] : h \in bad}
  <2>1. nodes \subseteq Block /\ \A h \in nodes : Number[h] \in Nat
    BY ChainFacts DEF IsGraph, NodesFit
  <2>2. wrong \in SUBSET Nat /\ wrong # {}
    BY <1>5, <2>1
  <2>3. PICK h \in bad : \A m \in wrong : Number[h] <= m
    BY <2>2, SmallestNumber
  <2>4. walk[h] = Step(walk, h) /\ found[h] = Step(found, h) /\ h \in nodes /\ walk[h] # found[h]
    BY <1>3, <1>4
  <2>5. CASE AncestorNode(g, h) = None
    BY <2>4, <2>5 DEF Step
  <2>6. CASE AncestorNode(g, h) # None
    <3>1. h # g.base
      BY <2>6, BaseFacts
    <3>2. /\ AncestorNode(g, h) \in nodes /\ Number[AncestorNode(g, h)] < Number[h]
          /\ Number[AncestorNode(g, h)] \in Nat /\ Number[h] \in Nat
      BY <2>1, <2>4, <3>1, EdgeFacts
    <3>3. walk[AncestorNode(g, h)] = found[AncestorNode(g, h)]
      BY <2>3, <3>2
    <3> QED  BY <2>4, <3>3 DEF Step
  <2> QED  BY <2>5, <2>6
<1>6. g.heads \subseteq nodes
  BY DEF IsGraph, HeadsFit
<1>7. ContainingNodes(g, b) = UNION {found[h] : h \in g.heads}
  BY <1>1, <1>5, <1>6
<1>8. \A h \in nodes : found[h] = {x \in nodes : x \in Ancestors[h] /\ InDirectAncestry(g, x, b)}
  BY DEF found
<1>9. ASSUME NEW x PROVE x \in ContainingNodes(g, b) <=> x \in nodes /\ InDirectAncestry(g, x, b)
  <2>1. ASSUME x \in ContainingNodes(g, b) PROVE x \in nodes /\ InDirectAncestry(g, x, b)
    BY <1>6, <1>7, <1>8, <2>1
  <2>2. ASSUME x \in nodes, InDirectAncestry(g, x, b) PROVE x \in ContainingNodes(g, b)
    <3>1. PICK h \in g.heads : x \in Ancestors[h]
      BY <2>2, HeadAbove
    <3>2. x \in found[h]
      BY <1>6, <1>8, <2>2, <3>1
    <3> QED  BY <1>7, <3>2
  <2> QED  BY <2>1, <2>2
<1> QED  BY <1>9

\* There is one highest node below a block.
LEMMA OneHighest ==
    ASSUME NEW nodes, nodes \subseteq Block, NEW h \in Block, NEW p, NEW q,
           HighestBelow(nodes, h, p), HighestBelow(nodes, h, q)
    PROVE  p = q
<1>1. p \in Block /\ q \in Block /\ p \in Ancestors[q] /\ q \in Ancestors[p]
  BY DEF HighestBelow
<1> QED  BY <1>1, ChainFacts

\* A block that is not a node and has it on its edge: the next node is below the block too.
LEMMA ContainingFacts ==
    ASSUME NEW g, IsGraph(g), NEW b \in Block, b \notin DOMAIN g.entries,
           NEW h \in ContainingNodes(g, b)
    PROVE  /\ h \in DOMAIN g.entries /\ h # g.base /\ b \in Ancestors[h] /\ b # h
           /\ HighestBelow(DOMAIN g.entries, h, AncestorNode(g, h))
           /\ HighestBelow(DOMAIN g.entries, b, AncestorNode(g, h))
           /\ g.base \in Ancestors[b]
<1> DEFINE p == AncestorNode(g, h)
<1>1. h \in DOMAIN g.entries /\ InDirectAncestry(g, h, b)
  BY Containing
<1>2. h # g.base /\ b \in Ancestors[h] /\ b # h /\ p \in Ancestors[b]
  BY <1>1, DirectAncestry
<1>3. HighestBelow(DOMAIN g.entries, h, p) /\ p \in DOMAIN g.entries
  BY <1>1, <1>2, EdgeFacts
<1>4. DOMAIN g.entries \subseteq Block
  BY DEF IsGraph, NodesFit
<1>5. HighestBelow(DOMAIN g.entries, b, p)
  <2>1. ASSUME NEW x \in DOMAIN g.entries, x \in Ancestors[b], x # b
        PROVE  x \in Ancestors[p]
    <3>1. x \in Ancestors[h] /\ x # h
      BY <1>1, <1>2, <1>4, <2>1, ChainFacts
    <3> QED  BY <1>3, <3>1 DEF HighestBelow
  <2> QED  BY <1>2, <1>3, <2>1 DEF HighestBelow
<1>6. g.base \in Ancestors[p]
  BY <1>3 DEF IsGraph, NodesFit
<1> QED  BY <1>1, <1>2, <1>3, <1>4, <1>5, <1>6, ChainFacts

\* All nodes with the block on their edges have the same next node.
LEMMA ContainingShare ==
    ASSUME NEW g, IsGraph(g), NEW b \in Block, b \notin DOMAIN g.entries,
           NEW h \in ContainingNodes(g, b), NEW d \in ContainingNodes(g, b)
    PROVE  AncestorNode(g, h) = AncestorNode(g, d)
BY ContainingFacts, OneHighest DEF IsGraph, NodesFit

\* A block above the base and below a node is a node, or on an edge below that node.
LEMMA LowestAbove ==
    ASSUME NEW g, IsGraph(g), NEW b \in Block, b \notin DOMAIN g.entries, g.base \in Ancestors[b],
           NEW t \in DOMAIN g.entries, b \in Ancestors[t]
    PROVE  \E h \in ContainingNodes(g, b) : h \in Ancestors[t]
<1> DEFINE above == {h \in DOMAIN g.entries : b \in Ancestors[h] /\ h \in Ancestors[t]}
           numbers == {Number[h] : h \in above}
<1>1. DOMAIN g.entries \subseteq Block /\ g.base \in DOMAIN g.entries
  BY DEF IsGraph, NodesFit
<1>2. t \in above /\ numbers \in SUBSET Nat
  BY <1>1, ChainFacts
<1>3. PICK h \in above : \A m \in numbers : Number[h] <= m
  BY <1>2, SmallestNumber
<1>4. h \in DOMAIN g.entries /\ h \in Block /\ b \in Ancestors[h] /\ b # h /\ h \in Ancestors[t]
  BY <1>1
<1>5. h # g.base
  BY <1>4, ChainFacts
<1> DEFINE p == AncestorNode(g, h)
<1>6. p \in DOMAIN g.entries /\ p \in Block /\ p \in Ancestors[h] /\ Number[p] < Number[h]
  BY <1>1, <1>4, <1>5, EdgeFacts DEF HighestBelow
<1> HIDE DEF p
<1>7. b \notin Ancestors[p]
  <2> SUFFICES ASSUME b \in Ancestors[p] PROVE FALSE
    OBVIOUS
  <2>1. p \in above
    BY <1>1, <1>4, <1>6, ChainFacts
  <2>2. Number[h] <= Number[p] /\ Number[h] \in Nat /\ Number[p] \in Nat
    BY <1>3, <1>4, <1>6, <2>1, ChainFacts
  <2> QED  BY <1>6, <2>2
<1>8. p \in Ancestors[b]
  BY <1>4, <1>6, <1>7, ChainFacts
<1>9. InDirectAncestry(g, h, b)
  BY <1>4, <1>5, <1>8, DirectAncestry DEF p
<1> QED  BY <1>4, <1>9, Containing

-----------------------------------------------------------------------------
(* Votes *)

\* The votes for blocks at or above b, with the target c[v] of each vote v.
VotesAt(c, b) == {v \in DOMAIN c : c[v] # None /\ b \in Ancestors[c[v]]}

\* Votes are for nodes, and each node has the votes for blocks at or above it.
VotesFit(g, c) ==
    /\ \A v \in DOMAIN c : c[v] # None => c[v] \in DOMAIN g.entries
    /\ \A h \in DOMAIN g.entries : g.entries[h].cumulative_vote = VotesAt(c, h)

\* The votes for an edge's block are those of the nodes with it on their edges.
LEMMA VotesOnEdge ==
    ASSUME NEW g, NEW c, IsGraph(g), VotesFit(g, c),
           NEW b \in Block, b \notin DOMAIN g.entries, g.base \in Ancestors[b]
    PROVE  VotesOf(g, ContainingNodes(g, b)) = VotesAt(c, b)
<1>1. ASSUME NEW h \in ContainingNodes(g, b), NEW v \in g.entries[h].cumulative_vote
      PROVE  v \in VotesAt(c, b)
  <2>1. h \in DOMAIN g.entries /\ b \in Ancestors[h] /\ h \in Block
    BY ContainingFacts DEF IsGraph, NodesFit
  <2>2. v \in DOMAIN c /\ c[v] # None /\ h \in Ancestors[c[v]] /\ c[v] \in Block
    BY <1>1, <2>1 DEF VotesFit, VotesAt, IsGraph, NodesFit
  <2> QED  BY <2>1, <2>2, ChainFacts DEF VotesAt
<1>2. ASSUME NEW v \in VotesAt(c, b)
      PROVE  \E h \in ContainingNodes(g, b) : v \in g.entries[h].cumulative_vote
  <2>1. v \in DOMAIN c /\ c[v] # None /\ c[v] \in DOMAIN g.entries /\ b \in Ancestors[c[v]]
    BY DEF VotesFit, VotesAt
  <2>2. PICK h \in ContainingNodes(g, b) : h \in Ancestors[c[v]]
    BY <2>1, LowestAbove
  <2>3. h \in DOMAIN g.entries
    BY ContainingFacts
  <2> QED  BY <2>1, <2>2, <2>3 DEF VotesFit, VotesAt
<1> QED  BY <1>1, <1>2 DEF VotesOf

\* cumulative_vote, for every block at or above the base.
LEMMA CumulativeIsExact ==
    ASSUME NEW g, NEW c, IsGraph(g), VotesFit(g, c), NEW b \in Block, g.base \in Ancestors[b]
    PROVE  CumulativeVote(g, b) = VotesAt(c, b)
<1>1. CASE b \in DOMAIN g.entries
  BY <1>1 DEF CumulativeVote, IsNode, VotesFit
<1>2. CASE b \notin DOMAIN g.entries
  BY <1>2, VotesOnEdge DEF CumulativeVote, IsNode
<1> QED  BY <1>1, <1>2

-----------------------------------------------------------------------------
(* Changing the graph *)

\* A graph and its entries are records.
RecordsFit(g) ==
    /\ g = [entries |-> g.entries, heads |-> g.heads, base |-> g.base]
    /\ g.entries = [h \in DOMAIN g.entries |->
           NewEntry(g.entries[h].ancestors, g.entries[h].descendents, g.entries[h].cumulative_vote)]

\* An edge is a sequence of blocks.
LEMMA EdgeIsSeq ==
    ASSUME NEW h \in Block, NEW p \in Ancestors[h], p # h
    PROVE  /\ Number[h] \in Nat /\ Number[p] \in Nat /\ Number[p] < Number[h] /\ p \in Block
           /\ Edge(h, p) \in Seq(Block) /\ Len(Edge(h, p)) = Number[h] - Number[p]
           /\ \A i \in 1 .. (Number[h] - Number[p]) :
                  Edge(h, p)[i] = AncestorAt(h, Number[h] - i) /\ Edge(h, p)[i] \in Block
<1>1. Number[h] \in Nat /\ Number[p] \in Nat /\ Number[p] < Number[h] /\ p \in Block
  BY ChainFacts
<1>2. \A i \in 1 .. (Number[h] - Number[p]) : Number[h] - i \in Number[p] .. Number[h]
  BY <1>1
<1>3. \A i \in 1 .. (Number[h] - Number[p]) : AncestorAt(h, Number[h] - i) \in Block
  BY <1>2, AncestorAtFacts, ChainFacts
<1> DEFINE n == Number[h] - Number[p]
           edge == [i \in 1 .. n |-> AncestorAt(h, Number[h] - i)]
<1>4. edge \in Seq(Block) /\ Len(edge) = n /\ \A i \in 1 .. n : edge[i] = AncestorAt(h, Number[h] - i)
  <2>1. n \in Nat /\ edge \in [1 .. n -> Block]
    BY <1>1, <1>3
  <2> HIDE DEF n
  <2>2. \A i \in 1 .. n : edge[i] = AncestorAt(h, Number[h] - i)
    OBVIOUS
  <2> HIDE DEF edge
  <2> QED  BY <2>1, <2>2
<1>5. Edge(h, p) = edge
  BY DEF Edge
<1> HIDE DEF edge
<1> QED  BY <1>1, <1>3, <1>4, <1>5

\* The blocks that ancestry lists, with the block it stops at.
LEMMA AncestryIsEdge ==
    ASSUME NEW h \in Block, NEW p \in Ancestors[h], p # h
    PROVE  Append(Ancestry(p, h), p) = Edge(h, p)
<1> DEFINE n == Number[h] - Number[p]
<1>1. /\ Number[h] \in Nat /\ Number[p] \in Nat /\ Number[p] < Number[h] /\ p \in Block
      /\ Edge(h, p) \in Seq(Block) /\ Len(Edge(h, p)) = n
      /\ \A i \in 1 .. n : Edge(h, p)[i] = AncestorAt(h, Number[h] - i) /\ Edge(h, p)[i] \in Block
  BY EdgeIsSeq
<1>2. n \in Nat /\ n >= 1 /\ Number[h] - n = Number[p]
  BY <1>1
<1>3. AncestorAt(h, Number[h] - n) = p
  BY <1>1, <1>2, AncestorAtFacts
<1>4. Ancestry(p, h) = [i \in 1 .. (n - 1) |-> AncestorAt(h, Number[h] - i)]
  BY DEF Ancestry
<1> HIDE DEF n
<1>5. /\ Ancestry(p, h) \in Seq(Block) /\ Len(Ancestry(p, h)) = n - 1
      /\ \A i \in 1 .. (n - 1) : Ancestry(p, h)[i] = Edge(h, p)[i]
  <2>1. n - 1 \in Nat /\ \A i \in 1 .. (n - 1) : i \in 1 .. n
    BY <1>2
  <2>2. \A i \in 1 .. (n - 1) : AncestorAt(h, Number[h] - i) \in Block
    BY <1>1, <2>1
  <2>3. Ancestry(p, h) \in [1 .. (n - 1) -> Block]
    BY <1>4, <2>2
  <2>4. \A i \in 1 .. (n - 1) : Ancestry(p, h)[i] = Edge(h, p)[i]
    BY <1>1, <1>4, <2>1
  <2> QED  BY <2>1, <2>3, <2>4
<1>6. /\ Append(Ancestry(p, h), p) \in Seq(Block) /\ Len(Append(Ancestry(p, h), p)) = n
      /\ \A i \in 1 .. (n - 1) : Append(Ancestry(p, h), p)[i] = Edge(h, p)[i]
      /\ Append(Ancestry(p, h), p)[n] = p
  BY <1>1, <1>2, <1>5, AppendProperties
<1>7. \A i \in 1 .. n : i = n \/ i \in 1 .. (n - 1)
  BY <1>2
<1>8. n \in 1 .. n
  BY <1>2
<1>9. \A i \in 1 .. n : Append(Ancestry(p, h), p)[i] = Edge(h, p)[i]
  BY <1>1, <1>3, <1>6, <1>7, <1>8
<1> QED  BY <1>1, <1>6, <1>9, SeqEqual

\* The part of an edge from block b down is the edge of b, the part above it that to b.
LEMMA EdgeParts ==
    ASSUME NEW h \in Block, NEW b \in Ancestors[h], NEW p \in Ancestors[b], b # h, p # b
    PROVE  /\ SubSeq(Edge(h, p), Number[h] - Number[b] + 1, Len(Edge(h, p))) = Edge(b, p)
           /\ SubSeq(Edge(h, p), 1, Number[h] - Number[b]) = Edge(h, b)
<1>1. /\ b \in Block /\ p \in Block /\ p \in Ancestors[h] /\ p # h
      /\ Number[h] \in Nat /\ Number[b] \in Nat /\ Number[p] \in Nat
      /\ Number[p] < Number[b] /\ Number[b] < Number[h]
  BY ChainFacts
<1> DEFINE k == Number[h] - Number[b]
           m == Number[b] - Number[p]
<1>2. k \in Nat /\ m \in Nat /\ k >= 1 /\ m >= 1 /\ Number[h] - Number[p] = k + m
  BY <1>1
<1>3. ASSUME NEW n \in Number[p] .. Number[b]
      PROVE  AncestorAt(h, n) = AncestorAt(b, n)
  <2>1. n \in Number[p] .. Number[h]
    BY <1>1
  <2>2. AncestorAt(b, n) \in Ancestors[h] /\ Number[AncestorAt(b, n)] = n
    BY <1>1, AncestorAtFacts, ChainFacts
  <2> QED  BY <1>1, <2>1, <2>2, AncestorAtFacts
<1>4. /\ Edge(h, p) \in Seq(Block) /\ Len(Edge(h, p)) = k + m
      /\ \A i \in 1 .. (k + m) : Edge(h, p)[i] = AncestorAt(h, Number[h] - i) /\ Edge(h, p)[i] \in Block
  BY <1>1, <1>2, EdgeIsSeq
<1>5. /\ Edge(b, p) \in Seq(Block) /\ Len(Edge(b, p)) = m
      /\ \A i \in 1 .. m : Edge(b, p)[i] = AncestorAt(b, Number[b] - i)
  BY <1>1, EdgeIsSeq
<1>6. /\ Edge(h, b) \in Seq(Block) /\ Len(Edge(h, b)) = k
      /\ \A i \in 1 .. k : Edge(h, b)[i] = AncestorAt(h, Number[h] - i)
  BY <1>1, EdgeIsSeq
<1>7. \A i \in 1 .. m : Edge(h, p)[k + i] = Edge(b, p)[i]
  <2> SUFFICES ASSUME NEW i \in 1 .. m PROVE Edge(h, p)[k + i] = Edge(b, p)[i]
    OBVIOUS
  <2>1. k + i \in 1 .. (k + m) /\ Number[h] - (k + i) = Number[b] - i
    BY <1>1
  <2>2. Number[b] - i \in Number[p] .. Number[b]
    BY <1>1
  <2> QED  BY <1>3, <1>4, <1>5, <2>1, <2>2
<1> HIDE DEF k, m
<1>8. SubSeq(Edge(h, p), k + 1, k + m) = Edge(b, p)
  <2> DEFINE a == k + 1
             z == k + m
  <2>1. a \in Int /\ z \in Int /\ z - a + 1 = m /\ a <= z
    BY <1>2
  <2>2. \A i \in a .. z : Edge(h, p)[i] \in Block
    BY <1>2, <1>4
  <2>3. \A i \in 1 .. m : a + i - 1 = k + i
    BY <1>2
  <2>4. /\ SubSeq(Edge(h, p), a, z) \in Seq(Block)
        /\ Len(SubSeq(Edge(h, p), a, z)) = z - a + 1
        /\ \A i \in 1 .. (z - a + 1) : SubSeq(Edge(h, p), a, z)[i] = Edge(h, p)[a + i - 1]
    <3> HIDE DEF a, z
    <3> QED  BY <2>1, <2>2, SubSeqProperties
  <2>5. /\ SubSeq(Edge(h, p), k + 1, k + m) \in Seq(Block)
        /\ Len(SubSeq(Edge(h, p), k + 1, k + m)) = m
        /\ \A i \in 1 .. m : SubSeq(Edge(h, p), k + 1, k + m)[i] = Edge(h, p)[k + i]
    BY <2>1, <2>3, <2>4
  <2> QED  BY <1>5, <1>7, <2>5, SeqEqual
<1>9. SubSeq(Edge(h, p), 1, k) = Edge(h, b)
  <2>1. 1 \in Int /\ k \in Int /\ k - 1 + 1 = k /\ 1 <= k /\ \A i \in 1 .. k : i \in 1 .. (k + m)
    BY <1>2
  <2>2. \A i \in 1 .. k : Edge(h, p)[i] \in Block
    BY <1>4, <2>1
  <2>3. \A i \in 1 .. k : 1 + i - 1 = i
    BY <1>2
  <2>4. /\ SubSeq(Edge(h, p), 1, k) \in Seq(Block) /\ Len(SubSeq(Edge(h, p), 1, k)) = k
        /\ \A i \in 1 .. k : SubSeq(Edge(h, p), 1, k)[i] = Edge(h, p)[i]
    BY <2>1, <2>2, <2>3, SubSeqProperties, SMTT(30)
  <2> QED  BY <1>4, <1>6, <2>1, <2>4, SeqEqual
<1> QED  BY <1>4, <1>8, <1>9 DEF k

\* append finds the highest node below the block, and the edge to it.
LEMMA AppendFacts ==
    ASSUME NEW g, IsGraph(g), NEW b \in Block, b \notin DOMAIN g.entries, g.base \in Ancestors[b]
    PROVE  \E p \in DOMAIN g.entries :
               /\ HighestBelow(DOMAIN g.entries, b, p)
               /\ AppendNode(g, b) =
                      [g EXCEPT
                        !.entries = [h \in DOMAIN g.entries \union {b} |->
                            CASE h = b -> NewEntry(Edge(b, p), {}, {})
                              [] h = p -> [g.entries[h] EXCEPT !.descendents = @ \union {b}]
                              [] OTHER -> g.entries[h]],
                        !.heads = (@ \ {p}) \union {b}]
<1>1. DOMAIN g.entries \subseteq Block /\ g.base \in DOMAIN g.entries /\ g.base # b /\ g.base \in Block
  BY DEF IsGraph, NodesFit
<1> DEFINE ancestry == Append(Ancestry(g.base, b), g.base)
           n == Number[b] - Number[g.base]
           I == {i \in 1 .. Len(ancestry) : IsNode(g, ancestry[i])}
           index == SelectInSeq(ancestry, LAMBDA h : IsNode(g, h))
           parent == ancestry[index]
<1>2. /\ Number[b] \in Nat /\ Number[g.base] \in Nat /\ n \in Nat /\ n >= 1
      /\ ancestry = Edge(b, g.base) /\ Len(ancestry) = n
      /\ \A i \in 1 .. n : ancestry[i] = AncestorAt(b, Number[b] - i) /\ ancestry[i] \in Block
  <2>1. ancestry = Edge(b, g.base)
    BY <1>1, AncestryIsEdge
  <2> HIDE DEF ancestry
  <2>2. /\ Number[b] \in Nat /\ Number[g.base] \in Nat /\ Number[g.base] < Number[b]
        /\ Len(ancestry) = n
        /\ \A i \in 1 .. n : ancestry[i] = AncestorAt(b, Number[b] - i) /\ ancestry[i] \in Block
    BY <1>1, <2>1, EdgeIsSeq
  <2> QED  BY <2>1, <2>2
<1> HIDE DEF ancestry
<1>3. \A i \in 1 .. n : Number[b] - i \in Number[g.base] .. Number[b]
  BY <1>2
<1>4. \A i \in 1 .. n : /\ ancestry[i] \in Ancestors[b] /\ Number[ancestry[i]] = Number[b] - i
                        /\ g.base \in Ancestors[ancestry[i]]
  BY <1>1, <1>2, <1>3, AncestorAtFacts, SMTT(30)
<1>5. n \in I
  <2>1. n \in 1 .. n /\ Number[b] - n = Number[g.base]
    BY <1>2
  <2>2. ancestry[n] = g.base
    <3>1. ancestry[n] \in Ancestors[b] /\ Number[ancestry[n]] = Number[g.base]
      BY <1>4, <2>1
    <3> QED  BY <3>1, ChainFacts
  <2> QED  BY <1>1, <1>2, <2>1, <2>2 DEF IsNode
<1>6. I \in SUBSET Nat /\ I # {}
  BY <1>2, <1>5
<1>7. index = Min(I)
  <2>1. index = IF I # {} THEN Min(I) ELSE 0
    BY DEF SelectInSeq
  <2> QED  BY <1>6, <2>1
<1> HIDE DEF I, index, n, ancestry
<1>8. index \in I /\ \A i \in I : index <= i
  <2>1. \E m \in I : \A i \in I : m <= i
    BY <1>6, SmallestNumber
  <2> QED  BY <1>7, <2>1 DEF Min
<1>9. index \in 1 .. n /\ index \in Nat /\ parent \in DOMAIN g.entries /\ index <= n
  BY <1>2, <1>8 DEF I, IsNode
<1>10. parent \in Block /\ parent \in Ancestors[b] /\ Number[parent] = Number[b] - index /\ parent # b
  BY <1>2, <1>4, <1>9
<1>11. HighestBelow(DOMAIN g.entries, b, parent)
  <2>1. ASSUME NEW x \in DOMAIN g.entries, x \in Ancestors[b], x # b
        PROVE  x \in Ancestors[parent]
    <3>1. x \in Block /\ Number[x] \in Nat /\ Number[x] < Number[b] /\ Number[g.base] <= Number[x]
      BY <1>1, <2>1, ChainFacts DEF IsGraph, NodesFit
    <3>2. Number[b] - Number[x] \in 1 .. n
      BY <1>2, <3>1 DEF n
    <3>3. Number[ancestry[Number[b] - Number[x]]] = Number[x]
      BY <1>2, <1>4, <3>1, <3>2
    <3>4. ancestry[Number[b] - Number[x]] = x
      BY <1>4, <2>1, <3>2, <3>3, ChainFacts
    <3>5. Number[b] - Number[x] \in I
      BY <1>2, <3>2, <3>4 DEF I, IsNode
    <3>6. index <= Number[b] - Number[x]
      BY <1>8, <3>5
    <3>7. Number[x] <= Number[parent]
      BY <1>2, <1>9, <1>10, <3>1, <3>6
    <3> QED  BY <1>10, <2>1, <3>7, ChainFacts
  <2> QED  BY <1>9, <1>10, <2>1 DEF HighestBelow
<1>12. SubSeq(ancestry, 1, index) = Edge(b, parent)
  <2>1. index = Number[b] - Number[parent]
    BY <1>2, <1>9, <1>10
  <2>2. CASE parent = g.base
    <3>1. index = n
      BY <2>1, <2>2 DEF n
    <3>2. \A i \in 1 .. n : ancestry[i] \in Block
      BY <1>2
    <3>3. ancestry \in Seq(Block)
      BY <1>1, <1>2, EdgeIsSeq
    <3>4. SubSeq(ancestry, 1, n) = ancestry
      BY <1>2, <3>3, SubSeqFull
    <3> QED  BY <1>2, <2>2, <3>1, <3>4
  <2>3. CASE parent # g.base
    <3>1. g.base \in Ancestors[parent]
      BY <1>9 DEF IsGraph, NodesFit
    <3> QED  BY <1>2, <1>10, <2>1, <2>3, <3>1, EdgeParts
  <2> QED  BY <2>2, <2>3
<1>13. AppendNode(g, b) =
           [g EXCEPT
             !.entries = [h \in DOMAIN g.entries \union {b} |->
                 CASE h = b      -> NewEntry(SubSeq(ancestry, 1, index), {}, {})
                   [] h = parent -> [g.entries[h] EXCEPT !.descendents = @ \union {b}]
                   [] OTHER      -> g.entries[h]],
             !.heads = (@ \ {parent}) \union {b}]
  BY DEF AppendNode, index, ancestry
<1> HIDE DEF parent
<1> QED  BY <1>9, <1>11, <1>12, <1>13

\* append: the block becomes a head, above the highest node of its chain.
LEMMA AppendFits ==
    ASSUME NEW g, NEW c, IsGraph(g), RecordsFit(g), VotesFit(g, c),
           NEW b \in Block, b \notin DOMAIN g.entries, g.base \in Ancestors[b], ContainingNodes(g, b) = {}
    PROVE  LET n == AppendNode(g, b)
           IN  /\ IsGraph(n) /\ RecordsFit(n) /\ VotesFit(n, c)
               /\ DOMAIN n.entries = DOMAIN g.entries \union {b} /\ n.base = g.base
<1> DEFINE N == DOMAIN g.entries
<1>1. N \subseteq Block /\ g.base \in N
  BY DEF IsGraph, NodesFit
<1>2. PICK p \in N :
          /\ HighestBelow(N, b, p)
          /\ AppendNode(g, b) =
                 [g EXCEPT
                   !.entries = [h \in N \union {b} |->
                       CASE h = b -> NewEntry(Edge(b, p), {}, {})
                         [] h = p -> [g.entries[h] EXCEPT !.descendents = @ \union {b}]
                         [] OTHER -> g.entries[h]],
                   !.heads = (@ \ {p}) \union {b}]
  BY AppendFacts
<1>3. \A t \in N : b \notin Ancestors[t]
  BY LowestAbove
<1> DEFINE entries == [h \in N \union {b} |->
                          CASE h = b -> NewEntry(Edge(b, p), {}, {})
                            [] h = p -> [g.entries[h] EXCEPT !.descendents = @ \union {b}]
                            [] OTHER -> g.entries[h]]
           n == AppendNode(g, b)
<1>4. /\ n = [entries |-> entries, heads |-> (g.heads \ {p}) \union {b}, base |-> g.base]
      /\ n.entries = entries /\ n.heads = (g.heads \ {p}) \union {b} /\ n.base = g.base
  BY <1>2 DEF RecordsFit
<1>5. DOMAIN n.entries = N \union {b}
  BY <1>4
<1>6. entries[b] = NewEntry(Edge(b, p), {}, {})
  OBVIOUS
<1>7. ASSUME NEW h \in N
      PROVE  /\ entries[h].ancestors = g.entries[h].ancestors
             /\ entries[h].cumulative_vote = g.entries[h].cumulative_vote
             /\ entries[h].descendents =
                    IF h = p THEN g.entries[h].descendents \union {b} ELSE g.entries[h].descendents
             /\ entries[h] = NewEntry(entries[h].ancestors, entries[h].descendents, entries[h].cumulative_vote)
  <2>1. g.entries[h] = NewEntry(g.entries[h].ancestors, g.entries[h].descendents, g.entries[h].cumulative_vote)
    BY DEF RecordsFit
  <2>2. entries[h] = IF h = p THEN [g.entries[h] EXCEPT !.descendents = @ \union {b}] ELSE g.entries[h]
    OBVIOUS
  <2> HIDE DEF entries
  <2>3. CASE h = p
    <3>1. entries[h] = NewEntry(g.entries[h].ancestors, g.entries[h].descendents \union {b},
                                g.entries[h].cumulative_vote)
      BY <2>1, <2>2, <2>3 DEF NewEntry
    <3> QED  BY <2>3, <3>1 DEF NewEntry
  <2>4. CASE h # p
    BY <2>1, <2>2, <2>4
  <2> QED  BY <2>3, <2>4
<1> HIDE DEF entries, n
<1>8. /\ n.entries[b].ancestors = Edge(b, p) /\ n.entries[b].descendents = {}
      /\ n.entries[b].cumulative_vote = {}
      /\ entries[b] = NewEntry(entries[b].ancestors, entries[b].descendents, entries[b].cumulative_vote)
  BY <1>4, <1>6 DEF NewEntry
<1>9. \A h \in N : /\ n.entries[h].ancestors = g.entries[h].ancestors
                   /\ n.entries[h].cumulative_vote = g.entries[h].cumulative_vote
                   /\ n.entries[h].descendents =
                          IF h = p THEN g.entries[h].descendents \union {b} ELSE g.entries[h].descendents
  BY <1>4, <1>7
<1>10. RecordsFit(n)
  <2>1. entries = [h \in N \union {b} |-> entries[h]]
    BY DEF entries
  <2>2. \A h \in N \union {b} :
            entries[h] = NewEntry(entries[h].ancestors, entries[h].descendents, entries[h].cumulative_vote)
    BY <1>7, <1>8
  <2> QED  BY <1>4, <1>5, <2>1, <2>2 DEF RecordsFit
<1>11. NodesFit(n)
  <2>1. PICK k \in Nat : \A h \in N : Number[h] <= k
    BY DEF IsGraph, NodesFit
  <2>2. Number[b] \in Nat /\ \A h \in N : Number[h] \in Nat
    BY <1>1, ChainFacts
  <2>3. k + Number[b] \in Nat /\ \A h \in N \union {b} : Number[h] <= k + Number[b]
    BY <2>1, <2>2
  <2> QED  BY <1>1, <1>4, <1>5, <2>3 DEF IsGraph, NodesFit
<1>12. \A h \in N : \A q : HighestBelow(N \union {b}, h, q) <=> HighestBelow(N, h, q)
  BY <1>3 DEF HighestBelow
<1>13. \A q : HighestBelow(N \union {b}, b, q) <=> q = p
  <2>1. HighestBelow(N \union {b}, b, p)
    BY <1>2 DEF HighestBelow
  <2> QED  BY <1>1, <2>1, OneHighest
<1>14. EdgesFit(n)
  <2>1. n.entries[n.base].ancestors = <<>>
    BY <1>1, <1>4, <1>9 DEF IsGraph, EdgesFit
  <2>2. ASSUME NEW h \in (N \union {b}) \ {n.base}
        PROVE  \E q \in N \union {b} :
                   HighestBelow(N \union {b}, h, q) /\ n.entries[h].ancestors = Edge(h, q)
    <3>1. CASE h = b
      BY <1>8, <1>13, <3>1
    <3>2. CASE h # b
      <4>1. h \in N \ {g.base}
        BY <1>4, <3>2
      <4>2. PICK q \in N : HighestBelow(N, h, q) /\ g.entries[h].ancestors = Edge(h, q)
        BY <4>1 DEF IsGraph, EdgesFit
      <4> QED  BY <1>9, <1>12, <4>1, <4>2
    <3> QED  BY <3>1, <3>2
  <2>3. ASSUME NEW h \in N \union {b}
        PROVE  n.entries[h].descendents = {d \in N \union {b} : HighestBelow(N \union {b}, d, h)}
    <3>1. CASE h = b
      <4>1. \A d \in N : ~HighestBelow(N \union {b}, d, b)
        BY <1>3 DEF HighestBelow
      <4>2. p # b
        BY <1>2 DEF HighestBelow
      <4> QED  BY <1>8, <1>13, <3>1, <4>1, <4>2
    <3>2. CASE h # b
      <4>1. g.entries[h].descendents = {d \in N : HighestBelow(N, d, h)}
        BY <3>2 DEF IsGraph, EdgesFit
      <4>2. n.entries[h].descendents =
                IF h = p THEN g.entries[h].descendents \union {b} ELSE g.entries[h].descendents
        BY <1>9, <3>2
      <4> QED  BY <1>12, <1>13, <4>1, <4>2
    <3> QED  BY <3>1, <3>2
  <2> DEFINE M == N \union {b}
  <2> HIDE DEF M
  <2>4. DOMAIN n.entries = M
    BY <1>5 DEF M
  <2>5. \A h \in M \ {n.base} :
            \E q \in M : HighestBelow(M, h, q) /\ n.entries[h].ancestors = Edge(h, q)
    BY <2>2 DEF M
  <2>6. \A h \in M : n.entries[h].descendents = {d \in M : HighestBelow(M, d, h)}
    BY <2>3 DEF M
  <2> QED  BY <2>1, <2>4, <2>5, <2>6 DEF EdgesFit
<1>15. HeadsFit(n)
  <2>1. g.heads = {h \in N : \A d \in N : h \in Ancestors[d] => d = h}
    BY DEF IsGraph, HeadsFit
  <2>2. p \in N /\ p \in Ancestors[b] /\ p # b /\ \A x \in N : x \in Ancestors[b] /\ x # b => x \in Ancestors[p]
    BY <1>2 DEF HighestBelow
  <2>3. ASSUME NEW h \in N
        PROVE  h \in g.heads /\ h # p <=> \A d \in N \union {b} : h \in Ancestors[d] => d = h
    <3>1. h \in g.heads /\ h # p => h \notin Ancestors[b]
      BY <2>1, <2>2
    <3> QED  BY <2>1, <2>2, <3>1
  <2>4. \A d \in N \union {b} : b \in Ancestors[d] => d = b
    BY <1>3
  <2>5. b \notin g.heads
    BY <2>1
  <2> QED  BY <1>4, <1>5, <2>3, <2>4, <2>5, <2>1 DEF HeadsFit
<1>16. VotesFit(n, c)
  <2>1. \A v \in DOMAIN c : c[v] # None => c[v] \in N
    BY DEF VotesFit
  <2>2. VotesAt(c, b) = {}
    BY <1>3, <2>1 DEF VotesAt
  <2> QED  BY <1>5, <1>8, <1>9, <2>1, <2>2 DEF VotesFit
<1> QED  BY <1>4, <1>5, <1>10, <1>11, <1>14, <1>15, <1>16 DEF IsGraph, n

\* introduce_branch: the block comes between the nodes with it on their edges and their
\* next node.
LEMMA IntroduceFits ==
    ASSUME NEW g, NEW c, IsGraph(g), RecordsFit(g), VotesFit(g, c),
           NEW b \in Block, b \notin DOMAIN g.entries, ContainingNodes(g, b) # {}
    PROVE  LET n == IntroduceBranch(g, ContainingNodes(g, b), b)
           IN  /\ IsGraph(n) /\ RecordsFit(n) /\ VotesFit(n, c)
               /\ DOMAIN n.entries = DOMAIN g.entries \union {b} /\ n.base = g.base
<1> DEFINE N == DOMAIN g.entries
           C == ContainingNodes(g, b)
           some == CHOOSE h \in C : TRUE
           p == AncestorNode(g, some)
           n == IntroduceBranch(g, C, b)
<1>1. N \subseteq Block /\ g.base \in N
  BY DEF IsGraph, NodesFit
<1>2. some \in C
  OBVIOUS
<1> HIDE DEF C, some
<1>3. \A h \in C : /\ h \in N /\ h # g.base /\ b \in Ancestors[h] /\ b # h
                   /\ AncestorNode(g, h) = p /\ HighestBelow(N, h, p)
  BY <1>2, ContainingFacts, ContainingShare DEF C
<1>4. g.base \in Ancestors[b] /\ HighestBelow(N, b, p) /\ p \in N /\ p \in Ancestors[b] /\ p # b /\ p \notin C
  <2>1. g.base \in Ancestors[b] /\ HighestBelow(N, b, p)
    BY <1>2, ContainingFacts DEF C
  <2>2. p \in C => b \in Ancestors[p]
    BY <1>3
  <2> QED  BY <1>1, <2>1, <2>2, ChainFacts DEF HighestBelow
<1> DEFINE branch == BranchEntry(g, C, b)
           cut(h) == [g.entries[h] EXCEPT !.ancestors = SubSeq(@, 1, Number[h] - Number[b])]
           taken(h) == [g.entries[h] EXCEPT !.descendents = TakeOver(@, C, b)]
           entries == [h \in N \union {b} |->
                CASE h = b    -> branch
                  [] h \in C  -> cut(h)
                  [] h = p    -> taken(h)
                  [] OTHER    -> g.entries[h]]
<1>5. /\ n = [entries |-> entries, heads |-> g.heads, base |-> g.base]
      /\ n.entries = entries /\ n.heads = g.heads /\ n.base = g.base
  <2>1. n = [g EXCEPT !.entries = entries]
    BY DEF IntroduceBranch, some
  <2> HIDE DEF entries, n
  <2> QED  BY <2>1 DEF RecordsFit
<1> HIDE DEF branch, cut, taken
<1>6. DOMAIN n.entries = N \union {b}
  BY <1>5
<1>7. entries[b] = NewEntry(Edge(b, p), C, VotesAt(c, b))
  <2>1. entries[b] = BranchEntry(g, C, b)
    BY <1>3, <1>4 DEF branch
  <2>2. g.entries[some].ancestors = Edge(some, p)
    BY <1>2, <1>3, EdgeFacts
  <2>3. SubSeq(Edge(some, p), Number[some] - Number[b] + 1, Len(Edge(some, p))) = Edge(b, p)
    BY <1>1, <1>2, <1>3, <1>4, EdgeParts
  <2>4. VotesOf(g, C) = VotesAt(c, b)
    BY <1>4, VotesOnEdge DEF C
  <2> HIDE DEF entries
  <2>5. BranchEntry(g, C, b) =
            NewEntry(SubSeq(g.entries[some].ancestors, Number[some] - Number[b] + 1,
                            Len(g.entries[some].ancestors)), C, VotesOf(g, C))
    BY DEF BranchEntry, some
  <2> QED  BY <2>1, <2>2, <2>3, <2>4, <2>5
<1>8. ASSUME NEW h \in N
      PROVE  /\ entries[h].ancestors = IF h \in C THEN Edge(h, b) ELSE g.entries[h].ancestors
             /\ entries[h].cumulative_vote = g.entries[h].cumulative_vote
             /\ entries[h].descendents =
                    IF h = p THEN (g.entries[h].descendents \ C) \union {b} ELSE g.entries[h].descendents
             /\ entries[h] = NewEntry(entries[h].ancestors, entries[h].descendents, entries[h].cumulative_vote)
  <2>1. g.entries[h] = NewEntry(g.entries[h].ancestors, g.entries[h].descendents, g.entries[h].cumulative_vote)
    BY DEF RecordsFit
  <2>2. CASE h \in C
    <3>1. entries[h] = cut(h)
      BY <1>4, <2>2
    <3>2. g.entries[h].ancestors = Edge(h, p)
      BY <1>3, <2>2, EdgeFacts
    <3>3. SubSeq(Edge(h, p), 1, Number[h] - Number[b]) = Edge(h, b)
      BY <1>1, <1>3, <1>4, <2>2, EdgeParts
    <3> HIDE DEF entries
    <3>4. entries[h] = NewEntry(Edge(h, b), g.entries[h].descendents, g.entries[h].cumulative_vote)
      BY <2>1, <3>1, <3>2, <3>3 DEF NewEntry, cut
    <3> QED  BY <1>4, <2>2, <3>4 DEF NewEntry
  <2>3. CASE h \notin C /\ h = p
    <3>1. entries[h] = taken(h)
      BY <2>3
    <3> HIDE DEF entries
    <3>2. entries[h] = NewEntry(g.entries[h].ancestors, (g.entries[h].descendents \ C) \union {b},
                                g.entries[h].cumulative_vote)
      BY <2>1, <3>1 DEF NewEntry, TakeOver, taken
    <3> QED  BY <2>3, <3>2 DEF NewEntry
  <2>4. CASE h \notin C /\ h # p
    <3>1. entries[h] = g.entries[h]
      BY <2>4
    <3> HIDE DEF entries
    <3> QED  BY <2>1, <2>4, <3>1
  <2> QED  BY <2>2, <2>3, <2>4
<1> HIDE DEF entries, n, p
<1>9. /\ n.entries[b].ancestors = Edge(b, p) /\ n.entries[b].descendents = C
      /\ n.entries[b].cumulative_vote = VotesAt(c, b)
      /\ entries[b] = NewEntry(entries[b].ancestors, entries[b].descendents, entries[b].cumulative_vote)
  BY <1>5, <1>7 DEF NewEntry
<1>10. RecordsFit(n)
  <2>1. entries = [h \in N \union {b} |-> entries[h]]
    BY DEF entries
  <2>2. \A h \in N \union {b} :
            entries[h] = NewEntry(entries[h].ancestors, entries[h].descendents, entries[h].cumulative_vote)
    BY <1>8, <1>9
  <2> QED  BY <1>5, <1>6, <2>1, <2>2 DEF RecordsFit
<1>11. NodesFit(n)
  <2>1. PICK k \in Nat : \A h \in N : Number[h] <= k
    BY DEF IsGraph, NodesFit
  <2>2. Number[b] \in Nat /\ \A h \in N : Number[h] \in Nat
    BY <1>1, ChainFacts
  <2>3. k + Number[b] \in Nat /\ \A h \in N \union {b} : Number[h] <= k + Number[b]
    BY <2>1, <2>2
  <2> QED  BY <1>1, <1>4, <1>5, <1>6, <2>3 DEF IsGraph, NodesFit
<1> DEFINE M == N \union {b}
<1>12. M \subseteq Block
  BY <1>1
<1>13. \A q : HighestBelow(M, b, q) <=> q = p
  <2>1. HighestBelow(M, b, p)
    BY <1>4 DEF HighestBelow
  <2> QED  BY <1>12, <2>1, OneHighest
<1>14. \A h \in C : \A q : HighestBelow(M, h, q) <=> q = b
  <2> SUFFICES ASSUME NEW h \in C, NEW q PROVE HighestBelow(M, h, q) <=> q = b
    OBVIOUS
  <2>1. \A x \in N : x \in Ancestors[h] /\ x # h => x \in Ancestors[b]
    <3>1. Ancestors[p] \subseteq Ancestors[b]
      BY <1>1, <1>4, ChainFacts
    <3> QED  BY <1>3, <3>1 DEF HighestBelow
  <2>2. HighestBelow(M, h, b)
    BY <1>3, <2>1, ChainFacts DEF HighestBelow
  <2>3. h \in Block
    BY <1>1, <1>3
  <2> QED  BY <1>12, <2>2, <2>3, OneHighest
<1>15. \A h \in N \ C : \A q : HighestBelow(M, h, q) <=> HighestBelow(N, h, q)
  <2> SUFFICES ASSUME NEW h \in N, h \notin C, NEW q PROVE HighestBelow(M, h, q) <=> HighestBelow(N, h, q)
    OBVIOUS
  <2>1. CASE b \notin Ancestors[h]
    BY <2>1 DEF HighestBelow
  <2>2. CASE b \in Ancestors[h]
    <3>1. h # g.base
      BY <1>1, <1>4, <2>2, ChainFacts
    <3> DEFINE r == AncestorNode(g, h)
    <3>2. HighestBelow(N, h, r) /\ r \in N /\ r \in Ancestors[h]
      BY <3>1, EdgeFacts DEF HighestBelow
    <3>3. r \notin Ancestors[b]
      <4>1. ~InDirectAncestry(g, h, b)
        BY Containing DEF C
      <4> QED  BY <2>2, <3>1, <4>1, DirectAncestry
    <3>4. b \in Ancestors[r]
      BY <1>1, <2>2, <3>2, <3>3, ChainFacts
    <3>5. HighestBelow(M, h, r)
      BY <3>2, <3>4 DEF HighestBelow
    <3> HIDE DEF r
    <3> QED  BY <1>1, <1>12, <3>2, <3>5, OneHighest
  <2> QED  BY <2>1, <2>2
<1>16. EdgesFit(n)
  <2>1. n.entries[n.base].ancestors = <<>>
    <3>1. g.entries[g.base].ancestors = <<>>
      BY DEF IsGraph, EdgesFit
    <3> QED  BY <1>1, <1>3, <1>5, <1>8, <3>1
  <2>2. ASSUME NEW h \in M \ {n.base}
        PROVE  \E q \in M : HighestBelow(M, h, q) /\ n.entries[h].ancestors = Edge(h, q)
    <3>1. CASE h = b
      BY <1>4, <1>9, <1>13, <3>1
    <3>2. CASE h \in C
      BY <1>3, <1>5, <1>8, <1>14, <3>2
    <3>3. CASE h # b /\ h \notin C
      <4>1. h \in N \ {g.base}
        BY <1>5, <3>3
      <4>2. PICK q \in N : HighestBelow(N, h, q) /\ g.entries[h].ancestors = Edge(h, q)
        BY <4>1 DEF IsGraph, EdgesFit
      <4> QED  BY <1>5, <1>8, <1>15, <3>3, <4>1, <4>2
    <3> QED  BY <3>1, <3>2, <3>3
  <2>3. ASSUME NEW h \in M
        PROVE  n.entries[h].descendents = {d \in M : HighestBelow(M, d, h)}
    <3>1. CASE h = b
      <4>1. \A d \in N \ C : ~HighestBelow(N, d, b)
        BY DEF HighestBelow
      <4>2. \A d \in M : HighestBelow(M, d, b) <=> d \in C
        <5>1. ~HighestBelow(M, b, b) /\ b \notin C /\ \A d \in M : d = b \/ d \in C \/ d \in N \ C
          BY <1>3, <1>4, <1>13
        <5> QED  BY <1>14, <1>15, <4>1, <5>1
      <4>3. C \subseteq M
        BY <1>3
      <4> HIDE DEF M
      <4> QED  BY <1>9, <3>1, <4>2, <4>3
    <3>2. CASE h # b
      <4>1. g.entries[h].descendents = {d \in N : HighestBelow(N, d, h)} /\ h \in N
        BY <3>2 DEF IsGraph, EdgesFit
      <4>2. n.entries[h].descendents =
                IF h = p THEN (g.entries[h].descendents \ C) \union {b} ELSE g.entries[h].descendents
        BY <1>5, <1>8, <4>1
      <4>3. \A d \in C : HighestBelow(N, d, h) <=> h = p
        <5>1. \A d \in C : d \in Block /\ HighestBelow(N, d, p)
          BY <1>1, <1>3
        <5> QED  BY <1>1, <5>1, OneHighest
      <4>4. \A d \in N : d \in C \/ (HighestBelow(M, d, h) <=> HighestBelow(N, d, h))
        BY <1>15
      <4>5. \A d \in C : ~HighestBelow(M, d, h)
        BY <1>14, <3>2
      <4>6. HighestBelow(M, b, h) <=> h = p
        BY <1>13
      <4>7. b \notin N
        OBVIOUS
      <4>8. ASSUME NEW d
            PROVE  d \in n.entries[h].descendents <=> d \in M /\ HighestBelow(M, d, h)
        <5>1. CASE d = b
          BY <4>1, <4>2, <4>6, <4>7, <5>1
        <5>2. CASE d # b
          BY <4>1, <4>2, <4>3, <4>4, <4>5, <5>2
        <5> QED  BY <5>1, <5>2
      <4> DEFINE D == n.entries[h].descendents
      <4> HIDE DEF M, D
      <4>9. D = {d \in M : HighestBelow(M, d, h)}
        BY <4>8 DEF D
      <4> QED  BY <4>9 DEF D
    <3> QED  BY <3>1, <3>2
  <2> HIDE DEF M
  <2>4. DOMAIN n.entries = M
    BY <1>6 DEF M
  <2> QED  BY <2>1, <2>2, <2>3, <2>4 DEF EdgesFit
<1>17. HeadsFit(n)
  <2>1. g.heads = {h \in N : \A d \in N : h \in Ancestors[d] => d = h}
    BY DEF IsGraph, HeadsFit
  <2>2. \A h \in N : h \in Ancestors[b] => h \in Ancestors[some] /\ h # some
    BY <1>1, <1>2, <1>3, ChainFacts
  <2>3. some \in N /\ b \in Ancestors[some] /\ b # some
    BY <1>2, <1>3
  <2>4. \A h \in N : (\A d \in N : h \in Ancestors[d] => d = h) <=> (\A d \in M : h \in Ancestors[d] => d = h)
    BY <2>2, <2>3
  <2>5. n.heads = {h \in M : \A d \in M : h \in Ancestors[d] => d = h}
    BY <1>5, <2>1, <2>3, <2>4
  <2> QED  BY <1>6, <2>5 DEF HeadsFit
<1>18. VotesFit(n, c)
  <2>1. \A v \in DOMAIN c : c[v] # None => c[v] \in N
    BY DEF VotesFit
  <2>2. \A h \in N : n.entries[h].cumulative_vote = VotesAt(c, h)
    BY <1>5, <1>8 DEF VotesFit
  <2> QED  BY <1>6, <1>9, <2>1, <2>2 DEF VotesFit
<1> QED  BY <1>5, <1>6, <1>10, <1>11, <1>16, <1>17, <1>18 DEF IsGraph, n, C

\* The loop of insert reaches the nodes at and below the block, all of them.
LEMMA AddVoteFacts ==
    ASSUME NEW g, IsGraph(g), RecordsFit(g), NEW b \in DOMAIN g.entries, NEW vote
    PROVE  AddVoteFrom(g, b, vote) =
               [entries |-> [h \in DOMAIN g.entries |->
                                IF h \in Ancestors[b]
                                THEN [g.entries[h] EXCEPT !.cumulative_vote = @ \union {vote}]
                                ELSE g.entries[h]],
                heads |-> g.heads, base |-> g.base]
<1> DEFINE N == DOMAIN g.entries
           path[h \in DOMAIN g.entries] ==
               {h} \union IF AncestorNode(g, h) = None THEN {} ELSE path[AncestorNode(g, h)]
           Step(w, h) ==
               {h} \union IF AncestorNode(g, h) = None THEN {} ELSE w[AncestorNode(g, h)]
           below == [h \in DOMAIN g.entries |-> {x \in DOMAIN g.entries : x \in Ancestors[h]}]
           added(h) == [g.entries[h] EXCEPT !.cumulative_vote = @ \union {vote}]
<1>1. AddVoteFrom(g, b, vote) =
          [g EXCEPT !.entries = [h \in N |-> IF h \in path[b] THEN added(h) ELSE g.entries[h]]]
  BY DEF AddVoteFrom
<1>2. path = CHOOSE w : w = [h \in DOMAIN g.entries |-> Step(w, h)]
  OBVIOUS
<1> HIDE DEF path
<1>3. N \subseteq Block /\ None \notin Block /\ \A h \in N : Number[h] \in Nat
  BY ChainFacts, BlockTreeAssumption DEF IsGraph, NodesFit
<1>4. ASSUME NEW h \in N
      PROVE  /\ h = g.base => AncestorNode(g, h) = None
             /\ h # g.base => /\ AncestorNode(g, h) # None /\ AncestorNode(g, h) \in N
                              /\ Number[AncestorNode(g, h)] < Number[h]
  BY <1>3, BaseFacts, EdgeFacts
<1>5. ASSUME NEW h \in N PROVE below[h] = Step(below, h)
  <2>1. \A x \in N : x \in Ancestors[h] <=> x = h \/ (h # g.base /\ x \in Ancestors[AncestorNode(g, h)])
    BY NodesBelow
  <2>2. CASE h = g.base
    BY <1>4, <2>1, <2>2
  <2>3. CASE h # g.base
    <3>1. AncestorNode(g, h) # None /\ AncestorNode(g, h) \in N
      BY <1>4, <2>3
    <3>2. below[AncestorNode(g, h)] = {x \in N : x \in Ancestors[AncestorNode(g, h)]}
      BY <3>1
    <3>3. below[h] = {x \in N : x \in Ancestors[h]}
      OBVIOUS
    <3>4. Step(below, h) = {h} \union below[AncestorNode(g, h)]
      BY <3>1
    <3> HIDE DEF below, Step
    <3> QED  BY <2>1, <2>3, <3>2, <3>3, <3>4
  <2> QED  BY <2>2, <2>3
<1>6. path = [h \in DOMAIN g.entries |-> Step(path, h)]
  <2>1. below = [h \in DOMAIN g.entries |-> Step(below, h)]
    BY <1>5
  <2> HIDE DEF Step, below
  <2> QED  BY <1>2, <2>1
<1>7. \A h \in N : below[h] = {x \in N : x \in Ancestors[h]}
  OBVIOUS
<1> HIDE DEF Step, below
<1>8. ASSUME NEW x \in N, path[x] # below[x] PROVE FALSE
  <2> DEFINE bad == {y \in N : path[y] # below[y]}
             wrong == {Number[h] : h \in bad}
  <2>1. wrong \in SUBSET Nat /\ wrong # {}
    BY <1>3, <1>8
  <2>2. PICK h \in bad : \A m \in wrong : Number[h] <= m
    BY <2>1, SmallestNumber
  <2>3. path[h] = Step(path, h) /\ below[h] = Step(below, h) /\ h \in N /\ path[h] # below[h]
    BY <1>5, <1>6
  <2>4. CASE h = g.base
    BY <1>4, <2>3, <2>4 DEF Step
  <2>5. CASE h # g.base
    <3> DEFINE p == AncestorNode(g, h)
    <3>1. p # None /\ p \in N /\ Number[p] < Number[h] /\ Number[p] \in Nat /\ Number[h] \in Nat
      BY <1>3, <1>4, <2>3, <2>5
    <3>2. path[p] = below[p]
      BY <2>2, <3>1
    <3> QED  BY <2>3, <3>1, <3>2 DEF Step
  <2> QED  BY <2>4, <2>5
<1>9. path[b] = {x \in N : x \in Ancestors[b]}
  BY <1>7, <1>8
<1> DEFINE entries == [h \in N |-> IF h \in path[b] THEN added(h) ELSE g.entries[h]]
<1>10. entries = [h \in N |-> IF h \in Ancestors[b] THEN added(h) ELSE g.entries[h]]
  BY <1>9
<1>11. AddVoteFrom(g, b, vote) = [entries |-> entries, heads |-> g.heads, base |-> g.base]
  <2> HIDE DEF entries
  <2> QED  BY <1>1 DEF RecordsFit, entries
<1> HIDE DEF entries
<1> QED  BY <1>10, <1>11

\* A vote for a node changes nothing of the shape, and counts for what is at and below it.
LEMMA AddVoteFits ==
    ASSUME NEW g, NEW c, IsGraph(g), RecordsFit(g), VotesFit(g, c), c \in [DOMAIN c -> OptionBlock],
           NEW b \in DOMAIN g.entries, NEW v \in DOMAIN c, c[v] = None
    PROVE  LET n == AddVoteFrom(g, b, v)
           IN  /\ IsGraph(n) /\ RecordsFit(n) /\ VotesFit(n, [c EXCEPT ![v] = b])
               /\ DOMAIN n.entries = DOMAIN g.entries /\ n.base = g.base
<1> DEFINE N == DOMAIN g.entries
           n == AddVoteFrom(g, b, v)
           added(h) == [g.entries[h] EXCEPT !.cumulative_vote = @ \union {v}]
           entries == [h \in N |-> IF h \in Ancestors[b] THEN added(h) ELSE g.entries[h]]
<1>1. N \subseteq Block /\ None \notin Block /\ b \in Block
  BY BlockTreeAssumption DEF IsGraph, NodesFit
<1>2. /\ n = [entries |-> entries, heads |-> g.heads, base |-> g.base]
      /\ n.entries = entries /\ n.heads = g.heads /\ n.base = g.base
  <2>1. n = [entries |-> entries, heads |-> g.heads, base |-> g.base]
    BY AddVoteFacts
  <2> HIDE DEF n, entries
  <2> QED  BY <2>1
<1>3. DOMAIN n.entries = N
  BY <1>2
<1>4. ASSUME NEW h \in N
      PROVE  /\ entries[h].ancestors = g.entries[h].ancestors
             /\ entries[h].descendents = g.entries[h].descendents
             /\ entries[h].cumulative_vote =
                    IF h \in Ancestors[b] THEN g.entries[h].cumulative_vote \union {v} ELSE g.entries[h].cumulative_vote
             /\ entries[h] = NewEntry(entries[h].ancestors, entries[h].descendents, entries[h].cumulative_vote)
  <2>1. g.entries[h] = NewEntry(g.entries[h].ancestors, g.entries[h].descendents, g.entries[h].cumulative_vote)
    BY DEF RecordsFit
  <2>2. CASE h \in Ancestors[b]
    <3>1. entries[h] = added(h)
      BY <2>2
    <3> HIDE DEF entries
    <3>2. entries[h] = NewEntry(g.entries[h].ancestors, g.entries[h].descendents,
                                g.entries[h].cumulative_vote \union {v})
      BY <2>1, <3>1 DEF NewEntry
    <3> QED  BY <2>2, <3>2 DEF NewEntry
  <2>3. CASE h \notin Ancestors[b]
    <3>1. entries[h] = g.entries[h]
      BY <2>3
    <3> HIDE DEF entries
    <3> QED  BY <2>1, <2>3, <3>1
  <2> QED  BY <2>2, <2>3
<1>5. RecordsFit(n)
  <2>1. entries = [h \in N |-> entries[h]]
    OBVIOUS
  <2>2. \A h \in N : entries[h] = NewEntry(entries[h].ancestors, entries[h].descendents, entries[h].cumulative_vote)
    BY <1>4
  <2> HIDE DEF entries, n
  <2> QED  BY <1>2, <1>3, <2>1, <2>2 DEF RecordsFit
<1> HIDE DEF entries, n, added
<1>6. \A h \in N : /\ n.entries[h].ancestors = g.entries[h].ancestors
                   /\ n.entries[h].descendents = g.entries[h].descendents
  BY <1>2, <1>4
<1>7. IsGraph(n)
  <2>1. NodesFit(n)
    BY <1>2, <1>3 DEF IsGraph, NodesFit
  <2>2. EdgesFit(n)
    BY <1>2, <1>3, <1>6 DEF IsGraph, NodesFit, EdgesFit
  <2>3. HeadsFit(n)
    BY <1>2, <1>3 DEF IsGraph, HeadsFit
  <2> QED  BY <2>1, <2>2, <2>3 DEF IsGraph
<1> DEFINE d == [c EXCEPT ![v] = b]
<1>8. /\ DOMAIN d = DOMAIN c /\ d[v] = b /\ b # None
      /\ \A w \in DOMAIN c : w # v => d[w] = c[w]
  BY <1>1
<1> HIDE DEF d
<1>9. VotesFit(n, d)
  <2>1. \A w \in DOMAIN c : d[w] # None => d[w] \in N
    BY <1>8 DEF VotesFit
  <2>2. ASSUME NEW h \in N
        PROVE  n.entries[h].cumulative_vote = VotesAt(d, h)
    <3>1. VotesAt(d, h) = IF h \in Ancestors[b] THEN VotesAt(c, h) \union {v} ELSE VotesAt(c, h)
      BY <1>8 DEF VotesAt
    <3>2. g.entries[h].cumulative_vote = VotesAt(c, h)
      BY DEF VotesFit
    <3> QED  BY <1>2, <1>4, <3>1, <3>2
  <2> QED  BY <1>3, <1>8, <2>1, <2>2 DEF VotesFit
<1> QED  BY <1>2, <1>3, <1>5, <1>7, <1>9 DEF n, d

\* What adjust_base may be given: the blocks from the parent of the base down to some block
\* below it, or none.
IsBaseProof(base, proof) ==
    proof = <<>> \/ \E b \in Ancestors[base] \ {base} : proof = Append(Ancestry(b, base), b)

\* adjust_base: a new base below the old one has all of its votes.
LEMMA AdjustFits ==
    ASSUME NEW g, NEW c, IsGraph(g), RecordsFit(g), VotesFit(g, c), NEW proof, IsBaseProof(g.base, proof)
    PROVE  LET n == AdjustBase(g, proof)
           IN  /\ IsGraph(n) /\ RecordsFit(n) /\ VotesFit(n, c)
               /\ DOMAIN n.entries = DOMAIN g.entries \union {n.base}
               /\ n.base \in Ancestors[g.base]
<1> DEFINE N == DOMAIN g.entries
           old == g.base
           n == AdjustBase(g, proof)
<1>1. N \subseteq Block /\ old \in N /\ old \in Block /\ \A h \in N : old \in Ancestors[h]
  BY DEF IsGraph, NodesFit
<1>2. CASE proof = <<>>
  <2>1. n = g
    BY <1>2 DEF AdjustBase
  <2> QED  BY <1>1, <2>1, ChainFacts
<1>3. CASE proof # <<>>
  <2>1. PICK b \in Ancestors[old] : b # old /\ proof = Append(Ancestry(b, old), b)
    BY <1>3 DEF IsBaseProof
  <2>2. proof = Edge(old, b)
    BY <1>1, <2>1, AncestryIsEdge
  <2>3. /\ Number[old] \in Nat /\ Number[b] \in Nat /\ Number[b] < Number[old] /\ b \in Block
        /\ proof \in Seq(Block) /\ Len(proof) = Number[old] - Number[b]
        /\ \A i \in 1 .. (Number[old] - Number[b]) : proof[i] = AncestorAt(old, Number[old] - i)
    BY <1>1, <2>1, <2>2, EdgeIsSeq
  <2>4. ~(Len(proof) > Number[old])
    BY <2>3
  <2>5. Last(proof) = b
    <3>1. Number[old] - (Number[old] - Number[b]) = Number[b] /\ Number[old] - Number[b] \in 1 .. (Number[old] - Number[b])
      BY <2>3
    <3>2. AncestorAt(old, Number[b]) = b
      BY <1>1, <2>1, <2>3, AncestorAtFacts
    <3> QED  BY <2>3, <3>1, <3>2 DEF Last
  <2>6. b \notin N
    BY <1>1, <2>1, ChainFacts
  <2> DEFINE longer(h) == [g.entries[h] EXCEPT !.ancestors = @ \o proof]
             entries == [h \in N \union {b} |->
                            CASE h = b   -> NewEntry(<<>>, {old}, g.entries[old].cumulative_vote)
                              [] h = old -> longer(h)
                              [] OTHER   -> g.entries[h]]
  <2>7. /\ n = [entries |-> entries, heads |-> g.heads, base |-> b]
        /\ n.entries = entries /\ n.heads = g.heads /\ n.base = b
    <3>1. n = [g EXCEPT !.entries = entries, !.base = b]
      BY <1>3, <2>4, <2>5 DEF AdjustBase
    <3> HIDE DEF entries, n
    <3> QED  BY <3>1 DEF RecordsFit
  <2>8. DOMAIN n.entries = N \union {b}
    BY <2>7
  <2>9. entries[b] = NewEntry(<<>>, {old}, g.entries[old].cumulative_vote)
    BY <1>1, <2>6
  <2>10. ASSUME NEW h \in N
         PROVE  /\ entries[h].ancestors = IF h = old THEN Edge(old, b) ELSE g.entries[h].ancestors
                /\ entries[h].cumulative_vote = g.entries[h].cumulative_vote
                /\ entries[h].descendents = g.entries[h].descendents
                /\ entries[h] = NewEntry(entries[h].ancestors, entries[h].descendents, entries[h].cumulative_vote)
    <3>1. g.entries[h] = NewEntry(g.entries[h].ancestors, g.entries[h].descendents, g.entries[h].cumulative_vote)
      BY DEF RecordsFit
    <3>2. CASE h = old
      <4>1. entries[h] = longer(h)
        BY <2>6, <3>2
      <4>2. g.entries[h].ancestors = <<>>
        BY <3>2 DEF IsGraph, EdgesFit
      <4>3. <<>> \o proof = proof
        BY <2>3
      <4> HIDE DEF entries
      <4>4. entries[h] = NewEntry(proof, g.entries[h].descendents, g.entries[h].cumulative_vote)
        BY <3>1, <4>1, <4>2, <4>3 DEF NewEntry
      <4> QED  BY <2>2, <3>2, <4>4 DEF NewEntry
    <3>3. CASE h # old
      <4>1. entries[h] = g.entries[h]
        BY <2>6, <3>3
      <4> HIDE DEF entries
      <4> QED  BY <3>1, <3>3, <4>1
    <3> QED  BY <3>2, <3>3
  <2> HIDE DEF longer, n
  <2>11. RecordsFit(n)
    <3>1. entries = [h \in N \union {b} |-> entries[h]]
      OBVIOUS
    <3> HIDE DEF entries
    <3>2. \A h \in N \union {b} :
              entries[h] = NewEntry(entries[h].ancestors, entries[h].descendents, entries[h].cumulative_vote)
      BY <2>9, <2>10 DEF NewEntry
    <3> QED  BY <2>7, <2>8, <3>1, <3>2 DEF RecordsFit
  <2> HIDE DEF entries
  <2>12. /\ n.entries[b].ancestors = <<>> /\ n.entries[b].descendents = {old}
         /\ n.entries[b].cumulative_vote = g.entries[old].cumulative_vote
    BY <2>7, <2>9 DEF NewEntry
  <2>13. \A h \in N : b \in Ancestors[h] /\ b # h /\ h \notin Ancestors[b]
    BY <1>1, <2>1, <2>6, ChainFacts
  <2>14. NodesFit(n)
    <3>1. PICK k \in Nat : \A h \in N : Number[h] <= k
      BY DEF IsGraph, NodesFit
    <3>2. \A h \in N \union {b} : Number[h] <= k
      BY <1>1, <2>3, <3>1
    <3> QED  BY <1>1, <2>3, <2>7, <2>8, <2>13, <3>2, ChainFacts DEF NodesFit
  <2> DEFINE M == N \union {b}
  <2>15. \A q : ~HighestBelow(M, b, q)
    BY <2>13 DEF HighestBelow
  <2>16. \A q : HighestBelow(M, old, q) <=> q = b
    <3>1. HighestBelow(M, old, b)
      BY <1>1, <2>1, <2>3, ChainFacts DEF HighestBelow
    <3>2. M \subseteq Block
      BY <1>1, <2>3
    <3> HIDE DEF M
    <3> QED  BY <1>1, <3>1, <3>2, OneHighest
  <2>17. \A h \in N \ {old} : \A q : HighestBelow(M, h, q) <=> HighestBelow(N, h, q)
    <3> SUFFICES ASSUME NEW h \in N, h # old, NEW q PROVE HighestBelow(M, h, q) <=> HighestBelow(N, h, q)
      OBVIOUS
    <3>1. HighestBelow(M, h, q) => HighestBelow(N, h, q)
      <4>1. HighestBelow(M, h, q) => q # b
        BY <1>1, <2>6, <2>13 DEF HighestBelow
      <4> QED  BY <4>1 DEF HighestBelow
    <3>2. HighestBelow(N, h, q) => HighestBelow(M, h, q)
      BY <2>13 DEF HighestBelow
    <3> QED  BY <3>1, <3>2
  <2>18. EdgesFit(n)
    <3>1. n.entries[n.base].ancestors = <<>>
      BY <2>7, <2>12
    <3>2. ASSUME NEW h \in M \ {n.base}
          PROVE  \E q \in M : HighestBelow(M, h, q) /\ n.entries[h].ancestors = Edge(h, q)
      <4>1. h \in N
        BY <2>7
      <4>2. CASE h = old
        BY <2>7, <2>10, <2>16, <4>1, <4>2
      <4>3. CASE h # old
        <5>1. PICK q \in N : HighestBelow(N, h, q) /\ g.entries[h].ancestors = Edge(h, q)
          BY <4>1, <4>3 DEF IsGraph, EdgesFit
        <5> QED  BY <2>7, <2>10, <2>17, <4>1, <4>3, <5>1
      <4> QED  BY <4>2, <4>3
    <3>3. ASSUME NEW h \in M
          PROVE  n.entries[h].descendents = {d \in M : HighestBelow(M, d, h)}
      <4>1. CASE h = b
        <5>1. \A d \in N \ {old} : ~HighestBelow(N, d, b)
          BY <2>6 DEF HighestBelow
        <5>2. \A d \in M : HighestBelow(M, d, b) <=> d = old
          BY <2>15, <2>16, <2>17, <5>1
        <5>3. old \in M
          BY <1>1
        <5> HIDE DEF M
        <5> QED  BY <2>12, <4>1, <5>2, <5>3
      <4>2. CASE h # b
        <5>1. h \in N /\ g.entries[h].descendents = {d \in N : HighestBelow(N, d, h)}
          BY <4>2 DEF IsGraph, EdgesFit
        <5>2. n.entries[h].descendents = {d \in N : HighestBelow(N, d, h)}
          BY <2>7, <2>10, <5>1
        <5>3. ~HighestBelow(N, old, h)
          BY <1>1, <5>1, ChainFacts DEF HighestBelow
        <5>4. \A d \in N : HighestBelow(M, d, h) <=> HighestBelow(N, d, h)
          BY <2>16, <2>17, <4>2, <5>3
        <5>5. ~HighestBelow(M, b, h)
          BY <2>15
        <5> QED  BY <5>2, <5>4, <5>5
      <4> QED  BY <4>1, <4>2
    <3> HIDE DEF M
    <3>4. DOMAIN n.entries = M
      BY <2>8 DEF M
    <3> QED  BY <3>1, <3>2, <3>3, <3>4 DEF EdgesFit
  <2>19. HeadsFit(n)
    <3>1. g.heads = {h \in N : \A d \in N : h \in Ancestors[d] => d = h}
      BY DEF IsGraph, HeadsFit
    <3>2. \A h \in N : h \notin Ancestors[b]
      BY <2>13
    <3>3. b \in Ancestors[old] /\ b # old
      BY <2>1
    <3>4. n.heads = {h \in M : \A d \in M : h \in Ancestors[d] => d = h}
      BY <1>1, <2>7, <3>1, <3>2, <3>3
    <3> QED  BY <2>8, <3>4 DEF HeadsFit
  <2>20. VotesFit(n, c)
    <3>1. \A v \in DOMAIN c : c[v] # None => c[v] \in N
      BY DEF VotesFit
    <3>2. \A h \in N : n.entries[h].cumulative_vote = VotesAt(c, h)
      BY <2>7, <2>10 DEF VotesFit
    <3>3. VotesAt(c, b) = VotesAt(c, old)
      BY <1>1, <2>13, <3>1 DEF VotesAt
    <3>4. n.entries[b].cumulative_vote = VotesAt(c, b)
      BY <1>1, <2>12, <3>3 DEF VotesFit
    <3> QED  BY <2>8, <3>1, <3>2, <3>4 DEF VotesFit
  <2> QED  BY <2>1, <2>7, <2>8, <2>11, <2>14, <2>18, <2>19, <2>20 DEF IsGraph, n
<1> QED  BY <1>2, <1>3

\* insert: the block becomes a node, if it is in a graph's reach, and has the vote.
LEMMA InsertFits ==
    ASSUME NEW g, NEW c, IsGraph(g), RecordsFit(g), VotesFit(g, c), c \in [DOMAIN c -> OptionBlock],
           NEW b \in Block, NEW v \in DOMAIN c, c[v] = None, CanInsert(g, b)
    PROVE  LET n == Insert(g, b, v)
           IN  /\ IsGraph(n) /\ RecordsFit(n) /\ VotesFit(n, [c EXCEPT ![v] = b])
               /\ DOMAIN n.entries = DOMAIN g.entries \union {b} /\ n.base = g.base
<1> DEFINE C == ContainingNodes(g, b)
           m == IF IsNode(g, b) THEN g ELSE IF C = {} THEN AppendNode(g, b) ELSE IntroduceBranch(g, C, b)
<1>1. Insert(g, b, v) = AddVoteFrom(m, b, v)
  BY DEF Insert
<1>2. /\ IsGraph(m) /\ RecordsFit(m) /\ VotesFit(m, c)
      /\ DOMAIN m.entries = DOMAIN g.entries \union {b} /\ m.base = g.base
  <2>1. CASE b \in DOMAIN g.entries
    BY <2>1 DEF IsNode
  <2>2. CASE b \notin DOMAIN g.entries /\ C = {}
    <3>1. g.base \in Ancestors[b]
      BY <2>2 DEF CanInsert, IsNode, IsEqualOrDescendentOf
    <3> QED  BY <2>2, <3>1, AppendFits DEF IsNode
  <2>3. CASE b \notin DOMAIN g.entries /\ C # {}
    BY <2>3, IntroduceFits DEF IsNode
  <2> QED  BY <2>1, <2>2, <2>3
<1> HIDE DEF m
<1>3. b \in DOMAIN m.entries
  BY <1>2
<1>4. LET n == AddVoteFrom(m, b, v)
      IN  /\ IsGraph(n) /\ RecordsFit(n) /\ VotesFit(n, [c EXCEPT ![v] = b])
          /\ DOMAIN n.entries = DOMAIN m.entries /\ n.base = m.base
  BY <1>2, <1>3, AddVoteFits
<1> QED  BY <1>1, <1>2, <1>4

\* The graph of the votes c: the forest of its nodes, which have these votes.
IsVoteGraph(g, c) ==
    c \in [DOMAIN c -> OptionBlock] /\ IsGraph(g) /\ RecordsFit(g) /\ VotesFit(g, c)

\* A new graph is its base, and has no votes.
LEMMA NewGraphFits ==
    ASSUME NEW b \in Block, NEW c, c \in [DOMAIN c -> {None}]
    PROVE  /\ IsVoteGraph(NewGraph(b), c)
           /\ DOMAIN NewGraph(b).entries = {b} /\ NewGraph(b).base = b
<1> DEFINE e == NewEntry(<<>>, {}, {})
           entries == [h \in {b} |-> e]
           g == NewGraph(b)
<1>1. b \in Ancestors[b] /\ Number[b] \in Nat
  BY ChainFacts
<1>2. c \in [DOMAIN c -> OptionBlock] /\ \A v \in DOMAIN c : c[v] = None
  BY DEF OptionBlock
<1>3. g = [entries |-> entries, heads |-> {b}, base |-> b]
  BY DEF NewGraph
<1> HIDE DEF g
<1>4. /\ DOMAIN g.entries = {b} /\ g.base = b /\ g.heads = {b}
      /\ g.entries[b] = e /\ g.entries = [h \in {b} |-> g.entries[h]]
      /\ g = [entries |-> g.entries, heads |-> g.heads, base |-> g.base]
  BY <1>3
<1>5. e.ancestors = <<>> /\ e.descendents = {} /\ e.cumulative_vote = {} /\ e = NewEntry(e.ancestors, e.descendents, e.cumulative_vote)
  BY DEF NewEntry
<1> HIDE DEF e, entries
<1>6. RecordsFit(g)
  BY <1>4, <1>5 DEF RecordsFit
<1>7. IsGraph(g)
  <2>1. NodesFit(g)
    BY <1>1, <1>4 DEF NodesFit
  <2>2. EdgesFit(g)
    BY <1>4, <1>5 DEF EdgesFit, HighestBelow
  <2>3. HeadsFit(g)
    BY <1>4 DEF HeadsFit
  <2> QED  BY <2>1, <2>2, <2>3 DEF IsGraph
<1>8. VotesFit(g, c)
  BY <1>2, <1>4, <1>5 DEF VotesFit, VotesAt
<1> QED  BY <1>2, <1>4, <1>6, <1>7, <1>8 DEF IsVoteGraph, g

-----------------------------------------------------------------------------
(* Searching down *)

\* What IsVoteGraph says, spelled out.
LEMMA GraphFacts ==
    ASSUME NEW graph, NEW cast, IsVoteGraph(graph, cast)
    PROVE  /\ cast \in [DOMAIN cast -> OptionBlock] /\ IsGraph(graph) /\ VotesFit(graph, cast)
           /\ DOMAIN graph.entries \subseteq Block /\ graph.base \in DOMAIN graph.entries
           /\ graph.base \in Block
           /\ \A h \in DOMAIN graph.entries : graph.base \in Ancestors[h]
           /\ \A v \in DOMAIN cast : cast[v] # None => cast[v] \in DOMAIN graph.entries
           /\ \A b \in Block : \A a \in Ancestors[b] : VotesAt(cast, b) \subseteq VotesAt(cast, a)
<1>1. DOMAIN graph.entries \subseteq Block /\ \A v \in DOMAIN cast : cast[v] # None => cast[v] \in DOMAIN graph.entries
  BY DEF IsVoteGraph, IsGraph, NodesFit, VotesFit
<1>2. ASSUME NEW b \in Block, NEW a \in Ancestors[b] PROVE VotesAt(cast, b) \subseteq VotesAt(cast, a)
  BY <1>1, ChainFacts DEF VotesAt
<1> QED  BY <1>1, <1>2 DEF IsVoteGraph, IsGraph, NodesFit

\* The blocks that the graph has as nodes or on its edges.
Blocks(graph) ==
    {b \in Block : graph.base \in Ancestors[b] /\ \E h \in DOMAIN graph.entries : b \in Ancestors[h]}

LEMMA BlocksOfGraph ==
    ASSUME NEW graph, NEW cast, IsVoteGraph(graph, cast), NEW b \in Block
    PROVE  b \in Blocks(graph) <=> IsNode(graph, b) \/ ContainingNodes(graph, b) # {}
<1>1. ASSUME b \in DOMAIN graph.entries PROVE b \in Blocks(graph)
  BY <1>1, GraphFacts, ChainFacts DEF Blocks
<1>2. ASSUME b \notin DOMAIN graph.entries, NEW h \in ContainingNodes(graph, b) PROVE b \in Blocks(graph)
  BY <1>2, ContainingFacts, GraphFacts DEF Blocks
<1>3. ASSUME b \notin DOMAIN graph.entries, b \in Blocks(graph) PROVE ContainingNodes(graph, b) # {}
  BY <1>3, LowestAbove, GraphFacts DEF Blocks
<1> QED  BY <1>1, <1>2, <1>3 DEF IsNode

\* A block between the base and a block of the graph is one too.
LEMMA BlocksBelow ==
    ASSUME NEW graph, NEW cast, IsVoteGraph(graph, cast), NEW b \in Blocks(graph), NEW x \in Ancestors[b],
           graph.base \in Ancestors[x]
    PROVE  x \in Blocks(graph)
  BY GraphFacts, ChainFacts DEF Blocks

\* The search goes on at the parent, of a node as of a block on an edge.
LEMMA BlockBelowFacts ==
    ASSUME NEW graph, NEW cast, IsVoteGraph(graph, cast), NEW b \in Blocks(graph)
    PROVE  /\ b = graph.base => BlockBelow(graph, b) = None
           /\ b # graph.base =>
                  /\ BlockBelow(graph, b) \in Blocks(graph)
                  /\ BlockBelow(graph, b) \in Ancestors[b]
                  /\ Number[BlockBelow(graph, b)] < Number[b]
                  /\ \A y \in Ancestors[b] : y # b => y \in Ancestors[BlockBelow(graph, b)]
<1> DEFINE N == DOMAIN graph.entries
           x == BlockBelow(graph, b)
<1>1. b \in Block /\ Number[b] \in Nat /\ IsGraph(graph) /\ graph.base \in Ancestors[b] /\ None \notin Block
  BY GraphFacts, ChainFacts, BlockTreeAssumption DEF Blocks
<1>2. CASE b = graph.base
  BY <1>1, <1>2, GraphFacts DEF BlockBelow, IsNode, IsGraph, EdgesFit
<1>3. CASE b # graph.base
  <2>1. graph.base \in Block /\ Number[graph.base] \in Nat /\ Number[graph.base] < Number[b]
    BY <1>1, <1>3, GraphFacts, ChainFacts
  <2> DEFINE m == Number[b] - 1
  <2>2. m \in Nat /\ m \in Number[graph.base] .. Number[b] /\ m < Number[b] /\ \A k \in Nat : k < Number[b] => k <= m
    BY <1>1, <2>1
  <2>3. x = AncestorAt(b, m)
    <3>1. CASE b \in N
      <4> DEFINE p == AncestorNode(graph, b)
      <4>1. p \in Ancestors[b] /\ p # b /\ graph.entries[b].ancestors = Edge(b, p)
        BY <1>1, <1>3, <3>1, EdgeFacts DEF HighestBelow
      <4> HIDE DEF p
      <4>2. /\ Number[p] \in Nat /\ Number[p] < Number[b] /\ Len(Edge(b, p)) = Number[b] - Number[p]
            /\ \A i \in 1 .. (Number[b] - Number[p]) : Edge(b, p)[i] = AncestorAt(b, Number[b] - i)
        BY <1>1, <4>1, EdgeIsSeq
      <4>3. 1 \in 1 .. (Number[b] - Number[p]) /\ Edge(b, p) # <<>>
        BY <1>1, <4>2
      <4> QED  BY <3>1, <4>1, <4>2, <4>3 DEF BlockBelow, IsNode
    <3>2. CASE b \notin N
      <4> DEFINE some == CHOOSE h \in ContainingNodes(graph, b) : TRUE
                 p == AncestorNode(graph, some)
      <4>1. some \in ContainingNodes(graph, b)
        BY <3>2, BlocksOfGraph, <1>1 DEF IsNode
      <4>2. x = AncestorBlock(graph, some, m)
        BY <3>2 DEF BlockBelow, IsNode
      <4> HIDE DEF some
      <4>3. /\ some \in N /\ some # graph.base /\ b \in Ancestors[some] /\ b # some
            /\ HighestBelow(N, b, p) /\ p \in Ancestors[b] /\ p # b /\ some \in Block /\ p \in Block
        BY <1>1, <3>2, <4>1, ContainingFacts, GraphFacts DEF HighestBelow
      <4>4. Number[p] < Number[b] /\ Number[p] \in Nat /\ Number[b] < Number[some] /\ Number[some] \in Nat
        BY <1>1, <4>3, ChainFacts
      <4>5. Number[p] <= m /\ m < Number[some]
        BY <1>1, <2>2, <4>4
      <4>6. x = AncestorAt(some, m)
        BY <1>1, <2>2, <4>2, <4>3, <4>5, EdgeFacts
      <4>7. AncestorAt(b, m) \in Ancestors[some] /\ Number[AncestorAt(b, m)] = m
        BY <1>1, <2>2, <4>3, AncestorAtFacts, ChainFacts
      <4>8. m \in Number[b] - 1 .. Number[some] /\ m \in Number[graph.base] .. Number[some] /\ graph.base \in Ancestors[some]
        BY <1>1, <2>1, <2>2, <4>3, <4>4, GraphFacts
      <4> QED  BY <4>3, <4>6, <4>7, <4>8, AncestorAtFacts
    <3> QED  BY <3>1, <3>2
  <2> HIDE DEF x, m
  <2>4. x \in Ancestors[b] /\ Number[x] = m /\ graph.base \in Ancestors[x]
    BY <1>1, <2>2, <2>3, AncestorAtFacts
  <2>5. x \in Blocks(graph)
    BY <2>4, BlocksBelow
  <2>6. ASSUME NEW y \in Ancestors[b], y # b PROVE y \in Ancestors[x]
    <3>1. Number[y] \in Nat /\ Number[y] < Number[b]
      BY <1>1, <2>6, ChainFacts
    <3> QED  BY <1>1, <2>2, <2>4, <3>1, ChainFacts
  <2> QED  BY <1>3, <2>2, <2>4, <2>5, <2>6 DEF x
<1> QED  BY <1>2, <1>3

\* The blocks of the graph at or below a head that satisfy a condition.
Satisfying(graph, cast, head, condition) == {b \in Blocks(graph) \intersect Ancestors[head] : condition[VotesAt(cast, b)]}

\* The highest of them, if the head is in the graph.
HighestSatisfying(graph, cast, head, condition) ==
    IF head \notin Blocks(graph) \/ Satisfying(graph, cast, head, condition) = {} THEN None
    ELSE CHOOSE x \in Satisfying(graph, cast, head, condition) :
             \A y \in Satisfying(graph, cast, head, condition) : Number[y] <= Number[x]

\* find_ancestor, for any condition.
LEMMA SearchExact ==
    ASSUME NEW graph, NEW cast, IsVoteGraph(graph, cast), NEW head \in Block, NEW condition
    PROVE  FindAncestor(graph, head, condition) = HighestSatisfying(graph, cast, head, condition)
<1> DEFINE search[b \in Block] ==
               IF ~IsNode(graph, b) /\ ContainingNodes(graph, b) = {} THEN None
               ELSE IF condition[CumulativeVote(graph, b)] THEN b
               ELSE IF BlockBelow(graph, b) = None THEN None ELSE search[BlockBelow(graph, b)]
           Step(w, b) ==
               IF ~IsNode(graph, b) /\ ContainingNodes(graph, b) = {} THEN None
               ELSE IF condition[CumulativeVote(graph, b)] THEN b
               ELSE IF BlockBelow(graph, b) = None THEN None ELSE w[BlockBelow(graph, b)]
           found == [b \in Block |-> HighestSatisfying(graph, cast, b, condition)]
<1>1. FindAncestor(graph, head, condition) = search[head]
  BY DEF FindAncestor
<1>2. search = CHOOSE w : w = [b \in Block |-> Step(w, b)]
  OBVIOUS
<1> HIDE DEF search
<1>3. ASSUME NEW b \in Block, b \in Blocks(graph)
      PROVE  /\ IsNode(graph, b) \/ ContainingNodes(graph, b) # {}
             /\ CumulativeVote(graph, b) = VotesAt(cast, b)
  BY <1>3, BlocksOfGraph, CumulativeIsExact, GraphFacts DEF Blocks
<1>4. Blocks(graph) \subseteq Block /\ None \notin Block
  BY BlockTreeAssumption DEF Blocks
<1>5. ASSUME NEW b \in Block PROVE found[b] = Step(found, b)
  <2> DEFINE S == Satisfying(graph, cast, b, condition)
             x == BlockBelow(graph, b)
  <2>1. found[b] = HighestSatisfying(graph, cast, b, condition)
    OBVIOUS
  <2>2. CASE b \notin Blocks(graph)
    BY <2>1, <2>2, BlocksOfGraph DEF HighestSatisfying
  <2>3. CASE b \in Blocks(graph) /\ condition[VotesAt(cast, b)]
    <3>1. b \in S /\ S \subseteq Ancestors[b]
      BY <2>3, ChainFacts DEF Satisfying
    <3>2. \A y \in S : Number[y] <= Number[b]
      BY <3>1, ChainFacts
    <3>3. ASSUME NEW y \in S, \A z \in S : Number[z] <= Number[y] PROVE y = b
      <4>1. Number[y] = Number[b]
        BY <3>1, <3>2, <3>3, ChainFacts
      <4> QED  BY <3>1, <4>1, ChainFacts
    <3> HIDE DEF S
    <3>4. HighestSatisfying(graph, cast, b, condition) = b
      BY <2>3, <3>1, <3>2, <3>3 DEF HighestSatisfying, S
    <3> QED  BY <1>3, <2>1, <2>3, <3>4
  <2>4. CASE b \in Blocks(graph) /\ ~condition[VotesAt(cast, b)] /\ b = graph.base
    <3>1. x = None
      BY <2>4, BlockBelowFacts
    <3>2. \A y \in Blocks(graph) : y \in Ancestors[b] => y = b
      BY <2>4, ChainFacts DEF Blocks
    <3>3. S = {}
      BY <2>4, <3>2 DEF Satisfying
    <3>4. HighestSatisfying(graph, cast, b, condition) = None
      BY <3>3 DEF HighestSatisfying
    <3> QED  BY <1>3, <2>1, <2>4, <3>1, <3>4
  <2>5. CASE b \in Blocks(graph) /\ ~condition[VotesAt(cast, b)] /\ b # graph.base
    <3>1. x \in Blocks(graph) /\ x \in Ancestors[b] /\ \A y \in Ancestors[b] : y # b => y \in Ancestors[x]
      BY <2>5, BlockBelowFacts
    <3>2. x \in Block /\ x # None /\ Ancestors[x] \subseteq Ancestors[b]
      BY <1>4, <3>1, ChainFacts
    <3>3. Satisfying(graph, cast, x, condition) = S
      BY <2>5, <3>1, <3>2 DEF Satisfying
    <3>4. HighestSatisfying(graph, cast, x, condition) = HighestSatisfying(graph, cast, b, condition)
      BY <2>5, <3>1, <3>3 DEF HighestSatisfying
    <3>5. found[x] = HighestSatisfying(graph, cast, x, condition)
      BY <3>2
    <3>6. Step(found, b) = found[x]
      BY <1>3, <2>5, <3>2
    <3> QED  BY <2>1, <3>4, <3>5, <3>6
  <2> QED  BY <2>2, <2>3, <2>4, <2>5
<1>6. search = [b \in Block |-> Step(search, b)]
  <2>1. found = [b \in Block |-> Step(found, b)]
    BY <1>5
  <2> HIDE DEF Step, found
  <2> QED  BY <1>2, <2>1
<1>7. ASSUME NEW z \in Block, search[z] # found[z] PROVE FALSE
  <2> DEFINE bad == {y \in Block : search[y] # found[y]}
             wrong == {Number[y] : y \in bad}
  <2> HIDE DEF found
  <2>1. wrong \in SUBSET Nat /\ wrong # {}
    BY <1>7, ChainFacts
  <2>2. PICK b \in bad : \A m \in wrong : Number[b] <= m
    BY <2>1, SmallestNumber
  <2>3. search[b] = Step(search, b) /\ found[b] = Step(found, b) /\ b \in Block /\ search[b] # found[b]
    BY <1>5, <1>6
  <2>4. CASE b \notin Blocks(graph)
    BY <2>3, <2>4, BlocksOfGraph
  <2>5. CASE b \in Blocks(graph) /\ b = graph.base
    BY <2>3, <2>5, BlockBelowFacts
  <2>6. CASE b \in Blocks(graph) /\ b # graph.base
    <3> DEFINE x == BlockBelow(graph, b)
    <3>1. x \in Block /\ Number[x] < Number[b] /\ Number[x] \in Nat /\ Number[b] \in Nat
      BY <1>4, <2>3, <2>6, BlockBelowFacts, ChainFacts
    <3>2. search[x] = found[x]
      BY <2>2, <3>1
    <3> QED  BY <2>3, <3>2
  <2> QED  BY <2>4, <2>5, <2>6
<1>8. search[head] = found[head] /\ found[head] = HighestSatisfying(graph, cast, head, condition)
  BY <1>7
<1> QED  BY <1>1, <1>8

\* The blocks at or below a head with a property have a highest one.
LEMMA HighestExists ==
    ASSUME NEW head \in Block, NEW S \in SUBSET Ancestors[head], S # {}
    PROVE  \E x \in S : \A y \in S : Number[y] <= Number[x]
<1> DEFINE depths == {Number[head] - Number[y] : y \in S}
<1>1. Number[head] \in Nat /\ \A y \in S : y \in Block /\ Number[y] \in Nat /\ Number[y] <= Number[head]
  BY ChainFacts
<1>2. depths \in SUBSET Nat /\ depths # {}
  BY <1>1
<1>3. PICK x \in S : \A m \in depths : Number[head] - Number[x] <= m
  BY <1>2, SmallestNumber
<1>4. ASSUME NEW y \in S PROVE Number[y] <= Number[x]
  <2>1. Number[head] - Number[x] <= Number[head] - Number[y]
    BY <1>3
  <2> QED  BY <1>1, <2>1
<1> QED  BY <1>4

-----------------------------------------------------------------------------
(* Searching up *)

\* The nodes whose next node is h.
LEMMA DescendentFacts ==
    ASSUME NEW graph, NEW cast, IsVoteGraph(graph, cast), NEW h \in DOMAIN graph.entries
    PROVE  /\ graph.entries[h].descendents = {d \in DOMAIN graph.entries : HighestBelow(DOMAIN graph.entries, d, h)}
           /\ \A d \in graph.entries[h].descendents :
                  /\ d \in DOMAIN graph.entries /\ d # graph.base /\ d \in Block
                  /\ HighestBelow(DOMAIN graph.entries, d, h) /\ AncestorNode(graph, d) = h
                  /\ h \in Ancestors[d] /\ h # d
<1>1. graph.entries[h].descendents = {d \in DOMAIN graph.entries : HighestBelow(DOMAIN graph.entries, d, h)}
  BY GraphFacts DEF IsGraph, EdgesFit
<1>2. ASSUME NEW d \in DOMAIN graph.entries, HighestBelow(DOMAIN graph.entries, d, h)
      PROVE  d # graph.base /\ d \in Block /\ AncestorNode(graph, d) = h /\ h \in Ancestors[d] /\ h # d
  <2>1. d \in Block /\ h \in Block /\ h \in Ancestors[d] /\ h # d /\ graph.base \in Ancestors[h]
    BY <1>2, GraphFacts DEF HighestBelow
  <2>2. d # graph.base
    BY <2>1, ChainFacts
  <2>3. HighestBelow(DOMAIN graph.entries, d, AncestorNode(graph, d))
    BY <2>2, EdgeFacts, GraphFacts
  <2> QED  BY <1>2, <2>1, <2>2, <2>3, OneHighest, GraphFacts
<1> QED  BY <1>1, <1>2

\* Those of the given descendents that meet at block c, the next above b.
Meeting(node, descendents, b, c) ==
    {d \in descendents : /\ node \in Ancestors[b] /\ b \in Ancestors[d]
                         /\ c \in Ancestors[d] /\ c # d /\ Number[c] = Number[b] + 1}

\* ghost_find_merge_point reads that off the edges of the descendents.
LEMMA MeetingFacts ==
    ASSUME NEW graph, NEW cast, IsVoteGraph(graph, cast), NEW node \in DOMAIN graph.entries,
           NEW D \in SUBSET graph.entries[node].descendents, NEW b \in Block, NEW c \in Block
    PROVE  {d \in D : /\ b = node \/ InDirectAncestry(graph, d, b)
                      /\ AncestorBlock(graph, d, Number[b] + 1) = c} = Meeting(node, D, b, c)
<1> SUFFICES ASSUME NEW d \in D
             PROVE  /\ b = node \/ InDirectAncestry(graph, d, b)
                    /\ AncestorBlock(graph, d, Number[b] + 1) = c
                    <=> /\ node \in Ancestors[b] /\ b \in Ancestors[d]
                        /\ c \in Ancestors[d] /\ c # d /\ Number[c] = Number[b] + 1
  BY DEF Meeting
<1>1. /\ d \in DOMAIN graph.entries /\ d # graph.base /\ d \in Block /\ AncestorNode(graph, d) = node
      /\ node \in Ancestors[d] /\ node # d /\ node \in Block /\ IsGraph(graph)
  BY DescendentFacts, GraphFacts
<1>2. /\ Number[node] \in Nat /\ Number[d] \in Nat /\ Number[b] \in Nat /\ Number[c] \in Nat
      /\ Number[node] < Number[d] /\ b \in Ancestors[b] /\ c # None
  BY <1>1, ChainFacts, BlockTreeAssumption
<1>3. InDirectAncestry(graph, d, b) <=> b \in Ancestors[d] /\ b # d /\ node \in Ancestors[b]
  BY <1>1, DirectAncestry
<1> DEFINE m == Number[b] + 1
<1>4. AncestorBlock(graph, d, m) = IF Number[node] <= m /\ m < Number[d] THEN AncestorAt(d, m) ELSE None
  BY <1>1, <1>2, EdgeFacts
<1>5. ASSUME b = node \/ InDirectAncestry(graph, d, b), AncestorBlock(graph, d, m) = c
      PROVE  /\ node \in Ancestors[b] /\ b \in Ancestors[d]
             /\ c \in Ancestors[d] /\ c # d /\ Number[c] = m
  <2>1. node \in Ancestors[b] /\ b \in Ancestors[d]
    BY <1>1, <1>2, <1>3, <1>5
  <2>2. Number[node] <= m /\ m < Number[d] /\ c = AncestorAt(d, m)
    BY <1>2, <1>4, <1>5
  <2>3. m \in Number[node] .. Number[d]
    BY <1>2, <2>2
  <2>4. c \in Ancestors[d] /\ Number[c] = m
    BY <1>1, <2>2, <2>3, AncestorAtFacts
  <2> QED  BY <1>2, <2>1, <2>2, <2>4
<1>6. ASSUME node \in Ancestors[b], b \in Ancestors[d], c \in Ancestors[d], c # d, Number[c] = m
      PROVE  (b = node \/ InDirectAncestry(graph, d, b)) /\ AncestorBlock(graph, d, m) = c
  <2>1. Number[node] <= Number[b] /\ Number[c] < Number[d]
    BY <1>1, <1>6, ChainFacts
  <2>2. m \in Number[node] .. Number[d] /\ Number[node] <= m /\ m < Number[d] /\ Number[b] < Number[d]
    BY <1>2, <1>6, <2>1
  <2>3. b # d
    BY <1>2, <2>2
  <2>4. AncestorAt(d, m) = c
    BY <1>1, <1>6, <2>2, AncestorAtFacts
  <2> QED  BY <1>3, <1>4, <1>6, <2>2, <2>3, <2>4
<1> QED  BY <1>5, <1>6

\* Where the climb can go on from b, and where it ends.
NextOf(graph, node, descendents, condition, b) ==
    {c \in Block : \E d, e \in Meeting(node, descendents, b, c) :
                       d # e /\ condition[VotesOf(graph, Meeting(node, descendents, b, c))]}

\* Block x is reached from b.
Reached(graph, node, descendents, condition, b, x) ==
    /\ b \in Ancestors[x]
    /\ \A z \in Ancestors[x] : b \in Ancestors[z] /\ z # x =>
           \E c \in NextOf(graph, node, descendents, condition, z) : c \in Ancestors[x]

Climbed(graph, node, descendents, condition, b) ==
    {x \in Block : Reached(graph, node, descendents, condition, b, x) /\ NextOf(graph, node, descendents, condition, x) = {}}

\* A step of the climb goes from a block to one just above it, below a node.
LEMMA NextFacts ==
    ASSUME NEW graph, NEW cast, IsVoteGraph(graph, cast), NEW node \in DOMAIN graph.entries,
           NEW D \in SUBSET graph.entries[node].descendents, NEW condition,
           NEW b \in Block, NEW c \in NextOf(graph, node, D, condition, b)
    PROVE  /\ c \in Block /\ b \in Ancestors[c] /\ Number[c] = Number[b] + 1 /\ node \in Ancestors[b]
           /\ \E d \in D : c \in Ancestors[d] /\ c # d
<1>1. PICK d \in D : /\ node \in Ancestors[b] /\ b \in Ancestors[d]
                     /\ c \in Ancestors[d] /\ c # d /\ Number[c] = Number[b] + 1
  BY DEF NextOf, Meeting
<1>2. d \in Block /\ Number[b] \in Nat
  BY DescendentFacts, ChainFacts
<1>3. Number[b] <= Number[c]
  BY <1>1, <1>2
<1>4. b \in Ancestors[c]
  BY <1>1, <1>2, <1>3, ChainFacts
<1> QED  BY <1>1, <1>4 DEF NextOf

\* ghost_find_merge_point ends where the climb can, all ways considered.
LEMMA MergeExact ==
    ASSUME NEW graph, NEW cast, IsVoteGraph(graph, cast), NEW node \in DOMAIN graph.entries,
           NEW D \in SUBSET graph.entries[node].descendents, NEW condition
    PROVE  MergePoints(graph, node, D, condition) = Climbed(graph, node, D, condition, node)
<1> DEFINE climb[b \in Block] ==
               LET on(c) == {d \in D : /\ b = node \/ InDirectAncestry(graph, d, b)
                                       /\ AncestorBlock(graph, d, Number[b] + 1) = c}
                   next  == {c \in Block : \E d, e \in on(c) : d # e /\ condition[VotesOf(graph, on(c))]}
               IN  IF next = {} THEN {b} ELSE UNION {climb[c] : c \in next}
           on(b, c) == {d \in D : /\ b = node \/ InDirectAncestry(graph, d, b)
                                  /\ AncestorBlock(graph, d, Number[b] + 1) = c}
           next(b) == {c \in Block : \E d, e \in on(b, c) : d # e /\ condition[VotesOf(graph, on(b, c))]}
           Step(w, b) == IF next(b) = {} THEN {b} ELSE UNION {w[c] : c \in next(b)}
           N(b) == NextOf(graph, node, D, condition, b)
           F == [b \in Block |-> Climbed(graph, node, D, condition, b)]
<1>1. MergePoints(graph, node, D, condition) = climb[node]
  BY DEF MergePoints
<1>2. climb = CHOOSE w : w = [b \in Block |-> Step(w, b)]
  OBVIOUS
<1> HIDE DEF climb
<1>3. ASSUME NEW b \in Block PROVE next(b) = N(b)
  <2>1. \A c \in Block : on(b, c) = Meeting(node, D, b, c)
    BY MeetingFacts
  <2> HIDE DEF on
  <2> QED  BY <2>1 DEF NextOf
<1> HIDE DEF next
<1>4. ASSUME NEW b \in Block
      PROVE  F[b] = IF N(b) = {} THEN {b} ELSE UNION {F[c] : c \in N(b)}
  <2>1. F[b] = Climbed(graph, node, D, condition, b) /\ b \in Ancestors[b] /\ Number[b] \in Nat
    BY ChainFacts
  <2>2. \A c \in N(b) : /\ c \in Block /\ b \in Ancestors[c] /\ Number[c] = Number[b] + 1
                        /\ F[c] = Climbed(graph, node, D, condition, c)
    BY NextFacts
  <2> HIDE DEF F
  <2>3. CASE N(b) = {}
    <3>1. ASSUME NEW x \in Climbed(graph, node, D, condition, b) PROVE x = b
      <4>1. x \in Block /\ b \in Ancestors[x] /\ (b # x => \E c \in N(b) : c \in Ancestors[x])
        BY <2>1 DEF Climbed, Reached
      <4> QED  BY <2>3, <4>1
    <3>2. \A z \in Ancestors[b] : b \in Ancestors[z] => z = b
      BY ChainFacts
    <3>3. b \in Climbed(graph, node, D, condition, b)
      BY <2>1, <2>3, <3>2 DEF Climbed, Reached
    <3> QED  BY <2>1, <2>3, <3>1, <3>3
  <2>4. CASE N(b) # {}
    <3>1. ASSUME NEW x \in Climbed(graph, node, D, condition, b)
          PROVE  \E c \in N(b) : x \in Climbed(graph, node, D, condition, c)
      <4>1. x \in Block /\ N(x) = {} /\ Reached(graph, node, D, condition, b, x)
        BY DEF Climbed
      <4>2. PICK c \in N(b) : c \in Ancestors[x]
        BY <2>1, <2>4, <4>1 DEF Reached
      <4>3. \A z \in Ancestors[x] : c \in Ancestors[z] => b \in Ancestors[z]
        BY <2>2, <4>1, ChainFacts
      <4>4. Reached(graph, node, D, condition, c, x)
        BY <4>1, <4>2, <4>3 DEF Reached
      <4> QED  BY <4>1, <4>2, <4>4 DEF Climbed
    <3>2. ASSUME NEW c \in N(b), NEW x \in Climbed(graph, node, D, condition, c)
          PROVE  x \in Climbed(graph, node, D, condition, b)
      <4>1. x \in Block /\ N(x) = {} /\ Reached(graph, node, D, condition, c, x) /\ c \in Ancestors[x] /\ c \in Block
        BY <2>2 DEF Climbed, Reached
      <4>2. b \in Ancestors[x]
        BY <2>2, <4>1, ChainFacts
      <4>3. ASSUME NEW z \in Ancestors[x], b \in Ancestors[z], z # x
            PROVE  \E y \in N(z) : y \in Ancestors[x]
        <5>1. CASE c \in Ancestors[z]
          BY <4>1, <4>3, <5>1 DEF Reached
        <5>2. CASE c \notin Ancestors[z]
          <6>1. z \in Block /\ z \in Ancestors[c] /\ z # c
            BY <4>1, <5>2, ChainFacts
          <6>2. Number[z] < Number[c] /\ Number[b] <= Number[z] /\ Number[z] \in Nat
            BY <4>1, <4>3, <6>1, ChainFacts
          <6>3. Number[z] = Number[b]
            BY <2>1, <2>2, <6>2
          <6>4. z = b
            BY <4>1, <4>2, <6>3, ChainFacts
          <6> QED  BY <4>1, <6>4
        <5> QED  BY <5>1, <5>2
      <4> QED  BY <4>1, <4>2, <4>3 DEF Climbed, Reached
    <3> QED  BY <2>1, <2>2, <2>4, <3>1, <3>2
  <2> QED  BY <2>3, <2>4
<1>5. \A b \in Block : F[b] = Step(F, b)
  BY <1>3, <1>4
<1>6. climb = [b \in Block |-> Step(climb, b)]
  <2>1. F = [b \in Block |-> Step(F, b)]
    BY <1>5
  <2> HIDE DEF Step, F
  <2> QED  BY <1>2, <2>1
<1>7. PICK n \in Nat : \A h \in DOMAIN graph.entries : Number[h] <= n
  BY DEF IsVoteGraph, IsGraph, NodesFit
<1>8. ASSUME NEW b \in Block, NEW c \in N(b)
      PROVE  c \in Block /\ Number[c] = Number[b] + 1 /\ Number[b] \in Nat /\ Number[b] < n
  <2>1. PICK d \in D : c \in Ancestors[d]
    BY NextFacts
  <2>2. d \in DOMAIN graph.entries /\ d \in Block
    BY DescendentFacts
  <2>3. c \in Block /\ Number[c] = Number[b] + 1 /\ Number[b] \in Nat
    BY NextFacts, ChainFacts
  <2>4. Number[c] <= Number[d] /\ Number[d] <= n /\ Number[d] \in Nat
    BY <1>7, <2>1, <2>2, <2>3, ChainFacts
  <2> QED  BY <2>3, <2>4
<1> HIDE DEF F
<1>9. ASSUME NEW z \in Block, climb[z] # F[z] PROVE FALSE
  <2> DEFINE bad == {b \in Block : climb[b] # F[b]}
             depths == {n - Number[b] : b \in bad}
  <2>1. ASSUME NEW b \in bad PROVE N(b) # {} /\ n - Number[b] \in Nat
    <3>1. climb[b] = Step(climb, b) /\ F[b] = Step(F, b) /\ next(b) = N(b) /\ climb[b] # F[b]
      BY <1>3, <1>5, <1>6
    <3>2. N(b) # {}
      BY <3>1
    <3> QED  BY <1>8, <3>2
  <2>2. depths \in SUBSET Nat /\ depths # {}
    <3>1. z \in bad
      BY <1>9
    <3> HIDE DEF bad
    <3> QED  BY <2>1, <3>1
  <2>3. PICK b \in bad : \A m \in depths : n - Number[b] <= m
    BY <2>2, SmallestNumber
  <2>4. ASSUME NEW c \in N(b) PROVE climb[c] = F[c]
    <3>1. c \in Block /\ Number[c] = Number[b] + 1 /\ Number[b] \in Nat
      BY <1>8
    <3>2. c \in bad => n - Number[b] <= n - Number[c]
      BY <2>3
    <3> QED  BY <3>1, <3>2
  <2>5. climb[b] = Step(climb, b) /\ F[b] = Step(F, b) /\ next(b) = N(b) /\ climb[b] # F[b]
    BY <1>3, <1>5, <1>6
  <2>6. UNION {climb[c] : c \in N(b)} = UNION {F[c] : c \in N(b)}
    BY <2>4
  <2> QED  BY <2>5, <2>6
<1>10. node \in Block
  BY GraphFacts
<1> QED  BY <1>1, <1>9, <1>10 DEF F

\* A condition that more votes never break.
Monotone(cast, condition) == \A vs, ws \in SUBSET DOMAIN cast : vs \subseteq ws /\ condition[vs] => condition[ws]

\* The block a search may start from: node itself or a block on the edges to it.
StartsAt(graph, node, q) ==
    /\ q \in Blocks(graph) /\ node \in DOMAIN graph.entries
    /\ q = node \/ (q \notin DOMAIN graph.entries /\ HighestBelow(DOMAIN graph.entries, q, node))

\* The descendents of the node that are above that block.
NodesFrom(graph, node, q) == {d \in graph.entries[node].descendents : q \in Ancestors[d]}

\* A block that was reached was next to some block, and no node is between it and the node.
LEMMA ReachedFacts ==
    ASSUME NEW graph, NEW cast, IsVoteGraph(graph, cast), NEW node \in DOMAIN graph.entries,
           NEW D \in SUBSET graph.entries[node].descendents, NEW condition,
           NEW x \in Block, Reached(graph, node, D, condition, node, x)
    PROVE  /\ node \in Block /\ node \in Ancestors[x] /\ graph.base \in Ancestors[x]
           /\ x # node => \E z \in Block : x \in NextOf(graph, node, D, condition, z)
           /\ \A h \in DOMAIN graph.entries : h \in Ancestors[x] => h \in Ancestors[node]
<1>1. /\ node \in Block /\ node \in Ancestors[x] /\ graph.base \in Ancestors[x]
      /\ Number[node] \in Nat /\ Number[x] \in Nat /\ Number[node] <= Number[x]
  BY GraphFacts, ChainFacts DEF Reached
<1>2. ASSUME x # node PROVE \E z \in Block : x \in NextOf(graph, node, D, condition, z)
  <2> DEFINE z == AncestorAt(x, Number[x] - 1)
  <2>1. Number[node] < Number[x]
    BY <1>1, <1>2, ChainFacts
  <2>2. Number[x] - 1 \in Number[node] .. Number[x]
    BY <1>1, <2>1
  <2>3. z \in Ancestors[x] /\ Number[z] = Number[x] - 1 /\ node \in Ancestors[z] /\ z \in Block
    BY <1>1, <2>2, AncestorAtFacts, ChainFacts
  <2> HIDE DEF z
  <2>4. z # x
    BY <1>1, <2>3
  <2>5. PICK c \in NextOf(graph, node, D, condition, z) : c \in Ancestors[x]
    BY <2>3, <2>4 DEF Reached
  <2>6. Number[c] = Number[x]
    BY <1>1, <2>3, <2>5, NextFacts
  <2>7. c = x
    BY <1>1, <2>5, <2>6, ChainFacts
  <2> QED  BY <2>3, <2>5, <2>7
<1>3. ASSUME NEW h \in DOMAIN graph.entries, h \in Ancestors[x] PROVE h \in Ancestors[node]
  <2>1. CASE x = node
    BY <1>3, <2>1
  <2>2. CASE x # node
    <3>1. PICK z \in Block : x \in NextOf(graph, node, D, condition, z)
      BY <1>2, <2>2
    <3>2. PICK d \in D : x \in Ancestors[d] /\ x # d
      BY <3>1, NextFacts
    <3>3. HighestBelow(DOMAIN graph.entries, d, node) /\ d \in Block
      BY DescendentFacts
    <3>4. h \in Ancestors[d] /\ h # d
      BY <1>3, <3>2, <3>3, ChainFacts
    <3> QED  BY <3>3, <3>4 DEF HighestBelow
  <2> QED  BY <2>1, <2>2
<1> QED  BY <1>1, <1>2, <1>3

\* The votes of nodes above a block are votes for it; those of all that contain it are all.
LEMMA MeetingVotes ==
    ASSUME NEW graph, NEW cast, IsVoteGraph(graph, cast), NEW x \in Block, NEW M \in SUBSET DOMAIN graph.entries,
           \A d \in M : x \in Ancestors[d]
    PROVE  /\ VotesOf(graph, M) \subseteq VotesAt(cast, x) /\ VotesOf(graph, M) \in SUBSET DOMAIN cast
           /\ \A d \in M : VotesOf(graph, {d}) = VotesAt(cast, d) /\ graph.entries[d].cumulative_vote = VotesAt(cast, d)
<1>1. ASSUME NEW d \in M PROVE graph.entries[d].cumulative_vote = VotesAt(cast, d) /\ VotesAt(cast, d) \subseteq VotesAt(cast, x)
  <2>1. d \in Block
    BY GraphFacts
  <2> QED  BY <2>1, GraphFacts DEF VotesFit
<1>2. VotesAt(cast, x) \in SUBSET DOMAIN cast
  BY DEF VotesAt
<1> QED  BY <1>1, <1>2 DEF VotesOf

\* The descendents above the block where a search starts have all its votes between them.
LEMMA FromFacts ==
    ASSUME NEW graph, NEW cast, IsVoteGraph(graph, cast), NEW node, NEW q, StartsAt(graph, node, q)
    PROVE  /\ node \in DOMAIN graph.entries /\ node \in Block /\ q \in Block /\ node \in Ancestors[q]
           /\ NodesFrom(graph, node, q) \in SUBSET graph.entries[node].descendents
           /\ q # node => NodesFrom(graph, node, q) # {} /\ VotesOf(graph, NodesFrom(graph, node, q)) = VotesAt(cast, q)
<1>1. node \in DOMAIN graph.entries /\ node \in Block /\ q \in Block /\ IsGraph(graph)
  BY GraphFacts DEF StartsAt, Blocks
<1>2. node \in Ancestors[q]
  BY <1>1, ChainFacts DEF StartsAt, HighestBelow
<1>3. ASSUME q # node
      PROVE  NodesFrom(graph, node, q) # {} /\ VotesOf(graph, NodesFrom(graph, node, q)) = VotesAt(cast, q)
  <2>1. q \notin DOMAIN graph.entries /\ HighestBelow(DOMAIN graph.entries, q, node) /\ q \in Blocks(graph)
    BY <1>3 DEF StartsAt
  <2>2. ContainingNodes(graph, q) # {}
    BY <1>1, <2>1, BlocksOfGraph DEF IsNode
  <2>3. ASSUME NEW d \in ContainingNodes(graph, q) PROVE d \in NodesFrom(graph, node, q)
    <3>1. d \in DOMAIN graph.entries /\ q \in Ancestors[d] /\ d # graph.base
          /\ HighestBelow(DOMAIN graph.entries, q, AncestorNode(graph, d))
          /\ HighestBelow(DOMAIN graph.entries, d, AncestorNode(graph, d))
      BY <1>1, <2>1, ContainingFacts
    <3>2. AncestorNode(graph, d) = node
      BY <1>1, <2>1, <3>1, OneHighest, GraphFacts
    <3> QED  BY <1>1, <3>1, <3>2, DescendentFacts DEF NodesFrom
  <2>4. ASSUME NEW d \in NodesFrom(graph, node, q) PROVE d \in ContainingNodes(graph, q)
    <3>1. d \in graph.entries[node].descendents /\ q \in Ancestors[d]
      BY DEF NodesFrom
    <3>2. d \in DOMAIN graph.entries /\ d # graph.base /\ AncestorNode(graph, d) = node
      BY <1>1, <3>1, DescendentFacts
    <3>3. InDirectAncestry(graph, d, q)
      BY <1>1, <1>2, <2>1, <3>1, <3>2, DirectAncestry
    <3> QED  BY <1>1, <3>2, <3>3, Containing
  <2>5. NodesFrom(graph, node, q) = ContainingNodes(graph, q)
    BY <2>3, <2>4
  <2>6. VotesOf(graph, ContainingNodes(graph, q)) = VotesAt(cast, q)
    BY <1>1, <2>1, VotesOnEdge, GraphFacts DEF Blocks
  <2> QED  BY <2>2, <2>5, <2>6
<1> QED  BY <1>1, <1>2, <1>3 DEF NodesFrom

\* Where the climb ends: above the block where the search started, with the votes the
\* condition asks for, and at the top.  (No descendent has them alone.)
LEMMA ClimbEnds ==
    ASSUME NEW graph, NEW cast, IsVoteGraph(graph, cast), NEW node, NEW q, StartsAt(graph, node, q),
           NEW condition, Monotone(cast, condition), condition[VotesAt(cast, q)],
           \A d \in NodesFrom(graph, node, q) : ~condition[VotesAt(cast, d)],
           NEW x \in Climbed(graph, node, NodesFrom(graph, node, q), condition, node)
    PROVE  /\ x \in Blocks(graph) /\ q \in Ancestors[x] /\ condition[VotesAt(cast, x)]
           /\ \A y \in Blocks(graph) : x \in Ancestors[y] /\ condition[VotesAt(cast, y)] => y = x
<1> DEFINE nodes == DOMAIN graph.entries
           D == NodesFrom(graph, node, q)
<1>1. /\ node \in nodes /\ node \in Block /\ q \in Block /\ node \in Ancestors[q]
      /\ D \in SUBSET graph.entries[node].descendents /\ IsGraph(graph)
  BY FromFacts, GraphFacts
<1>2. /\ x \in Block /\ Reached(graph, node, D, condition, node, x) /\ NextOf(graph, node, D, condition, x) = {}
  BY DEF Climbed
<1>3. /\ node \in Ancestors[x] /\ graph.base \in Ancestors[x]
      /\ x # node => \E z \in Block : x \in NextOf(graph, node, D, condition, z)
      /\ \A h \in nodes : h \in Ancestors[x] => h \in Ancestors[node]
  <2> HIDE DEF D
  <2> QED  BY <1>1, <1>2, ReachedFacts
<1>4. \A d \in D : /\ d \in nodes /\ d \in Block /\ q \in Ancestors[d] /\ node \in Ancestors[d]
                   /\ d # graph.base /\ AncestorNode(graph, d) = node /\ HighestBelow(nodes, d, node)
  BY <1>1, DescendentFacts DEF NodesFrom
<1>5. \A b \in Block : VotesAt(cast, b) \in SUBSET DOMAIN cast /\ (\A a \in Ancestors[b] : VotesAt(cast, b) \subseteq VotesAt(cast, a))
  BY GraphFacts DEF VotesAt
<1> HIDE DEF D
<1>6. x \in Blocks(graph) /\ condition[VotesAt(cast, x)] /\ (x # node => \E d \in D : x \in Ancestors[d])
  <2>1. CASE x = node
    <3>1. x \in Blocks(graph)
      BY <1>1, <2>1, BlocksOfGraph DEF IsNode
    <3>2. VotesAt(cast, q) \subseteq VotesAt(cast, x)
      BY <1>1, <1>5, <2>1
    <3> QED  BY <1>1, <1>2, <1>5, <2>1, <3>1, <3>2 DEF Monotone
  <2>2. CASE x # node
    <3>1. PICK z \in Block : x \in NextOf(graph, node, D, condition, z)
      BY <1>3, <2>2
    <3> DEFINE M == Meeting(node, D, z, x)
    <3>2. condition[VotesOf(graph, M)] /\ (\E d \in M : TRUE) /\ \A d \in M : d \in D /\ x \in Ancestors[d]
      BY <3>1 DEF NextOf, Meeting
    <3>3. M \in SUBSET nodes
      BY <1>4, <3>2
    <3> HIDE DEF M
    <3>4. VotesOf(graph, M) \subseteq VotesAt(cast, x) /\ VotesOf(graph, M) \in SUBSET DOMAIN cast
      BY <1>2, <3>2, <3>3, MeetingVotes
    <3>5. condition[VotesAt(cast, x)]
      BY <1>2, <1>5, <3>2, <3>4 DEF Monotone
    <3>6. PICK d \in D : x \in Ancestors[d]
      BY <3>2
    <3>7. d \in Blocks(graph)
      BY <1>4, <3>6, BlocksOfGraph DEF IsNode
    <3>8. x \in Blocks(graph)
      BY <1>3, <3>6, <3>7, BlocksBelow
    <3> QED  BY <3>5, <3>6, <3>8
  <2> QED  BY <2>1, <2>2
\* The block above x on the way to y, where a quorum has gone.
<1>7. ASSUME NEW y \in Block, x \in Ancestors[y], y # x
      PROVE  LET c == AncestorAt(y, Number[x] + 1)
             IN  /\ c \in Block /\ c \in Ancestors[y] /\ Number[c] = Number[x] + 1 /\ x \in Ancestors[c]
                 /\ c # x /\ Number[c] \in Nat /\ \A z \in Ancestors[c] : z = c \/ z \in Ancestors[x]
  <2> DEFINE c == AncestorAt(y, Number[x] + 1)
  <2>1. Number[x] \in Nat /\ Number[y] \in Nat /\ Number[x] < Number[y]
    BY <1>2, <1>7, ChainFacts
  <2>2. Number[x] + 1 \in Number[x] .. Number[y]
    BY <2>1
  <2>3. c \in Ancestors[y] /\ Number[c] = Number[x] + 1 /\ x \in Ancestors[c]
    BY <1>7, <2>2, AncestorAtFacts
  <2> HIDE DEF c
  <2>4. c \in Block /\ c # x
    BY <1>7, <2>1, <2>3, ChainFacts
  <2>5. ASSUME NEW z \in Ancestors[c], z # c PROVE z \in Ancestors[x]
    <3>1. z \in Block /\ Number[z] \in Nat /\ Number[z] < Number[c]
      BY <2>4, <2>5, ChainFacts
    <3>2. Number[z] <= Number[x]
      BY <2>1, <2>3, <3>1
    <3> QED  BY <2>3, <2>4, <3>2, ChainFacts
  <2> QED  BY <2>1, <2>3, <2>4, <2>5 DEF c
\* If several nodes that have the votes together go on to c, so does the climb.
<1>8. ASSUME NEW c \in Block, x \in Ancestors[c], Number[c] = Number[x] + 1,
             NEW M, M = Meeting(node, D, x, c), M # {}, condition[VotesOf(graph, M)]
      PROVE  FALSE
  <2>1. PICK d \in M : TRUE
    BY <1>8
  <2>2. M \in SUBSET nodes /\ M \subseteq D /\ \A e \in M : x \in Ancestors[e]
    BY <1>4, <1>8 DEF Meeting
  <2>3. VotesOf(graph, {d}) = VotesAt(cast, d)
    BY <1>2, <2>2, MeetingVotes
  <2>4. M # {d}
    <3>1. ~condition[VotesAt(cast, d)]
      BY <2>1, <2>2 DEF D
    <3> QED  BY <1>8, <2>3, <3>1
  <2>5. PICK e \in M : e # d
    BY <2>1, <2>4
  <2>6. c \in NextOf(graph, node, D, condition, x)
    BY <1>8, <2>1, <2>5 DEF NextOf
  <2> QED  BY <1>2, <2>6
<1>9. q \in Ancestors[x]
  <2> SUFFICES ASSUME q \notin Ancestors[x] PROVE FALSE
    OBVIOUS
  <2>1. q # node
    BY <1>3
  <2>2. D # {} /\ VotesOf(graph, D) = VotesAt(cast, q) /\ q \notin nodes
    BY <2>1, FromFacts DEF D, StartsAt
  <2>3. PICK d \in D : x \in Ancestors[d]
    BY <1>3, <1>4, <1>6, <2>2
  <2>4. x \in Ancestors[q] /\ q # x
    BY <1>2, <1>4, <2>3, ChainFacts
  <2> DEFINE c == AncestorAt(q, Number[x] + 1)
  <2>5. c \in Block /\ c \in Ancestors[q] /\ Number[c] = Number[x] + 1 /\ x \in Ancestors[c]
    BY <1>1, <1>7, <2>4
  <2> HIDE DEF c
  <2>6. ASSUME NEW e \in D PROVE e \in Meeting(node, D, x, c)
    <3>1. q \in Ancestors[e] /\ e # q /\ e \in Block
      BY <1>4, <2>2
    <3>2. x \in Ancestors[e] /\ c \in Ancestors[e]
      BY <1>1, <2>4, <2>5, <3>1, ChainFacts
    <3>3. c # e
      BY <1>1, <2>5, <3>1, ChainFacts
    <3> QED  BY <1>3, <2>5, <3>2, <3>3 DEF Meeting
  <2>7. Meeting(node, D, x, c) = D
    BY <2>6 DEF Meeting
  <2> QED  BY <1>8, <2>2, <2>5, <2>7
<1>10. ASSUME NEW y \in Blocks(graph), x \in Ancestors[y], condition[VotesAt(cast, y)], y # x
       PROVE  FALSE
  <2>1. y \in Block /\ graph.base \in Ancestors[y]
    BY DEF Blocks
  <2> DEFINE c == AncestorAt(y, Number[x] + 1)
  <2>2. /\ c \in Block /\ c \in Ancestors[y] /\ Number[c] = Number[x] + 1 /\ x \in Ancestors[c]
        /\ c # x /\ Number[c] \in Nat /\ \A z \in Ancestors[c] : z = c \/ z \in Ancestors[x]
    BY <1>7, <1>10, <2>1
  <2> HIDE DEF c
  <2>3. condition[VotesAt(cast, c)]
    BY <1>5, <1>10, <2>1, <2>2 DEF Monotone
  <2>4. /\ graph.base \in Ancestors[c] /\ node \in Ancestors[c] /\ q \in Ancestors[c] /\ node # c
    BY <1>1, <1>2, <1>3, <1>9, <2>2, ChainFacts
  <2>5. c \in Blocks(graph)
    BY <1>10, <2>2, <2>4, BlocksBelow
  <2>6. HighestBelow(nodes, c, node)
    BY <1>1, <1>3, <2>2, <2>4 DEF HighestBelow
  <2>7. CASE c \in nodes
    <3>1. c \in D
      BY <1>1, <2>4, <2>6, <2>7, DescendentFacts DEF NodesFrom, D
    <3> QED  BY <2>3, <3>1 DEF D
  <2>8. CASE c \notin nodes
    <3>1. ContainingNodes(graph, c) # {}
      BY <2>2, <2>5, <2>8, BlocksOfGraph DEF IsNode
    <3>2. VotesOf(graph, ContainingNodes(graph, c)) = VotesAt(cast, c)
      BY <1>1, <2>2, <2>4, <2>8, VotesOnEdge, GraphFacts
    <3>3. ASSUME NEW d \in ContainingNodes(graph, c) PROVE d \in Meeting(node, D, x, c)
      <4>1. d \in nodes /\ c \in Ancestors[d] /\ d # c /\ d # graph.base
            /\ HighestBelow(nodes, c, AncestorNode(graph, d))
            /\ HighestBelow(nodes, d, AncestorNode(graph, d))
        BY <1>1, <2>2, <2>8, ContainingFacts
      <4>2. AncestorNode(graph, d) = node
        BY <2>2, <2>6, <4>1, OneHighest, GraphFacts
      <4>3. d \in Block /\ x \in Ancestors[d] /\ q \in Ancestors[d]
        BY <2>2, <2>4, <4>1, ChainFacts, GraphFacts
      <4>4. d \in D
        BY <1>1, <4>1, <4>2, <4>3, DescendentFacts DEF NodesFrom, D
      <4> QED  BY <1>3, <2>2, <4>1, <4>3, <4>4 DEF Meeting
    <3>4. ASSUME NEW d \in Meeting(node, D, x, c) PROVE d \in ContainingNodes(graph, c)
      <4>1. d \in D /\ c \in Ancestors[d] /\ c # d
        BY DEF Meeting
      <4>2. InDirectAncestry(graph, d, c)
        BY <1>1, <1>4, <2>2, <2>4, <4>1, DirectAncestry
      <4> QED  BY <1>1, <1>4, <2>2, <4>1, <4>2, Containing
    <3>5. ContainingNodes(graph, c) = Meeting(node, D, x, c)
      BY <3>3, <3>4
    <3> QED  BY <1>8, <2>2, <2>3, <3>1, <3>2, <3>5
  <2> QED  BY <2>7, <2>8
<1> QED  BY <1>6, <1>9, <1>10

\* The climb ends somewhere.
LEMMA ClimbGoes ==
    ASSUME NEW graph, NEW cast, IsVoteGraph(graph, cast), NEW node \in DOMAIN graph.entries,
           NEW D \in SUBSET graph.entries[node].descendents, NEW condition
    PROVE  Climbed(graph, node, D, condition, node) # {}
<1> DEFINE reached == {x \in Block : Reached(graph, node, D, condition, node, x)}
           N(x) == NextOf(graph, node, D, condition, x)
<1>1. PICK n \in Nat : \A h \in DOMAIN graph.entries : Number[h] <= n
  BY DEF IsVoteGraph, IsGraph, NodesFit
<1>2. node \in Block /\ node \in Ancestors[node] /\ Number[node] <= n
  BY <1>1, GraphFacts, ChainFacts
<1>3. ASSUME NEW x \in reached PROVE Number[x] \in Nat /\ Number[x] <= n /\ x \in Block
  <2>1. x \in Block /\ Reached(graph, node, D, condition, node, x) /\ Number[x] \in Nat
    BY ChainFacts
  <2>2. CASE x = node
    BY <1>2, <2>1, <2>2
  <2>3. CASE x # node
    <3>1. PICK z \in Block : x \in N(z)
      BY <2>1, <2>3, ReachedFacts
    <3>2. PICK d \in D : x \in Ancestors[d]
      BY <3>1, NextFacts
    <3>3. d \in Block /\ d \in DOMAIN graph.entries
      BY DescendentFacts
    <3>4. Number[x] <= Number[d] /\ Number[d] <= n /\ Number[d] \in Nat
      BY <1>1, <3>2, <3>3, ChainFacts
    <3> QED  BY <2>1, <3>4
  <2> QED  BY <2>2, <2>3
<1>4. node \in reached
  <2>1. \A z \in Ancestors[node] : node \in Ancestors[z] => z = node
    BY <1>2, ChainFacts
  <2> QED  BY <1>2, <2>1 DEF Reached
<1> DEFINE left == {n - Number[x] : x \in reached}
<1>5. left \in SUBSET Nat /\ left # {}
  <2> HIDE DEF reached
  <2> QED  BY <1>3, <1>4
<1>6. PICK x \in reached : \A m \in left : n - Number[x] <= m
  BY <1>5, SmallestNumber
<1>7. x \in Block /\ Reached(graph, node, D, condition, node, x)
  OBVIOUS
<1>8. ASSUME NEW c \in N(x) PROVE FALSE
  <2>1. c \in Block /\ x \in Ancestors[c] /\ Number[c] = Number[x] + 1
    BY <1>7, <1>8, NextFacts
  <2>2. node \in Ancestors[c]
    BY <1>7, <2>1, ChainFacts DEF Reached
  <2>3. ASSUME NEW z \in Ancestors[c], node \in Ancestors[z], z # c
        PROVE  \E y \in N(z) : y \in Ancestors[c]
    <3>1. CASE z = x
      BY <2>1, <3>1, ChainFacts
    <3>2. CASE z # x
      <4>1. z \in Block /\ Number[z] \in Nat /\ Number[z] < Number[c] /\ Number[x] \in Nat
        BY <1>7, <2>1, <2>3, ChainFacts
      <4>2. Number[z] <= Number[x]
        BY <2>1, <4>1
      <4>3. z \in Ancestors[x]
        BY <2>1, <2>3, <4>2, ChainFacts
      <4>4. PICK y \in N(z) : y \in Ancestors[x]
        BY <1>7, <2>3, <3>2, <4>3 DEF Reached
      <4> QED  BY <2>1, <4>4, ChainFacts
    <3> QED  BY <3>1, <3>2
  <2>4. c \in reached
    BY <2>1, <2>2, <2>3 DEF Reached
  <2>5. n - Number[x] <= n - Number[c]
    BY <1>6, <2>4
  <2>6. Number[x] \in Nat
    BY <1>3
  <2> QED  BY <2>1, <2>5, <2>6
<1> QED  BY <1>7, <1>8 DEF Climbed

\* Between a node and a node above it there is the first node on the way.
LEMMA FirstNodeOnTheWay ==
    ASSUME NEW graph, NEW cast, IsVoteGraph(graph, cast), NEW h \in DOMAIN graph.entries, NEW t \in DOMAIN graph.entries,
           h \in Ancestors[t], h # t
    PROVE  \E d \in graph.entries[h].descendents : d \in Ancestors[t]
<1> DEFINE way == {x \in DOMAIN graph.entries : x \in Ancestors[t] /\ h \in Ancestors[x] /\ x # h}
           numbers == {Number[x] : x \in way}
<1>1. \A x \in way : x \in Block /\ Number[x] \in Nat
  BY GraphFacts, ChainFacts
<1>2. t \in way /\ t \in Block /\ h \in Block
  BY GraphFacts, ChainFacts
<1> HIDE DEF way
<1>3. numbers \in SUBSET Nat /\ numbers # {}
  BY <1>1, <1>2
<1>4. PICK d \in way : \A m \in numbers : Number[d] <= m
  BY <1>3, SmallestNumber
<1>5. d \in DOMAIN graph.entries /\ d \in Ancestors[t] /\ h \in Ancestors[d] /\ d # h /\ d \in Block /\ Number[d] \in Nat
  BY <1>1 DEF way
<1>6. ASSUME NEW x \in DOMAIN graph.entries, x \in Ancestors[d], x # d PROVE x \in Ancestors[h]
  <2>1. x \in Block /\ x \in Ancestors[t] /\ Number[x] < Number[d] /\ Number[x] \in Nat
    BY <1>2, <1>5, <1>6, ChainFacts
  <2>2. x \notin way
    BY <1>4, <1>5, <2>1
  <2>3. h \in Ancestors[x] => x = h
    BY <2>1, <2>2 DEF way
  <2>4. x \in Ancestors[h] \/ h \in Ancestors[x]
    BY <1>5, <1>6, ChainFacts
  <2> QED  BY <1>2, <2>3, <2>4, ChainFacts
<1>7. HighestBelow(DOMAIN graph.entries, d, h)
  BY <1>5, <1>6 DEF HighestBelow
<1> QED  BY <1>5, <1>7, DescendentFacts

\* The nodes of S whose votes satisfy the condition.
Heavy(graph, S, condition) == {d \in S : condition[graph.entries[d].cumulative_vote]}

\* The nodes a descent from h ends at: no descendent satisfies the condition.
DescentEnds(graph, h, condition) ==
    {t \in DOMAIN graph.entries :
        /\ h \in Ancestors[t] /\ Heavy(graph, graph.entries[t].descendents, condition) = {}
        /\ t = h \/ condition[graph.entries[t].cumulative_vote]}

Ghosts(graph, h, condition) ==
    UNION {MergePoints(graph, t, graph.entries[t].descendents, condition) : t \in DescentEnds(graph, h, condition)}

\* Votes only grow downwards.
LEMMA HeavyBelow ==
    ASSUME NEW graph, NEW cast, IsVoteGraph(graph, cast), NEW condition, Monotone(cast, condition),
           NEW t \in DOMAIN graph.entries, condition[graph.entries[t].cumulative_vote],
           NEW b \in Ancestors[t]
    PROVE  /\ condition[VotesAt(cast, b)]
           /\ b \in DOMAIN graph.entries => condition[graph.entries[b].cumulative_vote]
<1>1. t \in Block /\ b \in Block /\ graph.entries[t].cumulative_vote = VotesAt(cast, t)
  BY GraphFacts, ChainFacts DEF VotesFit
<1>2. VotesAt(cast, t) \subseteq VotesAt(cast, b)
  BY <1>1, GraphFacts
<1>3. VotesAt(cast, t) \in SUBSET DOMAIN cast /\ VotesAt(cast, b) \in SUBSET DOMAIN cast
  BY DEF VotesAt
<1>4. condition[VotesAt(cast, b)]
  BY <1>1, <1>2, <1>3 DEF Monotone
<1>5. b \in DOMAIN graph.entries => graph.entries[b].cumulative_vote = VotesAt(cast, b)
  BY <1>1, GraphFacts DEF VotesFit
<1> QED  BY <1>4, <1>5

\* Descending one node at a time ends at those nodes.
LEMMA GhostsFromNext ==
    ASSUME NEW graph, NEW cast, IsVoteGraph(graph, cast), NEW condition, Monotone(cast, condition), NEW h \in DOMAIN graph.entries
    PROVE  Ghosts(graph, h, condition) =
               IF Heavy(graph, graph.entries[h].descendents, condition) = {}
               THEN MergePoints(graph, h, graph.entries[h].descendents, condition)
               ELSE UNION {Ghosts(graph, d, condition) : d \in Heavy(graph, graph.entries[h].descendents, condition)}
<1> DEFINE next == Heavy(graph, graph.entries[h].descendents, condition)
           MP(t) == MergePoints(graph, t, graph.entries[t].descendents, condition)
<1>1. h \in Block /\ h \in Ancestors[h]
  BY GraphFacts, ChainFacts
<1>2. \A d \in next : /\ d \in graph.entries[h].descendents /\ d \in DOMAIN graph.entries /\ d \in Block
                      /\ h \in Ancestors[d] /\ condition[graph.entries[d].cumulative_vote]
  BY DescendentFacts DEF Heavy
<1>3. ASSUME NEW t \in DescentEnds(graph, h, condition), t # h
      PROVE  \E d \in next : t \in DescentEnds(graph, d, condition)
  <2>1. t \in DOMAIN graph.entries /\ h \in Ancestors[t] /\ condition[graph.entries[t].cumulative_vote]
        /\ Heavy(graph, graph.entries[t].descendents, condition) = {}
    BY <1>3 DEF DescentEnds
  <2>2. PICK d \in graph.entries[h].descendents : d \in Ancestors[t]
    BY <1>3, <2>1, FirstNodeOnTheWay
  <2>3. d \in DOMAIN graph.entries
    BY DescendentFacts
  <2>4. d \in next
    BY <2>1, <2>2, <2>3, HeavyBelow DEF Heavy
  <2> QED  BY <2>1, <2>2, <2>4 DEF DescentEnds
<1>4. ASSUME NEW d \in next, NEW t \in DescentEnds(graph, d, condition)
      PROVE  t \in DescentEnds(graph, h, condition)
  <2>1. t \in DOMAIN graph.entries /\ d \in Ancestors[t] /\ condition[graph.entries[t].cumulative_vote]
        /\ Heavy(graph, graph.entries[t].descendents, condition) = {} /\ t \in Block
    BY <1>2, GraphFacts DEF DescentEnds
  <2>2. h \in Ancestors[t]
    BY <1>2, <2>1, ChainFacts
  <2> QED  BY <2>1, <2>2 DEF DescentEnds
<1>5. \A g \in DOMAIN graph.entries : Ghosts(graph, g, condition) = UNION {MP(t) : t \in DescentEnds(graph, g, condition)}
  BY DEF Ghosts
<1>6. CASE next = {}
  <2>1. DescentEnds(graph, h, condition) = {h}
    <3>1. h \in DescentEnds(graph, h, condition)
      BY <1>1, <1>6 DEF DescentEnds
    <3> HIDE DEF next
    <3> QED  BY <1>3, <1>6, <3>1
  <2> HIDE DEF MP, next
  <2>2. UNION {MP(t) : t \in {h}} = MP(h)
    OBVIOUS
  <2>3. Ghosts(graph, h, condition) = MP(h)
    BY <1>5, <2>1, <2>2
  <2> QED  BY <1>6, <2>3 DEF MP, next
<1>7. CASE next # {}
  <2>1. h \notin DescentEnds(graph, h, condition)
    BY <1>7 DEF DescentEnds
  <2> HIDE DEF MP, next
  <2>2. ASSUME NEW x \in Ghosts(graph, h, condition) PROVE \E d \in next : x \in Ghosts(graph, d, condition)
    <3>1. PICK t \in DescentEnds(graph, h, condition) : x \in MP(t)
      BY <1>5
    <3>2. PICK d \in next : t \in DescentEnds(graph, d, condition)
      BY <1>3, <2>1
    <3> QED  BY <1>2, <1>5, <3>1, <3>2
  <2>3. ASSUME NEW d \in next, NEW x \in Ghosts(graph, d, condition) PROVE x \in Ghosts(graph, h, condition)
    <3>1. PICK t \in DescentEnds(graph, d, condition) : x \in MP(t)
      BY <1>2, <1>5
    <3> QED  BY <1>4, <1>5, <3>1
  <2>4. Ghosts(graph, h, condition) = UNION {Ghosts(graph, d, condition) : d \in next}
    BY <2>2, <2>3
  <2> QED  BY <1>7, <2>4 DEF next
<1> QED  BY <1>6, <1>7

\* The node a search from block b starts at, and the first nodes above it that it looks at.
StartNode(graph, b) ==
    LET containing == IF b = None \/ IsNode(graph, b) THEN {} ELSE ContainingNodes(graph, b)
    IN  IF containing # {} THEN AncestorNode(graph, CHOOSE h \in containing : TRUE)
        ELSE IF b # None /\ IsNode(graph, b) THEN b ELSE graph.base

FirstNodes(graph, b) ==
    LET containing == IF b = None \/ IsNode(graph, b) THEN {} ELSE ContainingNodes(graph, b)
    IN  IF containing # {}
        THEN {d \in graph.entries[StartNode(graph, b)].descendents : InDirectAncestry(graph, d, b)}
        ELSE graph.entries[StartNode(graph, b)].descendents

\* find_ghost, without its loop.
LEMMA SearchDescends ==
    ASSUME NEW graph, NEW cast, IsVoteGraph(graph, cast), NEW condition, Monotone(cast, condition), NEW b,
           FirstNodes(graph, b) \subseteq DOMAIN graph.entries
    PROVE  FindGhosts(graph, b, condition) =
               IF ~condition[graph.entries[StartNode(graph, b)].cumulative_vote] THEN {None}
               ELSE IF Heavy(graph, FirstNodes(graph, b), condition) = {}
                    THEN MergePoints(graph, StartNode(graph, b), FirstNodes(graph, b), condition)
                    ELSE UNION {Ghosts(graph, d, condition) : d \in Heavy(graph, FirstNodes(graph, b), condition)}
<1> DEFINE below(h) == graph.entries[h].descendents
           heavy(S) == {d \in S : condition[graph.entries[d].cumulative_vote]}
           descend[h \in DOMAIN graph.entries] ==
               IF heavy(below(h)) = {} THEN MergePoints(graph, h, below(h), condition)
               ELSE UNION {descend[d] : d \in heavy(below(h))}
           next(h) == Heavy(graph, graph.entries[h].descendents, condition)
           MP(h) == MergePoints(graph, h, graph.entries[h].descendents, condition)
           Step(w, h) == IF next(h) = {} THEN MP(h) ELSE UNION {w[d] : d \in next(h)}
           G == [h \in DOMAIN graph.entries |-> Ghosts(graph, h, condition)]
<1>1. FindGhosts(graph, b, condition) =
          IF ~condition[graph.entries[StartNode(graph, b)].cumulative_vote] THEN {None}
          ELSE IF heavy(FirstNodes(graph, b)) = {} THEN MergePoints(graph, StartNode(graph, b), FirstNodes(graph, b), condition)
          ELSE UNION {descend[d] : d \in heavy(FirstNodes(graph, b))}
  BY DEF FindGhosts, StartNode, FirstNodes
<1>2. descend = CHOOSE w : w = [h \in DOMAIN graph.entries |-> Step(w, h)]
  BY DEF Heavy
<1> HIDE DEF descend
<1>3. \A S : heavy(S) = Heavy(graph, S, condition)
  BY DEF Heavy
<1> HIDE DEF heavy, below
<1>4. \A h \in DOMAIN graph.entries : \A d \in next(h) : d \in DOMAIN graph.entries /\ Number[h] < Number[d]
  BY DescendentFacts, ChainFacts, GraphFacts DEF Heavy
<1>5. ASSUME NEW h \in DOMAIN graph.entries PROVE G[h] = Step(G, h)
  <2>1. Ghosts(graph, h, condition) = IF next(h) = {} THEN MP(h) ELSE UNION {Ghosts(graph, d, condition) : d \in next(h)}
    BY GhostsFromNext
  <2>2. \A d \in next(h) : G[d] = Ghosts(graph, d, condition)
    BY <1>4
  <2>3. G[h] = Ghosts(graph, h, condition)
    OBVIOUS
  <2> HIDE DEF G, next, MP
  <2>4. UNION {G[d] : d \in next(h)} = UNION {Ghosts(graph, d, condition) : d \in next(h)}
    BY <2>2
  <2> QED  BY <2>1, <2>3, <2>4
<1>6. descend = [h \in DOMAIN graph.entries |-> Step(descend, h)]
  <2>1. G = [h \in DOMAIN graph.entries |-> Step(G, h)]
    BY <1>5
  <2> HIDE DEF Step, G
  <2> QED  BY <1>2, <2>1
<1>7. PICK n \in Nat : \A h \in DOMAIN graph.entries : Number[h] <= n
  BY DEF IsVoteGraph, IsGraph, NodesFit
<1>8. \A h \in DOMAIN graph.entries : n - Number[h] \in Nat /\ Number[h] \in Nat
  BY <1>7, GraphFacts, ChainFacts
<1>9. ASSUME NEW z \in DOMAIN graph.entries, descend[z] # G[z] PROVE FALSE
  <2> HIDE DEF G, next, MP
  <2> DEFINE bad == {h \in DOMAIN graph.entries : descend[h] # G[h]}
             depths == {n - Number[h] : h \in bad}
  <2>1. depths \in SUBSET Nat /\ depths # {}
    <3>1. z \in bad /\ bad \subseteq DOMAIN graph.entries
      BY <1>9
    <3> HIDE DEF bad
    <3> QED  BY <1>8, <3>1
  <2>2. PICK h \in bad : \A m \in depths : n - Number[h] <= m
    BY <2>1, SmallestNumber
  <2>3. ASSUME NEW d \in next(h) PROVE descend[d] = G[d]
    <3>1. d \in DOMAIN graph.entries /\ Number[h] < Number[d]
      BY <1>4
    <3>2. d \in bad => n - Number[h] <= n - Number[d]
      BY <2>2
    <3>3. Number[h] \in Nat /\ Number[d] \in Nat
      BY <1>8, <3>1
    <3>4. d \notin bad
      BY <3>1, <3>2, <3>3
    <3> QED  BY <3>1, <3>4
  <2>4. UNION {descend[d] : d \in next(h)} = UNION {G[d] : d \in next(h)}
    BY <2>3
  <2>5. descend[h] = Step(descend, h) /\ G[h] = Step(G, h) /\ descend[h] # G[h]
    BY <1>5, <1>6
  <2>6. Step(descend, h) = Step(G, h)
    <3>1. CASE next(h) = {}
      BY <3>1
    <3>2. CASE next(h) # {}
      BY <2>4, <3>2
    <3> QED  BY <3>1, <3>2
  <2> HIDE DEF Step
  <2> QED  BY <2>5, <2>6
<1>10. \A h \in DOMAIN graph.entries : descend[h] = Ghosts(graph, h, condition)
  BY <1>9
<1>11. \A d \in Heavy(graph, FirstNodes(graph, b), condition) : descend[d] = Ghosts(graph, d, condition)
  BY <1>10 DEF Heavy
<1>12. UNION {descend[d] : d \in Heavy(graph, FirstNodes(graph, b), condition)}
       = UNION {Ghosts(graph, d, condition) : d \in Heavy(graph, FirstNodes(graph, b), condition)}
  BY <1>11
<1> QED  BY <1>1, <1>3, <1>12

\* The block a search given b is meant to start from.
SearchFrom(graph, b) == IF b = None THEN graph.base ELSE b

\* find_ghost starts there.
LEMMA StartFacts ==
    ASSUME NEW graph, NEW cast, IsVoteGraph(graph, cast), NEW b \in Blocks(graph) \union {None}
    PROVE  /\ StartsAt(graph, StartNode(graph, b), SearchFrom(graph, b))
           /\ FirstNodes(graph, b) = NodesFrom(graph, StartNode(graph, b), SearchFrom(graph, b))
           /\ b = None => StartNode(graph, b) = graph.base
<1>1. /\ IsGraph(graph) /\ graph.base \in DOMAIN graph.entries /\ None \notin Block
      /\ Blocks(graph) \subseteq Block
  BY GraphFacts, BlockTreeAssumption DEF Blocks
<1>2. ASSUME NEW h \in DOMAIN graph.entries
      PROVE  StartsAt(graph, h, h) /\ NodesFrom(graph, h, h) = graph.entries[h].descendents
  <2>1. h \in Blocks(graph)
    BY <1>1, <1>2, GraphFacts, BlocksOfGraph DEF IsNode
  <2> QED  BY <2>1, DescendentFacts DEF StartsAt, NodesFrom
<1>3. CASE b = None
  <2>1. StartNode(graph, b) = graph.base /\ SearchFrom(graph, b) = graph.base
        /\ FirstNodes(graph, b) = graph.entries[graph.base].descendents
    BY <1>3 DEF StartNode, SearchFrom, FirstNodes
  <2> QED  BY <1>1, <1>2, <2>1
<1>4. CASE b # None /\ b \in DOMAIN graph.entries
  <2>1. StartNode(graph, b) = b /\ SearchFrom(graph, b) = b /\ FirstNodes(graph, b) = graph.entries[b].descendents
    BY <1>4 DEF StartNode, SearchFrom, FirstNodes, IsNode
  <2> QED  BY <1>2, <1>4, <2>1
<1>5. CASE b # None /\ b \notin DOMAIN graph.entries
  <2> DEFINE h == CHOOSE d \in ContainingNodes(graph, b) : TRUE
  <2>1. b \in Blocks(graph) /\ b \in Block /\ ContainingNodes(graph, b) # {}
    BY <1>1, <1>5, BlocksOfGraph DEF IsNode
  <2>2. StartNode(graph, b) = AncestorNode(graph, h) /\ SearchFrom(graph, b) = b
        /\ FirstNodes(graph, b) = {d \in graph.entries[AncestorNode(graph, h)].descendents : InDirectAncestry(graph, d, b)}
    BY <1>5, <2>1 DEF StartNode, SearchFrom, FirstNodes, IsNode
  <2>3. h \in ContainingNodes(graph, b)
    BY <2>1
  <2> HIDE DEF h
  <2> DEFINE s == AncestorNode(graph, h)
  <2>4. HighestBelow(DOMAIN graph.entries, b, s)
    BY <1>1, <1>5, <2>1, <2>3, ContainingFacts
  <2> HIDE DEF s
  <2>5. s \in DOMAIN graph.entries /\ s \in Ancestors[b] /\ s # b
    BY <2>4 DEF HighestBelow
  <2>6. StartsAt(graph, s, b)
    BY <1>5, <2>1, <2>4, <2>5 DEF StartsAt
  <2>7. ASSUME NEW d \in graph.entries[s].descendents
        PROVE  InDirectAncestry(graph, d, b) <=> b \in Ancestors[d]
    <3>1. d \in DOMAIN graph.entries /\ d # graph.base /\ AncestorNode(graph, d) = s
      BY <2>5, DescendentFacts
    <3> QED  BY <1>1, <1>5, <2>1, <2>5, <3>1, DirectAncestry
  <2>8. FirstNodes(graph, b) = NodesFrom(graph, s, b)
    BY <2>2, <2>7 DEF s, NodesFrom
  <2> QED  BY <1>5, <2>2, <2>6, <2>8 DEF s
<1> QED  BY <1>3, <1>4, <1>5

\* What a search finds when its start satisfies the condition.
GhostOf(graph, cast, b, condition, x) ==
    /\ x \in Blocks(graph) /\ b \in Ancestors[x] /\ condition[VotesAt(cast, x)]
    /\ \A y \in Blocks(graph) : x \in Ancestors[y] /\ condition[VotesAt(cast, y)] => y = x

\* From a node that satisfies the condition a descent ends at blocks that are as high as
\* can be, and somewhere.
LEMMA GhostsAbove ==
    ASSUME NEW graph, NEW cast, IsVoteGraph(graph, cast), NEW condition, Monotone(cast, condition), NEW h \in DOMAIN graph.entries,
           condition[graph.entries[h].cumulative_vote]
    PROVE  /\ Ghosts(graph, h, condition) # {}
           /\ \A x \in Ghosts(graph, h, condition) : GhostOf(graph, cast, h, condition, x)
<1> DEFINE heavy == {t \in DOMAIN graph.entries : h \in Ancestors[t] /\ condition[graph.entries[t].cumulative_vote]}
<1>1. /\ h \in Block /\ h \in heavy /\ DOMAIN graph.entries \subseteq Block
      /\ \A t \in DOMAIN graph.entries : graph.entries[t].cumulative_vote = VotesAt(cast, t)
  BY GraphFacts, ChainFacts DEF VotesFit
<1>2. \A t \in DOMAIN graph.entries : StartsAt(graph, t, t) /\ NodesFrom(graph, t, t) = graph.entries[t].descendents
  <2> SUFFICES ASSUME NEW t \in DOMAIN graph.entries
               PROVE  StartsAt(graph, t, t) /\ NodesFrom(graph, t, t) = graph.entries[t].descendents
    OBVIOUS
  <2>1. t \in Blocks(graph)
    BY <1>1, BlocksOfGraph DEF IsNode
  <2> QED  BY <2>1, DescendentFacts DEF StartsAt, NodesFrom
<1>3. ASSUME NEW t \in DescentEnds(graph, h, condition)
      PROVE  /\ t \in heavy
             /\ \A d \in graph.entries[t].descendents : ~condition[VotesAt(cast, d)]
             /\ MergePoints(graph, t, graph.entries[t].descendents, condition)
                    = Climbed(graph, t, graph.entries[t].descendents, condition, t)
  <2>1. t \in heavy /\ t \in DOMAIN graph.entries
    BY <1>1 DEF DescentEnds
  <2>2. ASSUME NEW d \in graph.entries[t].descendents PROVE ~condition[VotesAt(cast, d)]
    <3>1. d \in DOMAIN graph.entries
      BY <2>1, DescendentFacts
    <3>2. d \notin Heavy(graph, graph.entries[t].descendents, condition)
      BY DEF DescentEnds
    <3> QED  BY <1>1, <3>1, <3>2 DEF Heavy
  <2> QED  BY <2>1, <2>2, MergeExact
<1>4. ASSUME NEW x \in Ghosts(graph, h, condition) PROVE GhostOf(graph, cast, h, condition, x)
  <2>1. PICK t \in DescentEnds(graph, h, condition) :
                x \in Climbed(graph, t, graph.entries[t].descendents, condition, t)
    BY <1>3 DEF Ghosts
  <2>2. t \in DOMAIN graph.entries /\ h \in Ancestors[t] /\ condition[VotesAt(cast, t)] /\ t \in Block
    BY <1>1, <1>3, GraphFacts
  <2>3. /\ x \in Blocks(graph) /\ t \in Ancestors[x] /\ condition[VotesAt(cast, x)]
        /\ \A y \in Blocks(graph) : x \in Ancestors[y] /\ condition[VotesAt(cast, y)] => y = x
    <3>1. StartsAt(graph, t, t) /\ NodesFrom(graph, t, t) = graph.entries[t].descendents
      BY <1>2, <2>2
    <3> QED  BY <1>3, <2>1, <2>2, <3>1, ClimbEnds
  <2>4. x \in Block
    BY <2>3 DEF Blocks
  <2>5. h \in Ancestors[x]
    BY <2>2, <2>3, <2>4, ChainFacts
  <2> QED  BY <2>3, <2>5 DEF GhostOf
<1>5. PICK n \in Nat : \A t \in DOMAIN graph.entries : Number[t] <= n
  BY DEF IsVoteGraph, IsGraph, NodesFit
<1>6. \A t \in heavy : n - Number[t] \in Nat /\ Number[t] \in Nat
  BY <1>1, <1>5, ChainFacts
<1> DEFINE left == {n - Number[t] : t \in heavy}
<1>7. left \in SUBSET Nat /\ left # {}
  <2> HIDE DEF heavy
  <2> QED  BY <1>1, <1>6
<1>8. PICK t \in heavy : \A m \in left : n - Number[t] <= m
  BY <1>7, SmallestNumber
<1>9. t \in DOMAIN graph.entries /\ h \in Ancestors[t] /\ condition[graph.entries[t].cumulative_vote] /\ t \in Block
  BY <1>1
<1>10. ASSUME NEW d \in Heavy(graph, graph.entries[t].descendents, condition) PROVE FALSE
  <2>1. d \in DOMAIN graph.entries /\ t \in Ancestors[d] /\ t # d /\ d \in Block
        /\ condition[graph.entries[d].cumulative_vote]
    BY <1>9, DescendentFacts DEF Heavy
  <2>2. d \in heavy /\ Number[t] < Number[d]
    BY <1>9, <2>1, ChainFacts
  <2>3. n - Number[t] <= n - Number[d]
    BY <1>8, <2>2
  <2>4. Number[t] \in Nat /\ Number[d] \in Nat
    BY <1>6, <2>2
  <2> QED  BY <2>2, <2>3, <2>4
<1>11. t \in DescentEnds(graph, h, condition)
  BY <1>9, <1>10 DEF DescentEnds
<1>12. Climbed(graph, t, graph.entries[t].descendents, condition, t) # {}
  BY <1>9, ClimbGoes
<1>13. Ghosts(graph, h, condition) # {}
  BY <1>3, <1>11, <1>12 DEF Ghosts
<1> QED  BY <1>4, <1>13

\* find_ghost, given nothing or a block of the graph.
LEMMA SearchFinds ==
    ASSUME NEW graph, NEW cast, IsVoteGraph(graph, cast), NEW condition, Monotone(cast, condition), NEW b \in Blocks(graph) \union {None}
    PROVE  /\ condition[VotesAt(cast, SearchFrom(graph, b))] =>
                  /\ FindGhosts(graph, b, condition) # {}
                  /\ \A x \in FindGhosts(graph, b, condition) : GhostOf(graph, cast, SearchFrom(graph, b), condition, x)
           /\ b = None /\ ~condition[VotesAt(cast, graph.base)] => FindGhosts(graph, b, condition) = {None}
<1> DEFINE s == StartNode(graph, b)
           q == SearchFrom(graph, b)
           D == FirstNodes(graph, b)
           heavy == Heavy(graph, D, condition)
<1>1. StartsAt(graph, s, q) /\ D = NodesFrom(graph, s, q) /\ (b = None => s = graph.base)
  BY StartFacts
<1> HIDE DEF s, q, D
<1>2. /\ s \in DOMAIN graph.entries /\ s \in Block /\ q \in Block /\ s \in Ancestors[q]
      /\ D \in SUBSET graph.entries[s].descendents
  BY <1>1, FromFacts
<1>3. \A d \in D : d \in DOMAIN graph.entries /\ d \in Block /\ q \in Ancestors[d]
  BY <1>1, <1>2, DescendentFacts DEF NodesFrom
<1>4. \A h \in DOMAIN graph.entries : graph.entries[h].cumulative_vote = VotesAt(cast, h)
  BY GraphFacts DEF VotesFit
<1>5. FindGhosts(graph, b, condition) =
          IF ~condition[graph.entries[s].cumulative_vote] THEN {None}
          ELSE IF heavy = {} THEN MergePoints(graph, s, D, condition)
               ELSE UNION {Ghosts(graph, d, condition) : d \in heavy}
  BY <1>3, SearchDescends DEF s, D
<1>6. ASSUME condition[VotesAt(cast, q)]
      PROVE  /\ FindGhosts(graph, b, condition) # {}
             /\ \A x \in FindGhosts(graph, b, condition) : GhostOf(graph, cast, q, condition, x)
  <2>1. condition[graph.entries[s].cumulative_vote]
    <3>1. VotesAt(cast, q) \subseteq VotesAt(cast, s) /\ VotesAt(cast, q) \in SUBSET DOMAIN cast /\ VotesAt(cast, s) \in SUBSET DOMAIN cast
      BY <1>2, GraphFacts DEF VotesAt
    <3> QED  BY <1>2, <1>4, <1>6, <3>1 DEF Monotone
  <2>2. CASE heavy = {}
    <3>1. FindGhosts(graph, b, condition) = Climbed(graph, s, D, condition, s)
      BY <1>2, <1>5, <2>1, <2>2, MergeExact
    <3>2. \A d \in D : ~condition[VotesAt(cast, d)]
      BY <1>3, <1>4, <2>2 DEF Heavy
    <3>3. \A x \in Climbed(graph, s, D, condition, s) : GhostOf(graph, cast, q, condition, x)
      BY <1>1, <1>6, <3>2, ClimbEnds DEF GhostOf
    <3>4. Climbed(graph, s, D, condition, s) # {}
      BY <1>2, ClimbGoes
    <3> QED  BY <3>1, <3>3, <3>4
  <2>3. CASE heavy # {}
    <3>1. FindGhosts(graph, b, condition) = UNION {Ghosts(graph, d, condition) : d \in heavy}
      BY <1>5, <2>1, <2>3
    <3>2. ASSUME NEW d \in heavy
          PROVE  Ghosts(graph, d, condition) # {} /\ \A x \in Ghosts(graph, d, condition) : GhostOf(graph, cast, q, condition, x)
      <4>1. d \in DOMAIN graph.entries /\ d \in Block /\ q \in Ancestors[d]
            /\ condition[graph.entries[d].cumulative_vote]
        BY <1>3 DEF Heavy
      <4>2. Ghosts(graph, d, condition) # {} /\ \A x \in Ghosts(graph, d, condition) : GhostOf(graph, cast, d, condition, x)
        BY <4>1, GhostsAbove
      <4>3. ASSUME NEW x \in Blocks(graph), d \in Ancestors[x] PROVE q \in Ancestors[x]
        BY <4>1, <4>3, ChainFacts DEF Blocks
      <4> QED  BY <4>2, <4>3 DEF GhostOf
    <3> HIDE DEF heavy
    <3> QED  BY <2>3, <3>1, <3>2
  <2> QED  BY <2>2, <2>3
<1>7. ASSUME b = None, ~condition[VotesAt(cast, graph.base)]
      PROVE  FindGhosts(graph, b, condition) = {None}
  BY <1>1, <1>2, <1>4, <1>5, <1>7
<1> QED  BY <1>6, <1>7 DEF q
=============================================================================
