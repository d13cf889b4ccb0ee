-------------------------- MODULE FormatterProofs --------------------------
(***************************************************************************)
(* What the operators of Formatter do, for names, attributes and states of *)
(* any length and any kind: the names that normalize_attribute_name makes, *)
(* the dictionaries that a document is merged from, their places in the    *)
(* index template, and the attributes that stay.                           *)
(***************************************************************************)
EXTENDS Formatter, SequenceTheorems, FiniteSetTheorems, WellFoundedInduction, TLAPS

-----------------------------------------------------------------------------
\* Sets of natural numbers.

\* A set of naturals has a least one.
LEMMA LeastNatural ==
    ASSUME NEW T \in SUBSET Nat, T # {}
    PROVE  \E i \in T : \A j \in T : i <= j
<1> DEFINE Less == {pair \in Nat \X Nat : pair[1] < pair[2]}
<1>1. IsWellFoundedOn(Less, Nat)
  BY NatLessThanWellFounded, Zenon DEF OpToRel
<1>2. PICK i \in T : \A j \in T : <<j, i>> \notin Less
  <2> HIDE DEF Less
  <2> QED
    BY <1>1, WFMin
<1>3. \A j \in T : ~(j < i)
  BY <1>2
<1> QED
  BY <1>3

\* A set of positions has a greatest one.
LEMMA GreatestIndex ==
    ASSUME NEW n \in Nat, NEW T \in SUBSET (1..n), T # {}
    PROVE  \E i \in T : \A j \in T : j <= i
<1> DEFINE Distances == {n - i : i \in T}
<1>1. Distances \in SUBSET Nat /\ Distances # {}
  <2>1. \A i \in T : n - i \in Nat
    OBVIOUS
  <2> QED
    BY <2>1
<1>2. PICK d \in Distances : \A e \in Distances : d <= e
  <2> HIDE DEF Distances
  <2> QED
    BY <1>1, LeastNatural
<1>3. PICK i \in T : d = n - i
  OBVIOUS
<1>4. \A j \in T : n - i <= n - j
  BY <1>2, <1>3
<1> QED
  BY <1>3, <1>4
-----------------------------------------------------------------------------
\* Positions and their ranks.

\* How many of the positions there are up to p
Rank(positions, p) == Cardinality({q \in positions : q <= p})

\* A rank is a number, and not more than there are positions.
LEMMA RankType ==
    ASSUME NEW n \in Nat, NEW positions \in SUBSET (1..n)
    PROVE  /\ IsFiniteSet(positions)
           /\ Cardinality(positions) \in Nat
           /\ \A p \in Int : /\ IsFiniteSet({q \in positions : q <= p})
                           /\ Rank(positions, p) \in Nat
                           /\ Rank(positions, p) <= Cardinality(positions)
<1>1. IsFiniteSet(1..n)
  BY FS_Interval
<1>2. IsFiniteSet(positions)
  BY <1>1, FS_Subset
<1>3. ASSUME NEW p \in Int
      PROVE  /\ IsFiniteSet({q \in positions : q <= p})
             /\ Cardinality({q \in positions : q <= p}) \in Nat
             /\ Cardinality({q \in positions : q <= p}) <= Cardinality(positions)
  <2>1. {q \in positions : q <= p} \in SUBSET positions
    OBVIOUS
  <2> QED
    BY <1>2, <2>1, FS_Subset, FS_CardinalityType
<1> QED
  BY <1>2, <1>3, FS_CardinalityType DEF Rank

\* A position has a higher rank than anything before it.
LEMMA RankGrows ==
    ASSUME NEW n \in Nat, NEW positions \in SUBSET (1..n),
           NEW p \in Int, NEW q \in positions, p < q
    PROVE  Rank(positions, p) < Rank(positions, q)
<1> DEFINE Upto(i) == {j \in positions : j <= i}
<1>1. Upto(p) \in SUBSET Upto(q) /\ q \in Upto(q) \ Upto(p)
  <2>1. \A j \in positions : j \in Int /\ (j <= p => j <= q)
    OBVIOUS
  <2>2. q <= q /\ ~(q <= p)
    BY <2>1
  <2> QED
    BY <2>1, <2>2
<1>2. IsFiniteSet(Upto(q)) /\ Cardinality(Upto(p)) \in Nat /\ Cardinality(Upto(q)) \in Nat
  BY RankType DEF Rank
<1>3. Cardinality(Upto(p)) <= Cardinality(Upto(q)) /\ Cardinality(Upto(p)) # Cardinality(Upto(q))
  <2> HIDE DEF Upto
  <2> QED
    BY <1>1, <1>2, FS_Subset
<1> QED
  BY <1>2, <1>3 DEF Rank

\* Every rank is the rank of one position.
LEMMA RankOnto ==
    ASSUME NEW n \in Nat, NEW positions \in SUBSET (1..n),
           NEW k \in 1..Cardinality(positions)
    PROVE  \E p \in positions : Rank(positions, p) = k
<1> DEFINE Enough == {p \in Nat : Rank(positions, p) >= k}
<1>1. Cardinality(positions) \in Nat /\ \A p \in Nat : p \in Int /\ Rank(positions, p) \in Nat
  <2>1. \A p \in Nat : p \in Int
    OBVIOUS
  <2> QED
    BY <2>1, RankType
<1>2. n \in Enough
  <2>1. {q \in positions : q <= n} = positions
    <3>1. \A q \in positions : q \in 1..n /\ q <= n
      OBVIOUS
    <3> QED
      BY <3>1
  <2> QED
    BY <1>1, <2>1 DEF Rank
<1>3. PICK p \in Enough : \A q \in Enough : p <= q
  <2>1. Enough \in SUBSET Nat
    OBVIOUS
  <2> HIDE DEF Enough
  <2> QED
    BY <1>2, <2>1, LeastNatural
<1>4. Rank(positions, 0) = 0
  <2>1. {q \in positions : q <= 0} = {}
    <3>1. \A q \in positions : q \in 1..n /\ ~(q <= 0)
      OBVIOUS
    <3> QED
      BY <3>1
  <2> QED
    BY <2>1, FS_EmptySet DEF Rank
<1>5. p - 1 \in Nat /\ Rank(positions, p - 1) < k
  <2>1. p # 0
    BY <1>4
  <2>2. p - 1 \in Nat
    BY <2>1
  <2> QED
    BY <1>1, <1>3, <2>2
<1>6. p \in positions
  <2> SUFFICES ASSUME p \notin positions
               PROVE  FALSE
    OBVIOUS
  <2>1. {q \in positions : q <= p} = {q \in positions : q <= p - 1}
    <3>1. \A q \in positions : q <= p <=> q <= p - 1
      BY <1>5
    <3> QED
      BY <3>1
  <2> QED
    BY <1>1, <1>5, <2>1 DEF Rank
<1>7. Rank(positions, p) = Rank(positions, p - 1) + 1
  <2>1. {q \in positions : q <= p} = {q \in positions : q <= p - 1} \cup {p}
    <3>1. \A q \in positions : q <= p <=> q <= p - 1 \/ q = p
      BY <1>5
    <3> QED
      BY <1>6, <3>1
  <2>2. p \notin {q \in positions : q <= p - 1}
    BY <1>5
  <2>3. IsFiniteSet({q \in positions : q <= p - 1})
    BY <1>5, RankType
  <2> QED
    BY <2>1, <2>2, <2>3, FS_AddElement DEF Rank
<1> QED
  BY <1>1, <1>5, <1>6, <1>7

-----------------------------------------------------------------------------
\* The operator Picked.

\* Each item has its rank for a place, and there is nothing else.
InRankOrder(picked, seq, positions) ==
    /\ Cardinality(positions) \in Nat
    /\ DOMAIN picked = 1..Cardinality(positions)
    /\ \A k \in DOMAIN picked :
         \E p \in positions : Rank(positions, p) = k /\ picked[k] = seq[p]
    /\ \A p \in positions :
         Rank(positions, p) \in DOMAIN picked /\ picked[Rank(positions, p)] = seq[p]

\* What is picked has an item for each position, in their order.
LEMMA PickedItems ==
    ASSUME NEW n \in Nat, NEW positions \in SUBSET (1..n), NEW seq
    PROVE  InRankOrder(Picked(seq, positions), seq, positions)
<1> DEFINE Of(k) == CHOOSE p \in positions : Rank(positions, p) = k
<1>1. /\ Cardinality(positions) \in Nat
      /\ Picked(seq, positions) = [k \in 1..Cardinality(positions) |-> seq[Of(k)]]
  BY RankType DEF Picked, Rank
<1>2. ASSUME NEW k \in 1..Cardinality(positions)
      PROVE  Of(k) \in positions /\ Rank(positions, Of(k)) = k
  <2>1. \E p \in positions : Rank(positions, p) = k
    BY RankOnto
  <2> QED
    BY <2>1
<1>3. ASSUME NEW p \in positions
      PROVE  /\ Rank(positions, p) \in 1..Cardinality(positions)
             /\ Of(Rank(positions, p)) = p
  <2>1. p \in Int /\ 0 \in Int /\ 0 < p
    OBVIOUS
  <2>2. Rank(positions, 0) \in Nat /\ Rank(positions, p) \in Nat
        /\ Rank(positions, p) <= Cardinality(positions)
    BY <2>1, RankType
  <2>3. Rank(positions, 0) < Rank(positions, p)
    BY <2>1, RankGrows
  <2>4. Rank(positions, p) \in 1..Cardinality(positions)
    BY <1>1, <2>2, <2>3
  <2> DEFINE q == Of(Rank(positions, p))
  <2> HIDE DEF Of
  <2>5. q \in positions /\ Rank(positions, q) = Rank(positions, p)
    BY <1>2, <2>4
  <2> HIDE DEF q
  <2>6. q \in Int /\ ~(q < p) /\ ~(p < q)
    <3> q \in Int
      BY <2>5
    <3>1. q < p => Rank(positions, q) < Rank(positions, p)
      BY <2>1, <2>5, RankGrows
    <3>2. p < q => Rank(positions, p) < Rank(positions, q)
      BY <2>1, <2>5, RankGrows
    <3> QED
      BY <2>2, <2>5, <3>1, <3>2
  <2>7. q = p
    BY <2>1, <2>5, <2>6
  <2> QED
    BY <2>4, <2>7 DEF q
<1> HIDE DEF Of
<1> QED
  BY <1>1, <1>2, <1>3 DEF InRankOrder

\* Each item comes from a position, and each position gives an item.
LEMMA PickedSequence ==
    ASSUME NEW S, NEW seq \in Seq(S), NEW positions \in SUBSET DOMAIN seq
    PROVE  \E n \in Nat :
             /\ DOMAIN Picked(seq, positions) = 1..n
             /\ \A k \in 1..n : \E p \in positions : Picked(seq, positions)[k] = seq[p]
             /\ \A p \in positions : \E k \in 1..n : Picked(seq, positions)[k] = seq[p]
<1>1. Len(seq) \in Nat /\ positions \in SUBSET (1..Len(seq))
  BY LenProperties
<1>2. InRankOrder(Picked(seq, positions), seq, positions)
  BY <1>1, PickedItems
<1> QED
  BY <1>2 DEF InRankOrder

\* All of a sequence
LEMMA PickedAll ==
    ASSUME NEW S, NEW seq \in Seq(S)
    PROVE  Picked(seq, DOMAIN seq) = seq
<1>1. /\ Len(seq) \in Nat /\ DOMAIN seq = 1..Len(seq)
      /\ seq = [i \in 1..Len(seq) |-> seq[i]]
  BY LenProperties
<1>2. Cardinality(1..Len(seq)) = Len(seq)
  BY <1>1, FS_Interval
<1>3. ASSUME NEW p \in 1..Len(seq)
      PROVE  Rank(1..Len(seq), p) = p
  <2>1. {q \in 1..Len(seq) : q <= p} = 1..p
    <3>1. \A q : q \in 1..Len(seq) /\ q <= p <=> q \in 1..p
      BY <1>1
    <3> QED
      BY <3>1
  <2>2. Cardinality(1..p) = p
    BY FS_Interval
  <2> QED
    BY <2>1, <2>2 DEF Rank
<1>4. ASSUME NEW k \in 1..Len(seq)
      PROVE  Picked(seq, 1..Len(seq))[k] = seq[k]
  BY <1>1, <1>2, <1>3, PickedItems DEF InRankOrder
<1>5. /\ DOMAIN Picked(seq, 1..Len(seq)) = 1..Len(seq)
      /\ Picked(seq, 1..Len(seq))
            = [k \in 1..Cardinality(1..Len(seq)) |-> Picked(seq, 1..Len(seq))[k]]
  BY <1>1, <1>2, PickedItems DEF Picked, InRankOrder
<1> QED
  BY <1>1, <1>2, <1>4, <1>5

-----------------------------------------------------------------------------
\* Names of attributes.

\* A function on the first positions is a sequence.
LEMMA FunctionIsSequence ==
    ASSUME NEW n \in Nat, NEW S, NEW seq \in [1..n -> S]
    PROVE  seq \in Seq(S) /\ Len(seq) = n
<1>1. seq \in Seq(S)
  BY SeqDef
<1>2. DOMAIN seq = 1..n /\ DOMAIN seq = 1..Len(seq) /\ Len(seq) \in Nat
  BY <1>1, LenProperties
<1> QED
  BY <1>1, <1>2

\* Only ASCII is left, and all of it.
LEMMA AsciiFacts ==
    ASSUME NEW name \in Seq(Characters)
    PROVE  /\ Ascii(name) \in Seq({"a", "A", "1", "underscore", "blank", "mark"})
           /\ \A i \in DOMAIN name :
                name[i] # "kanji" =>
                    \E k \in DOMAIN Ascii(name) :
                        Ascii(name)[k] = IF name[i] = "a_acute" THEN "a" ELSE name[i]
<1> DEFINE positions == {i \in DOMAIN name : name[i] # "kanji"}
           kept == Picked(name, positions)
<1>1. /\ Len(name) \in Nat /\ DOMAIN name = 1..Len(name)
      /\ \A i \in DOMAIN name : name[i] \in Characters
  BY LenProperties
<1>2. positions \in SUBSET DOMAIN name
  OBVIOUS
<1>3. /\ Ascii(name) = [i \in DOMAIN kept |-> IF kept[i] = "a_acute" THEN "a" ELSE kept[i]]
      /\ \A i \in positions : name[i] # "kanji" /\ name[i] \in Characters
      /\ \A i \in DOMAIN name : name[i] # "kanji" => i \in positions
  BY <1>1 DEF Ascii
<1> HIDE DEF positions
<1>4. PICK n \in Nat :
        /\ DOMAIN kept = 1..n
        /\ \A k \in 1..n : \E p \in positions : kept[k] = name[p]
        /\ \A p \in positions : \E k \in 1..n : kept[k] = name[p]
  BY <1>2, PickedSequence
<1> HIDE DEF kept
<1>5. \A k \in 1..n : kept[k] # "kanji" /\ kept[k] \in Characters
  BY <1>3, <1>4
<1>6. Ascii(name) \in [1..n -> {"a", "A", "1", "underscore", "blank", "mark"}]
  <2>1. \A k \in 1..n : (IF kept[k] = "a_acute" THEN "a" ELSE kept[k])
                         \in {"a", "A", "1", "underscore", "blank", "mark"}
    BY <1>5 DEF Characters
  <2> QED
    BY <1>3, <1>4, <2>1
<1>7. Ascii(name) \in Seq({"a", "A", "1", "underscore", "blank", "mark"})
  BY <1>6, FunctionIsSequence
<1>8. ASSUME NEW i \in DOMAIN name, name[i] # "kanji"
      PROVE  \E k \in DOMAIN Ascii(name) :
                Ascii(name)[k] = IF name[i] = "a_acute" THEN "a" ELSE name[i]
  <2>1. PICK k \in 1..n : kept[k] = name[i]
    BY <1>3, <1>4, <1>8
  <2>2. k \in DOMAIN Ascii(name)
        /\ Ascii(name)[k] = IF name[i] = "a_acute" THEN "a" ELSE name[i]
    BY <1>3, <1>4, <2>1
  <2> QED
    BY <2>2
<1> QED
  BY <1>7, <1>8

\* Only word characters are left, and the letters and digits all of them.
LEMMA UnderscoredFacts ==
    ASSUME NEW name \in Seq({"a", "A", "1", "underscore", "blank", "mark"})
    PROVE  /\ Underscored(name) \in Seq({"a", "A", "1", "underscore"})
           /\ \A i \in DOMAIN name :
                name[i] \in {"a", "A", "1"} =>
                    \E k \in DOMAIN Underscored(name) : Underscored(name)[k] = name[i]
<1> DEFINE positions == {i \in DOMAIN name : IsWord(name[i]) \/ i = 1 \/ IsWord(name[i - 1])}
           kept == Picked(name, positions)
<1>1. /\ Len(name) \in Nat /\ DOMAIN name = 1..Len(name)
      /\ \A i \in DOMAIN name : name[i] \in {"a", "A", "1", "underscore", "blank", "mark"}
  BY LenProperties
<1>2. positions \in SUBSET DOMAIN name
  OBVIOUS
<1>3. /\ Underscored(name) = [i \in DOMAIN kept |-> IF IsWord(kept[i]) THEN kept[i] ELSE "underscore"]
      /\ \A i \in DOMAIN name : name[i] \in {"a", "A", "1"} => i \in positions
  BY <1>1 DEF Underscored, IsWord
<1> HIDE DEF positions
<1>4. PICK n \in Nat :
        /\ DOMAIN kept = 1..n
        /\ \A k \in 1..n : \E p \in positions : kept[k] = name[p]
        /\ \A p \in positions : \E k \in 1..n : kept[k] = name[p]
  BY <1>2, PickedSequence
<1> HIDE DEF kept
<1>5. Underscored(name) \in [1..n -> {"a", "A", "1", "underscore"}]
  BY <1>3, <1>4 DEF IsWord
<1>6. Underscored(name) \in Seq({"a", "A", "1", "underscore"})
  BY <1>5, FunctionIsSequence
<1>7. ASSUME NEW i \in DOMAIN name, name[i] \in {"a", "A", "1"}
      PROVE  \E k \in DOMAIN Underscored(name) : Underscored(name)[k] = name[i]
  <2>1. PICK k \in 1..n : kept[k] = name[i]
    BY <1>3, <1>4, <1>7
  <2>2. k \in DOMAIN Underscored(name) /\ Underscored(name)[k] = name[i]
    BY <1>3, <1>4, <1>7, <2>1 DEF IsWord
  <2> QED
    BY <2>2
<1> QED
  BY <1>6, <1>7

\* What is left begins and ends where the name has no underscore; nothing is
\* left of underscores alone.
LEMMA StrippedFacts ==
    ASSUME NEW S, NEW name \in Seq(S)
    PROVE  /\ Stripped(name) \in Seq(S)
           /\ Stripped(name) # <<>> =>
                /\ Stripped(name)[1] # "underscore"
                /\ Stripped(name)[Len(Stripped(name))] # "underscore"
           /\ Stripped(name) = <<>> => \A i \in DOMAIN name : name[i] = "underscore"
           /\ name # <<>> /\ name[1] # "underscore" /\ name[Len(name)] # "underscore" => Stripped(name) = name
<1> DEFINE inner == {i \in DOMAIN name : name[i] # "underscore"}
<1>1. PICK n \in Nat : /\ n = Len(name)
                       /\ DOMAIN name = 1..n
                       /\ \A i \in 1..n : name[i] \in S
  BY LenProperties
<1>2. Stripped(name) = IF inner = {} THEN <<>>
                       ELSE SubSeq(name, CHOOSE i \in inner : \A j \in inner : i <= j,
                                         CHOOSE i \in inner : \A j \in inner : i >= j)
  BY DEF Stripped
<1>3. name # <<>> => n >= 1
  BY <1>1, EmptySeq
<1>4. CASE inner = {}
  <2>1. \A i \in DOMAIN name : name[i] = "underscore"
    BY <1>4
  <2>2. name # <<>> => 1 \in DOMAIN name
    BY <1>1, <1>3
  <2>3. Stripped(name) = <<>> /\ <<>> \in Seq(S)
    BY <1>2, <1>4, EmptySeq
  <2> QED
    BY <2>1, <2>2, <2>3
<1>5. CASE inner # {}
  <2>1. inner \in SUBSET (1..n) /\ \A i \in inner : name[i] # "underscore"
    BY <1>1
  <2>2. \A i \in 1..n : i \in Nat
    OBVIOUS
  <2>3. PICK first \in inner : /\ first = CHOOSE i \in inner : \A j \in inner : i <= j
                               /\ \A j \in inner : first <= j
    <3>1. \E i \in inner : \A j \in inner : i <= j
      <4> HIDE DEF inner
      <4>1. inner \in SUBSET Nat
        BY <2>1, <2>2
      <4> QED
        BY <1>5, <4>1, LeastNatural
    <3> HIDE DEF inner
    <3> QED
      BY <3>1
  <2>4. PICK last \in inner : /\ last = CHOOSE i \in inner : \A j \in inner : i >= j
                              /\ \A j \in inner : last >= j
    <3>1. \E i \in inner : \A j \in inner : i >= j
      <4> HIDE DEF inner
      <4>1. PICK i \in inner : \A j \in inner : j <= i
        BY <1>5, <2>1, GreatestIndex
      <4>2. \A j \in inner : i >= j
        BY <2>1, <4>1
      <4> QED
        BY <4>2
    <3> HIDE DEF inner
    <3> QED
      BY <3>1
  <2>5. \A i \in 1..n : name[i] # "underscore" => first <= i /\ last >= i
    BY <1>1, <2>3, <2>4
  <2>6. /\ first \in 1..n /\ last \in 1..n /\ first <= last
        /\ name[first] # "underscore" /\ name[last] # "underscore"
    BY <2>1, <2>3, <2>4
  <2>7. Stripped(name) = SubSeq(name, first, last)
    BY <1>2, <1>5, <2>3, <2>4
  <2> HIDE DEF inner
  <2>8. /\ Stripped(name) \in Seq(S)
        /\ Len(Stripped(name)) = last - first + 1
        /\ \A i \in 1..(last - first + 1) : Stripped(name)[i] = name[first + i - 1]
    <3>1. first \in Int /\ last \in Int /\ first <= last
      BY <2>6
    <3>2. \A i \in first..last : i \in 1..n
      BY <2>6
    <3>3. \A i \in first..last : name[i] \in S
      BY <1>1, <3>2
    <3> QED
      BY <2>7, <3>1, <3>3, SubSeqProperties
  <2>9. Stripped(name)[1] = name[first]
    BY <2>6, <2>8
  <2>10. Stripped(name)[last - first + 1] = name[last]
    <3>1. last - first + 1 \in 1..(last - first + 1) /\ first + (last - first + 1) - 1 = last
      BY <2>6
    <3> QED
      BY <2>8, <3>1
  <2>11. Stripped(name) # <<>>
    <3>1. Len(Stripped(name)) # 0
      BY <2>6, <2>8
    <3> QED
      BY <3>1, EmptySeq
  <2>12. ASSUME name # <<>>, name[1] # "underscore", name[Len(name)] # "underscore"
         PROVE  Stripped(name) = name
    <3>1. first = 1 /\ last = n
      BY <1>1, <1>3, <2>5, <2>6, <2>12
    <3> QED
      BY <1>1, <2>7, <3>1, SubSeqFull
  <2> QED
    BY <2>6, <2>8, <2>9, <2>10, <2>11, <2>12
<1> QED
  BY <1>4, <1>5

\* Lower case changes no character but the upper case letter.
LEMMA LowerFacts ==
    ASSUME NEW name \in Seq({"a", "A", "1", "underscore"})
    PROVE  /\ Lower(name) \in Seq({"a", "1", "underscore"})
           /\ Len(Lower(name)) = Len(name)
           /\ \A i \in DOMAIN name : Lower(name)[i] = "underscore" <=> name[i] = "underscore"
<1>1. PICK n \in Nat : /\ n = Len(name)
                       /\ DOMAIN name = 1..n
                       /\ \A i \in 1..n : name[i] \in {"a", "A", "1", "underscore"}
  BY LenProperties
<1>2. Lower(name) \in [1..n -> {"a", "1", "underscore"}]
  BY <1>1 DEF Lower
<1>3. \A i \in DOMAIN name : Lower(name)[i] = "underscore" <=> name[i] = "underscore"
  BY <1>1 DEF Lower
<1> QED
  BY <1>1, <1>2, <1>3, FunctionIsSequence

\* Normalization leaves alone what is normal.
LEMMA NormalNamesStay ==
    ASSUME NEW key \in Seq({"a", "1", "underscore"}),
           key # <<>> => key[1] # "underscore" /\ key[Len(key)] # "underscore"
    PROVE  NormalizeAttributeName(key) = key
<1>1. PICK n \in Nat : /\ n = Len(key)
                       /\ DOMAIN key = 1..n
                       /\ \A i \in 1..n : key[i] \in {"a", "1", "underscore"}
                       /\ key = [i \in 1..n |-> key[i]]
  BY LenProperties
<1>2. Picked(key, DOMAIN key) = key
  BY PickedAll
<1>3. Ascii(key) = key
  <2>1. {i \in DOMAIN key : key[i] # "kanji"} = DOMAIN key
    BY <1>1
  <2> QED
    BY <1>1, <1>2, <2>1 DEF Ascii
<1>4. Underscored(key) = key
  <2>1. \A i \in DOMAIN key : IsWord(key[i])
    BY <1>1 DEF IsWord
  <2>2. {i \in DOMAIN key : IsWord(key[i]) \/ i = 1 \/ IsWord(key[i - 1])} = DOMAIN key
    BY <2>1
  <2> QED
    BY <1>1, <1>2, <2>1, <2>2 DEF Underscored
<1>5. Stripped(key) = key
  <2>1. CASE key = <<>>
    <3>1. DOMAIN key = {}
      BY <2>1
    <3> QED
      BY <2>1, <3>1 DEF Stripped
  <2> QED
    BY <2>1, StrippedFacts
<1>6. Lower(key) = key
  BY <1>1 DEF Lower
<1> QED
  BY <1>3, <1>4, <1>5, <1>6 DEF NormalizeAttributeName

\* normalize_attribute_name
LEMMA NamesAreNormalized ==
    ASSUME NEW name \in Seq(Characters)
    PROVE  LET key == NormalizeAttributeName(name) IN
           /\ \A i \in DOMAIN key : key[i] \in {"a", "1", "underscore"}
           /\ key # <<>> => key[1] # "underscore" /\ key[Len(key)] # "underscore"
           /\ key = <<>> =>
                \A j \in DOMAIN name : name[j] \in {"kanji", "underscore", "blank", "mark"}
           /\ NormalizeAttributeName(key) = key
<1> DEFINE ascii == Ascii(name)
           words == Underscored(ascii)
           inner == Stripped(words)
           key == Lower(inner)
<1>1. /\ ascii \in Seq({"a", "A", "1", "underscore", "blank", "mark"})
      /\ \A i \in DOMAIN name :
           name[i] # "kanji" =>
               \E k \in DOMAIN ascii : ascii[k] = IF name[i] = "a_acute" THEN "a" ELSE name[i]
  BY AsciiFacts
<1>2. /\ words \in Seq({"a", "A", "1", "underscore"})
      /\ \A i \in DOMAIN ascii :
           ascii[i] \in {"a", "A", "1"} => \E k \in DOMAIN words : words[k] = ascii[i]
  <2> HIDE DEF ascii
  <2> QED
    BY <1>1, UnderscoredFacts
<1>3. /\ inner \in Seq({"a", "A", "1", "underscore"})
      /\ inner # <<>> => inner[1] # "underscore" /\ inner[Len(inner)] # "underscore"
      /\ inner = <<>> => \A i \in DOMAIN words : words[i] = "underscore"
  <2> HIDE DEF words
  <2> QED
    BY <1>2, StrippedFacts
<1>4. /\ key \in Seq({"a", "1", "underscore"})
      /\ Len(key) = Len(inner)
      /\ \A i \in DOMAIN inner : key[i] = "underscore" <=> inner[i] = "underscore"
  <2> HIDE DEF inner
  <2> QED
    BY <1>3, LowerFacts
<1>5. key = NormalizeAttributeName(name)
  BY DEF NormalizeAttributeName
<1> HIDE DEF key, inner, words, ascii
<1>6. /\ Len(key) \in Nat /\ DOMAIN key = 1..Len(key)
      /\ Len(inner) \in Nat /\ DOMAIN inner = 1..Len(inner)
      /\ \A i \in DOMAIN key : key[i] \in {"a", "1", "underscore"}
  BY <1>3, <1>4, LenProperties
<1>7. (key = <<>> <=> Len(key) = 0) /\ (inner = <<>> <=> Len(inner) = 0)
  BY <1>3, <1>4, EmptySeq
<1>8. key # <<>> => key[1] # "underscore" /\ key[Len(key)] # "underscore"
  BY <1>3, <1>4, <1>6, <1>7
<1>9. ASSUME key = <<>>, NEW j \in DOMAIN name
      PROVE  name[j] \in {"kanji", "underscore", "blank", "mark"}
  <2>1. \A i \in DOMAIN words : words[i] = "underscore"
    BY <1>3, <1>4, <1>7, <1>9
  <2>2. \A i \in DOMAIN ascii : ascii[i] \notin {"a", "A", "1"}
    BY <1>2, <2>1
  <2>3. name[j] \in Characters
    BY LenProperties
  <2> QED
    BY <1>1, <2>2, <2>3 DEF Characters
<1>10. NormalizeAttributeName(key) = key
  BY <1>4, <1>8, NormalNamesStay
<1> QED
  BY <1>5, <1>6, <1>8, <1>9, <1>10

-----------------------------------------------------------------------------
\* Paths.

IsPath(path) == \E Keys : path \in Seq(Keys)

\* What a path with another key before it is made of
LEMMA PathBehindKey ==
    ASSUME NEW key, NEW path, IsPath(path)
    PROVE  /\ IsPath(<<key>> \o path)
           /\ Head(<<key>> \o path) = key
           /\ Tail(<<key>> \o path) = path
           /\ (<<key>> \o path)[1] = key
<1> DEFINE longer == <<key>> \o path
<1>1. PICK Keys : key \in Keys /\ path \in Seq(Keys)
  <2>1. PICK K : path \in Seq(K)
    BY DEF IsPath
  <2>2. path \in Seq(K \cup {key})
    BY <2>1, SeqMonotonic
  <2> QED
    BY <2>2
<1>2. /\ <<key>> \in Seq(Keys) /\ Len(<<key>>) = 1 /\ <<key>>[1] = key
      /\ Len(path) \in Nat
  BY <1>1, LenProperties
<1>3. /\ longer \in Seq(Keys)
      /\ Len(longer) = Len(path) + 1
      /\ \A i \in 1..(Len(path) + 1) : longer[i] = IF i <= 1 THEN <<key>>[i] ELSE path[i - 1]
  BY <1>1, <1>2, ConcatProperties
<1> HIDE DEF longer
<1>4. longer # <<>> /\ longer[1] = key
  BY <1>2, <1>3, EmptySeq
<1>5. Head(longer) = key
  BY <1>4
<1>6. Tail(longer) = path
  <2>1. /\ Tail(longer) \in Seq(Keys)
        /\ Len(Tail(longer)) = Len(longer) - 1
        /\ \A i \in 1..Len(Tail(longer)) : Tail(longer)[i] = longer[i + 1]
    BY <1>3, <1>4, HeadTailProperties
  <2>2. Len(Tail(longer)) = Len(path)
    BY <1>2, <1>3, <2>1
  <2>3. \A i \in 1..Len(path) : Tail(longer)[i] = path[i]
    BY <1>2, <1>3, <2>1, <2>2
  <2> QED
    BY <1>1, <2>1, <2>2, <2>3, SeqEqual
<1> QED
  BY <1>3, <1>4, <1>5, <1>6 DEF longer, IsPath

\* What a path with another before it is made of.
LEMMA PathBehindPrefix ==
    ASSUME NEW prefix, IsPath(prefix), NEW path, IsPath(path)
    PROVE  /\ IsPath(prefix \o path)
           /\ Len(prefix \o path) = Len(prefix) + Len(path)
           /\ \A i \in 1..Len(prefix) : (prefix \o path)[i] = prefix[i]
           /\ SubSeq(prefix \o path, Len(prefix) + 1, Len(prefix \o path)) = path
<1>1. PICK Keys : prefix \in Seq(Keys) /\ path \in Seq(Keys)
  <2>1. PICK K, L : prefix \in Seq(K) /\ path \in Seq(L)
    BY DEF IsPath
  <2>2. prefix \in Seq(K \cup L) /\ path \in Seq(K \cup L)
    BY <2>1, SeqMonotonic
  <2> QED
    BY <2>2
<1>2. PICK m, n \in Nat : m = Len(prefix) /\ n = Len(path)
  BY <1>1, LenProperties
<1>3. PICK longer \in Seq(Keys) : longer = prefix \o path
  BY <1>1, ConcatProperties
<1>4. /\ Len(longer) = m + n
      /\ \A i \in 1..(m + n) : longer[i] = IF i <= m THEN prefix[i] ELSE path[i - m]
  BY <1>1, <1>2, <1>3, ConcatProperties
<1>5. \A i \in 1..m : longer[i] = prefix[i]
  BY <1>4
<1>6. SubSeq(longer, m + 1, m + n) = path
  <2>1. \A i \in (m + 1)..(m + n) : longer[i] \in Keys
    <3>1. \A i \in (m + 1)..(m + n) : i \in 1..(m + n)
      OBVIOUS
    <3> QED
      BY <1>4, <3>1, ElementOfSeq
  <2>2. /\ SubSeq(longer, m + 1, m + n) \in Seq(Keys)
        /\ Len(SubSeq(longer, m + 1, m + n)) = n
        /\ \A i \in 1..n : SubSeq(longer, m + 1, m + n)[i] = longer[(m + 1) + i - 1]
    <3>1. /\ m + 1 \in Int /\ m + n \in Int
          /\ (IF m + 1 <= m + n THEN (m + n) - (m + 1) + 1 ELSE 0) = n
          /\ (m + n) - (m + 1) + 1 = n
      OBVIOUS
    <3> QED
      BY <2>1, <3>1, SubSeqProperties
  <2>3. \A i \in 1..n : longer[(m + 1) + i - 1] = path[i]
    BY <1>4
  <2> QED
    BY <1>1, <1>2, <2>2, <2>3, SeqEqual
<1> QED
  BY <1>2, <1>3, <1>4, <1>5, <1>6 DEF IsPath

\* The path of a value that is no dictionary.
LEMMA EmptyPath == IsPath(<<>>)
BY EmptySeq DEF IsPath

\* Two sequences one after the other are known by their items.
LEMMA ConcatIs ==
    ASSUME NEW Keys, NEW s \in Seq(Keys), NEW t \in Seq(Keys), NEW u \in Seq(Keys),
           Len(u) = Len(s) + Len(t),
           \A i \in 1..Len(s) : u[i] = s[i],
           \A i \in 1..Len(t) : u[Len(s) + i] = t[i]
    PROVE  s \o t = u
<1>1. PICK m, n \in Nat : m = Len(s) /\ n = Len(t)
  BY LenProperties
<1>2. PICK v \in Seq(Keys) : v = s \o t
  BY ConcatProperties
<1>3. /\ Len(v) = m + n
      /\ \A i \in 1..(m + n) : v[i] = IF i <= m THEN s[i] ELSE t[i - m]
  BY <1>1, <1>2, ConcatProperties
<1>4. ASSUME NEW i \in 1..(m + n)
      PROVE  v[i] = u[i]
  <2>1. CASE i <= m
    BY <1>1, <1>3, <2>1
  <2>2. CASE ~(i <= m)
    <3>1. i - m \in 1..n /\ m + (i - m) = i
      BY <2>2
    <3> QED
      BY <1>1, <1>3, <2>2, <3>1
  <2> QED
    BY <2>1, <2>2
<1> QED
  BY <1>1, <1>2, <1>3, <1>4, SeqEqual

\* Paths written out
LEMMA TuplePaths ==
    ASSUME NEW a, NEW b, NEW c, NEW d
    PROVE  /\ IsPath(<<a>>) /\ IsPath(<<a, b>>) /\ IsPath(<<a, b, c>>) /\ IsPath(<<a, b, c, d>>)
           /\ Len(<<a>>) = 1 /\ Len(<<a, b, c>>) = 3
           /\ <<a>> \o <<>> = <<a>>
           /\ <<a>> \o <<b>> = <<a, b>>
           /\ <<a>> \o <<b, c>> = <<a, b, c>>
           /\ <<a>> \o <<b, c, d>> = <<a, b, c, d>>
           /\ <<a, b, c>> \o <<d>> = <<a, b, c, d>>
<1>1. PICK Keys : Keys = {a, b, c, d}
  OBVIOUS
<1>2. /\ <<a>> \in Seq(Keys) /\ <<b>> \in Seq(Keys) /\ <<d>> \in Seq(Keys)
      /\ <<a, b>> \in Seq(Keys) /\ <<b, c>> \in Seq(Keys)
      /\ <<a, b, c>> \in Seq(Keys) /\ <<b, c, d>> \in Seq(Keys)
      /\ <<a, b, c, d>> \in Seq(Keys)
  BY <1>1
<1>3. IsPath(<<a>>) /\ IsPath(<<a, b>>) /\ IsPath(<<a, b, c>>) /\ IsPath(<<a, b, c, d>>)
  BY <1>2 DEF IsPath
<1>4. <<a>> \o <<>> = <<a>>
  BY <1>2, ConcatEmptySeq
<1>5. <<a>> \o <<b>> = <<a, b>>
  <2>1. /\ Len(<<a, b>>) = Len(<<a>>) + Len(<<b>>)
        /\ \A i \in 1..Len(<<a>>) : <<a, b>>[i] = <<a>>[i]
        /\ \A i \in 1..Len(<<b>>) : <<a, b>>[Len(<<a>>) + i] = <<b>>[i]
    <3>1. Len(<<a, b>>) = 2 /\ Len(<<a>>) = 1 /\ Len(<<b>>) = 1
      OBVIOUS
    <3>2. ASSUME NEW i \in 1..Len(<<a>>)
          PROVE  <<a, b>>[i] = <<a>>[i]
      <4>1. i = 1
        BY <3>1
      <4> QED
        BY <4>1
    <3>3. ASSUME NEW i \in 1..Len(<<b>>)
          PROVE  <<a, b>>[Len(<<a>>) + i] = <<b>>[i]
      <4>1. i = 1 /\ Len(<<a>>) + i = 2
        BY <3>1
      <4> QED
        BY <4>1
    <3>4. Len(<<a, b>>) = Len(<<a>>) + Len(<<b>>)
      BY <3>1
    <3> QED
      BY <3>2, <3>3, <3>4
  <2> QED
    BY <1>2, <2>1, ConcatIs, Zenon
<1>6. <<a>> \o <<b, c>> = <<a, b, c>>
  <2>1. /\ Len(<<a, b, c>>) = Len(<<a>>) + Len(<<b, c>>)
        /\ \A i \in 1..Len(<<a>>) : <<a, b, c>>[i] = <<a>>[i]
        /\ \A i \in 1..Len(<<b, c>>) : <<a, b, c>>[Len(<<a>>) + i] = <<b, c>>[i]
    OBVIOUS
  <2> QED
    BY <1>2, <2>1, ConcatIs, Zenon
<1>7. <<a>> \o <<b, c, d>> = <<a, b, c, d>>
  <2>1. /\ Len(<<a, b, c, d>>) = Len(<<a>>) + Len(<<b, c, d>>)
        /\ \A i \in 1..Len(<<a>>) : <<a, b, c, d>>[i] = <<a>>[i]
        /\ \A i \in 1..Len(<<b, c, d>>) : <<a, b, c, d>>[Len(<<a>>) + i] = <<b, c, d>>[i]
    OBVIOUS
  <2> QED
    BY <1>2, <2>1, ConcatIs, Zenon
<1>8. <<a, b, c>> \o <<d>> = <<a, b, c, d>>
  <2>1. /\ Len(<<a, b, c, d>>) = Len(<<a, b, c>>) + Len(<<d>>)
        /\ \A i \in 1..Len(<<a, b, c>>) : <<a, b, c, d>>[i] = <<a, b, c>>[i]
        /\ \A i \in 1..Len(<<d>>) : <<a, b, c, d>>[Len(<<a, b, c>>) + i] = <<d>>[i]
    OBVIOUS
  <2> QED
    BY <1>2, <2>1, ConcatIs, Zenon
<1> QED
  BY <1>3, <1>4, <1>5, <1>6, <1>7, <1>8

\* It does not matter which of three paths are put together first.
LEMMA PathsAssociate ==
    ASSUME NEW p, IsPath(p), NEW q, IsPath(q), NEW r, IsPath(r)
    PROVE  (p \o q) \o r = p \o (q \o r)
<1>1. PICK K, L, M : p \in Seq(K) /\ q \in Seq(L) /\ r \in Seq(M)
  BY DEF IsPath
<1>2. PICK Keys : p \in Seq(Keys) /\ q \in Seq(Keys) /\ r \in Seq(Keys)
  <2>1. /\ p \in Seq(K \cup L \cup M) /\ q \in Seq(K \cup L \cup M)
        /\ r \in Seq(K \cup L \cup M)
    BY <1>1, SeqMonotonic
  <2> QED
    BY <2>1
<1> QED
  BY <1>2, ConcatAssociative

-----------------------------------------------------------------------------
\* Dictionaries: their paths, and what is at a path.

IsDict(dict) == \A path \in DOMAIN dict : IsPath(path)

\* A value that is no dictionary has the empty path only.
LEMMA LeafFacts ==
    ASSUME NEW value
    PROVE  /\ DOMAIN Leaf(value) = {<<>>}
           /\ Leaf(value)[<<>>] = value
           /\ IsDict(Leaf(value))
BY EmptyPath DEF Leaf, IsDict

\* A path of a nested dictionary is a key and a path of the child there.
LEMMA DictFacts ==
    ASSUME NEW children, \A key \in DOMAIN children : IsDict(children[key])
    PROVE  /\ IsDict(Dict(children))
           /\ \A path \in DOMAIN Dict(children) :
                \E key \in DOMAIN children : \E p \in DOMAIN children[key] : path = <<key>> \o p
           /\ \A key \in DOMAIN children : \A p \in DOMAIN children[key] :
                /\ <<key>> \o p \in DOMAIN Dict(children)
                /\ Dict(children)[<<key>> \o p] = children[key][p]
<1>1. DOMAIN Dict(children) =
        UNION {{<<key>> \o p : p \in DOMAIN children[key]} : key \in DOMAIN children}
  BY DEF Dict
<1>2. \A path \in DOMAIN Dict(children) : Dict(children)[path] = children[Head(path)][Tail(path)]
  BY DEF Dict
<1>3. \A key \in DOMAIN children : \A p \in DOMAIN children[key] :
        /\ IsPath(<<key>> \o p)
        /\ Head(<<key>> \o p) = key
        /\ Tail(<<key>> \o p) = p
  BY PathBehindKey DEF IsDict
<1>4. \A path \in DOMAIN Dict(children) :
        \E key \in DOMAIN children : \E p \in DOMAIN children[key] : path = <<key>> \o p
  BY <1>1
<1>5. ASSUME NEW key \in DOMAIN children, NEW p \in DOMAIN children[key]
      PROVE  <<key>> \o p \in DOMAIN Dict(children)
  BY <1>1
<1>6. ASSUME NEW key \in DOMAIN children, NEW p \in DOMAIN children[key]
      PROVE  Dict(children)[<<key>> \o p] = children[key][p]
  BY <1>2, <1>3, <1>5
<1>7. IsDict(Dict(children))
  BY <1>3, <1>4 DEF IsDict
<1> QED
  BY <1>4, <1>5, <1>6, <1>7

\* A path of a dictionary at a prefix is the prefix and a path of its own.
LEMMA AtFacts ==
    ASSUME NEW prefix, IsPath(prefix), NEW dict, IsDict(dict)
    PROVE  /\ IsDict(At(prefix, dict))
           /\ \A path \in DOMAIN At(prefix, dict) : \E p \in DOMAIN dict : path = prefix \o p
           /\ \A p \in DOMAIN dict :
                /\ prefix \o p \in DOMAIN At(prefix, dict)
                /\ At(prefix, dict)[prefix \o p] = dict[p]
<1>1. DOMAIN At(prefix, dict) = {prefix \o p : p \in DOMAIN dict}
  BY DEF At
<1>2. \A path \in DOMAIN At(prefix, dict) :
        At(prefix, dict)[path] = dict[SubSeq(path, Len(prefix) + 1, Len(path))]
  BY DEF At
<1>3. \A p \in DOMAIN dict : /\ IsPath(prefix \o p)
                             /\ SubSeq(prefix \o p, Len(prefix) + 1, Len(prefix \o p)) = p
  BY PathBehindPrefix DEF IsDict
<1>4. \A path \in DOMAIN At(prefix, dict) : \E p \in DOMAIN dict : path = prefix \o p
  BY <1>1
<1>5. ASSUME NEW p \in DOMAIN dict
      PROVE  /\ prefix \o p \in DOMAIN At(prefix, dict)
             /\ At(prefix, dict)[prefix \o p] = dict[p]
  BY <1>1, <1>2, <1>3
<1>6. IsDict(At(prefix, dict))
  BY <1>3, <1>4 DEF IsDict
<1> QED
  BY <1>4, <1>5, <1>6

\* The last of the dictionaries that have a path gives the value.
LEMMA MergedLast ==
    ASSUME NEW dicts, DOMAIN dicts \subseteq Nat,
           NEW i \in DOMAIN dicts, NEW path \in DOMAIN dicts[i],
           \A j \in DOMAIN dicts : path \in DOMAIN dicts[j] => j <= i
    PROVE  path \in DOMAIN Merged(dicts) /\ Merged(dicts)[path] = dicts[i][path]
<1> DEFINE Last(k) == /\ path \in DOMAIN dicts[k]
                      /\ \A j \in DOMAIN dicts : path \in DOMAIN dicts[j] => j <= k
<1>1. path \in DOMAIN Merged(dicts)
  BY DEF Merged
<1>2. Merged(dicts)[path] = dicts[CHOOSE k \in DOMAIN dicts : Last(k)][path]
  BY <1>1 DEF Merged
<1>3. i \in DOMAIN dicts /\ Last(i)
  OBVIOUS
<1>4. ASSUME NEW k \in DOMAIN dicts, Last(k)
      PROVE  k = i
  <2>1. k \in Nat /\ i \in Nat /\ k <= i /\ i <= k
    BY <1>3, <1>4
  <2> QED
    BY <2>1
<1> HIDE DEF Last
<1>5. (CHOOSE k \in DOMAIN dicts : Last(k)) = i
  BY <1>3, <1>4
<1> QED
  BY <1>1, <1>2, <1>5

\* The value at a path is that of one of them.
LEMMA MergedHas ==
    ASSUME NEW dicts, \E n \in Nat : DOMAIN dicts = 1..n, NEW path \in DOMAIN Merged(dicts)
    PROVE  \E i \in DOMAIN dicts :
              path \in DOMAIN dicts[i] /\ Merged(dicts)[path] = dicts[i][path]
<1> DEFINE having == {i \in DOMAIN dicts : path \in DOMAIN dicts[i]}
<1>1. PICK n \in Nat : DOMAIN dicts = 1..n
  OBVIOUS
<1>2. having # {}
  BY DEF Merged
<1>3. PICK i \in having : \A j \in having : j <= i
  <2>1. having \in SUBSET (1..n)
    BY <1>1
  <2> HIDE DEF having
  <2> QED
    BY <1>2, <2>1, GreatestIndex
<1>4. i \in DOMAIN dicts /\ path \in DOMAIN dicts[i]
      /\ \A j \in DOMAIN dicts : path \in DOMAIN dicts[j] => j <= i
  BY <1>3
<1>5. DOMAIN dicts \subseteq Nat
  BY <1>1
<1> QED
  BY <1>4, <1>5, MergedLast

-----------------------------------------------------------------------------
\* A document and its template.

\* The template has a place for the value at the path: it is a constant
\* keyword only where it is that value.  What is skipped needs no place.
Takes(template, path, value) ==
    \/ value \in SKIP_VALUES
    \/ /\ path \in DOMAIN template
       /\ template[path] \in {"metrics", "default"} => value = template[path]

Fits(dict, template) ==
    IsDict(dict) /\ \A path \in DOMAIN dict : Takes(template, path, dict[path])

\* A value fits every field but the constant keywords, and these if it is their value.
LEMMA LeafFits ==
    ASSUME NEW value, NEW type, type \notin {"metrics", "default"} \/ value = type
    PROVE  Fits(Leaf(value), Leaf(type))
BY LeafFacts DEF Fits, Takes

\* A keyword takes every value.
LEMMA KeywordFits ==
    ASSUME NEW value
    PROVE  Fits(Leaf(value), Keyword)
BY LeafFits DEF Keyword

\* What is missing is skipped and fits anything.
LEMMA MissingFits ==
    ASSUME NEW template
    PROVE  Fits(Leaf(None), template)
BY LeafFacts DEF Fits, Takes, SKIP_VALUES

\* What fits the part of a template under a key
LEMMA TakesUnderKey ==
    ASSUME NEW template, \A key \in DOMAIN template : IsDict(template[key]),
           NEW key \in DOMAIN template, NEW path, NEW value,
           Takes(template[key], path, value)
    PROVE  Takes(Dict(template), <<key>> \o path, value)
BY DictFacts DEF Takes

\* Every child has its place among the children of the template.
LEMMA DictFits ==
    ASSUME NEW children, NEW template,
           \A key \in DOMAIN template : IsDict(template[key]),
           \A key \in DOMAIN children :
               key \in DOMAIN template /\ Fits(children[key], template[key])
    PROVE  Fits(Dict(children), Dict(template))
<1>1. \A key \in DOMAIN children : IsDict(children[key])
  BY DEF Fits
<1>2. IsDict(Dict(children))
  BY <1>1, DictFacts
<1>3. ASSUME NEW path \in DOMAIN Dict(children)
      PROVE  Takes(Dict(template), path, Dict(children)[path])
  <2>1. PICK key \in DOMAIN children : \E p \in DOMAIN children[key] : path = <<key>> \o p
    BY <1>1, DictFacts
  <2>2. PICK p \in DOMAIN children[key] : path = <<key>> \o p
    BY <2>1
  <2>3. Dict(children)[path] = children[key][p]
    BY <1>1, <2>2, DictFacts
  <2>4. Takes(template[key], p, children[key][p])
    BY DEF Fits
  <2> QED
    BY <2>2, <2>3, <2>4, TakesUnderKey
<1> QED
  BY <1>2, <1>3 DEF Fits

\* A dictionary at a path of one key, and of one key more
LEMMA AtKeyFits ==
    ASSUME NEW dict, NEW template, \A key \in DOMAIN template : IsDict(template[key]),
           NEW key \in DOMAIN template, Fits(dict, template[key])
    PROVE  Fits(At(<<key>>, dict), Dict(template))
<1>1. IsPath(<<key>>) /\ IsDict(dict)
  BY TuplePaths DEF Fits
<1>2. ASSUME NEW path \in DOMAIN At(<<key>>, dict)
      PROVE  Takes(Dict(template), path, At(<<key>>, dict)[path])
  <2>1. PICK p \in DOMAIN dict : path = <<key>> \o p
    BY <1>1, AtFacts
  <2>2. At(<<key>>, dict)[path] = dict[p]
    BY <1>1, <2>1, AtFacts
  <2>3. Takes(template[key], p, dict[p])
    BY DEF Fits
  <2> QED
    BY <2>1, <2>2, <2>3, TakesUnderKey
<1>3. IsDict(At(<<key>>, dict))
  BY <1>1, AtFacts
<1> QED
  BY <1>2, <1>3 DEF Fits

\* A dictionary at a path of more than one key fits if it fits below the first.
LEMMA AtPathFits ==
    ASSUME NEW dict, IsDict(dict), NEW template,
           \A key \in DOMAIN template : IsDict(template[key]),
           NEW key \in DOMAIN template, NEW rest, IsPath(rest),
           Fits(At(rest, dict), template[key])
    PROVE  Fits(At(<<key>> \o rest, dict), Dict(template))
<1>1. IsPath(<<key>>) /\ IsPath(<<key>> \o rest)
  BY TuplePaths, PathBehindKey
<1>2. ASSUME NEW path \in DOMAIN At(<<key>> \o rest, dict)
      PROVE  Takes(Dict(template), path, At(<<key>> \o rest, dict)[path])
  <2>1. PICK p \in DOMAIN dict : path = (<<key>> \o rest) \o p
    BY <1>1, AtFacts
  <2>2. At(<<key>> \o rest, dict)[path] = dict[p]
    BY <1>1, <2>1, AtFacts
  <2>3. path = <<key>> \o (rest \o p)
    BY <1>1, <2>1, PathsAssociate DEF IsDict
  <2>4. rest \o p \in DOMAIN At(rest, dict) /\ At(rest, dict)[rest \o p] = dict[p]
    BY AtFacts
  <2>5. Takes(template[key], rest \o p, dict[p])
    BY <2>4 DEF Fits
  <2> QED
    BY <2>2, <2>3, <2>5, TakesUnderKey
<1>3. IsDict(At(<<key>> \o rest, dict))
  BY <1>1, AtFacts
<1> QED
  BY <1>2, <1>3 DEF Fits

\* The parts of the template
LEMMA TemplateIsDict ==
    /\ IsDict(Keyword) /\ IsDict(MappedFloor) /\ IsDict(MappedArea) /\ IsDict(MappedDevice)
    /\ \A key \in DOMAIN EntityProperties : IsDict(EntityProperties[key])
    /\ \A key \in DOMAIN Properties : IsDict(Properties[key])
<1>1. IsDict(Keyword) /\ \A value : IsDict(Leaf(value))
  BY LeafFacts DEF Keyword
<1>2. IsDict(MappedFloor)
  BY <1>1, DictFacts DEF MappedFloor
<1>3. IsDict(MappedArea)
  BY <1>1, <1>2, DictFacts DEF MappedArea
<1>4. IsDict(MappedDevice)
  BY <1>1, <1>3, DictFacts DEF MappedDevice
<1>5. /\ IsDict(Dict([id |-> Keyword])) /\ IsDict(Dict([class |-> Keyword]))
      /\ IsDict(Dict([version |-> Keyword])) /\ IsDict(Dict([name |-> Keyword]))
  BY <1>1, DictFacts
<1>6. IsDict(Dict([string |-> Keyword, float |-> Leaf("float"),
                   boolean |-> Leaf("boolean"), datetime |-> Leaf("date"),
                   date |-> Leaf("date"), time |-> Leaf("date"),
                   integer |-> Leaf("integer")]))
  BY <1>1, DictFacts
<1>7. \A key \in DOMAIN EntityProperties : IsDict(EntityProperties[key])
  BY <1>1, <1>3, <1>4, <1>5, <1>6 DEF EntityProperties
<1>8. IsDict(Dict([entity |-> Dict(EntityProperties)]))
  <2>1. IsDict(Dict(EntityProperties))
    BY <1>7, DictFacts
  <2> QED
    BY <2>1, DictFacts
<1>9. /\ IsDict(Dict([type |-> Leaf("metrics"), dataset |-> Keyword,
                      namespace |-> Leaf("default")]))
      /\ IsDict(Dict([action |-> Keyword, type |-> Keyword, kind |-> Keyword]))
      /\ IsDict(Dict([architecture |-> Keyword, location |-> Leaf("geo_point"),
                      hostname |-> Keyword, name |-> Keyword,
                      os |-> Dict([name |-> Keyword])]))
  BY <1>1, <1>5, DictFacts
<1>10. \A key \in DOMAIN Properties : IsDict(Properties[key])
  BY <1>1, <1>5, <1>8, <1>9 DEF Properties
<1> QED
  BY <1>1, <1>2, <1>3, <1>4, <1>7, <1>10

\* entity_details.py makes what the template has places for.
LEMMA AreaFits ==
    ASSUME NEW area
    PROVE  Fits(AreaDict(area), MappedArea)
<1>1. Fits(Dict([id |-> Leaf(FloorOf[area]), name |-> Leaf("text")]), MappedFloor)
  BY KeywordFits, DictFits, TemplateIsDict DEF MappedFloor
<1>2. Fits(Dict([id |-> Leaf(area), name |-> Leaf("text"),
                 floor |-> IF FloorOf[area] = None THEN Leaf(None)
                           ELSE Dict([id |-> Leaf(FloorOf[area]), name |-> Leaf("text")])]),
           MappedArea)
  BY <1>1, KeywordFits, MissingFits, DictFits, TemplateIsDict DEF MappedArea
<1> QED
  BY <1>2, MissingFits DEF AreaDict

\* A device, with its area, has its places.
LEMMA DeviceFits ==
    ASSUME NEW device
    PROVE  Fits(DeviceDict(device), MappedDevice)
<1>1. Fits(AreaDict(device.area), MappedArea)
  BY AreaFits
<1>2. Fits(Dict([id |-> Leaf(device.id), name |-> Leaf("text"),
                 area |-> AreaDict(device.area), labels |-> Leaf(Listed(device.labels))]),
           MappedDevice)
  BY <1>1, KeywordFits, DictFits, TemplateIsDict DEF MappedDevice
<1> QED
  BY <1>2, MissingFits DEF DeviceDict

\* So has the entity, with or without a location.
LEMMA EntityFits ==
    ASSUME NEW entry, NEW state
    PROVE  Fits(EntityDict(entry, state), Dict(EntityProperties))
<1> DEFINE location == IF \A coordinate \in {state.latitude, state.longitude} :
                            coordinate \notin {None, 0}
                       THEN Leaf("point") ELSE <<>>
           children == [id |-> Leaf("text"), name |-> Leaf("text"), domain |-> Leaf("text"),
                        area |-> AreaDict(entry.area), device_class |-> Leaf("text"),
                        device |-> DeviceDict(entry.device),
                        labels |-> Leaf(Listed(entry.labels)),
                        platform |-> Leaf("text"), unit_of_measurement |-> Leaf("text"),
                        friendly_name |-> Leaf("text"), location |-> location]
<1>1. EntityDict(entry, state) = Dict(children)
  BY DEF EntityDict
<1>2. Fits(location, Leaf("geo_point"))
  <2>1. Fits(Leaf("point"), Leaf("geo_point"))
    BY LeafFits
  <2>2. Fits(<<>>, Leaf("geo_point"))
    BY DEF Fits, IsDict
  <2> QED
    BY <2>1, <2>2
<1> HIDE DEF location
<1>3. ASSUME NEW key \in DOMAIN children
      PROVE  key \in DOMAIN EntityProperties /\ Fits(children[key], EntityProperties[key])
  BY <1>2, AreaFits, DeviceFits, KeywordFits DEF EntityProperties
<1> HIDE DEF children
<1> QED
  BY <1>1, <1>3, DictFits, TemplateIsDict

\* Whatever a state is coerced to has its place among the types of values.
LEMMA CoercedFits ==
    ASSUME NEW value
    PROVE  Fits(Coerced(value), EntityProperties.valueas)
<1> DEFINE template == [string |-> Keyword, float |-> Leaf("float"),
                        boolean |-> Leaf("boolean"), datetime |-> Leaf("date"),
                        date |-> Leaf("date"), time |-> Leaf("date"),
                        integer |-> Leaf("integer")]
<1>1. EntityProperties.valueas = Dict(template)
  BY DEF EntityProperties
<1>2. \A key \in DOMAIN template : IsDict(template[key])
  BY LeafFacts DEF Keyword
<1>3. Fits(Dict([boolean |-> Leaf("true")]), Dict(template))
      /\ Fits(Dict([boolean |-> Leaf("false")]), Dict(template))
  BY <1>2, LeafFits, DictFits
<1>4. Fits(Dict([float |-> Leaf("number")]), Dict(template))
  BY <1>2, LeafFits, DictFits
<1>5. Fits(Dict([datetime |-> Leaf("datetime"), date |-> Leaf("date"), time |-> Leaf("time")]),
           Dict(template))
  BY <1>2, LeafFits, DictFits
<1>6. Fits(Dict([string |-> Leaf(value)]), Dict(template))
  BY <1>2, KeywordFits, DictFits
<1> HIDE DEF template
<1> QED
  BY <1>1, <1>3, <1>4, <1>5, <1>6 DEF Coerced

\* What one of the two parts of the template takes, the template takes: no path
\* is in both.
LEMMA MappedTakes ==
    /\ \A path, value : Takes(Dict(Properties), path, value) => Takes(Mapped, path, value)
    /\ \A path, value : Takes(At(<<"@timestamp">>, Leaf("date_nanos")), path, value)
                            => Takes(Mapped, path, value)
<1> DEFINE one == Dict(Properties)
           two == At(<<"@timestamp">>, Leaf("date_nanos"))
           parts == <<one, two>>
<1>1. DOMAIN parts = 1..2 /\ parts[1] = one /\ parts[2] = two /\ Mapped = Merged(parts)
  BY DEF Mapped
<1>2. ASSUME NEW path \in DOMAIN one
      PROVE  path \notin DOMAIN two
  <2>1. PICK key \in DOMAIN Properties : path[1] = key
    <3>1. PICK key \in DOMAIN Properties : \E p \in DOMAIN Properties[key] : path = <<key>> \o p
      BY TemplateIsDict, DictFacts
    <3>2. PICK p \in DOMAIN Properties[key] : path = <<key>> \o p
      BY <3>1
    <3> QED
      BY <3>2, TemplateIsDict, PathBehindKey DEF IsDict
  <2>2. key # "@timestamp"
    BY DEF Properties
  <2>3. IsPath(<<"@timestamp">>) /\ IsDict(Leaf("date_nanos"))
        /\ DOMAIN Leaf("date_nanos") = {<<>>}
    BY TuplePaths, LeafFacts
  <2>4. ASSUME NEW p \in DOMAIN two
        PROVE  p[1] = "@timestamp"
    <3>1. \E q \in DOMAIN Leaf("date_nanos") : p = <<"@timestamp">> \o q
      BY <2>3, AtFacts
    <3>2. p = <<"@timestamp">> \o <<>>
      BY <2>3, <3>1
    <3> QED
      BY <3>2, EmptyPath, PathBehindKey
  <2> QED
    BY <2>1, <2>2, <2>4
<1> HIDE DEF one, two, parts
<1>3. DOMAIN parts \subseteq Nat /\ 1 \in DOMAIN parts /\ 2 \in DOMAIN parts
  BY <1>1
<1>4. ASSUME NEW path \in DOMAIN one
      PROVE  path \in DOMAIN Mapped /\ Mapped[path] = one[path]
  <2>1. \A j \in DOMAIN parts : path \in DOMAIN parts[j] => j <= 1
    BY <1>1, <1>2
  <2>2. path \in DOMAIN parts[1]
    BY <1>1
  <2>3. path \in DOMAIN Merged(parts) /\ Merged(parts)[path] = parts[1][path]
    BY <1>3, <2>1, <2>2, MergedLast
  <2> QED
    BY <1>1, <2>3
<1>5. ASSUME NEW path \in DOMAIN two
      PROVE  path \in DOMAIN Mapped /\ Mapped[path] = two[path]
  <2>1. \A j \in DOMAIN parts : path \in DOMAIN parts[j] => j <= 2
    BY <1>1
  <2>2. path \in DOMAIN parts[2]
    BY <1>1
  <2>3. path \in DOMAIN Merged(parts) /\ Merged(parts)[path] = parts[2][path]
    BY <1>3, <2>1, <2>2, MergedLast
  <2> QED
    BY <1>1, <2>3
<1> QED
  BY <1>4, <1>5 DEF Takes, one, two

\* The parts of a document and their places
LEMMA EntityPartFits ==
    ASSUME NEW path, IsPath(path), NEW dict, IsDict(dict),
           Fits(At(path, dict), Dict(EntityProperties))
    PROVE  Fits(At(<<"hass">> \o (<<"entity">> \o path), dict), Dict(Properties))
<1> DEFINE template == [entity |-> Dict(EntityProperties)]
<1>1. \A key \in DOMAIN template : IsDict(template[key])
  BY TemplateIsDict, DictFacts
<1>2. "entity" \in DOMAIN template /\ template["entity"] = Dict(EntityProperties)
  OBVIOUS
<1>3. "hass" \in DOMAIN Properties /\ Properties["hass"] = Dict(template)
  BY DEF Properties
<1>4. IsPath(<<"entity">> \o path)
  BY PathBehindKey
<1> HIDE DEF template
<1>5. Fits(At(<<"entity">> \o path, dict), Dict(template))
  BY <1>1, <1>2, AtPathFits
<1> QED
  BY <1>3, <1>4, <1>5, TemplateIsDict, AtPathFits

\* A field beside the details of the entity.
LEMMA EntityFieldFits ==
    ASSUME NEW key \in DOMAIN EntityProperties, NEW dict, Fits(dict, EntityProperties[key])
    PROVE  Fits(At(<<"hass", "entity", key>>, dict), Dict(Properties))
<1>1. Fits(At(<<key>>, dict), Dict(EntityProperties))
  BY TemplateIsDict, AtKeyFits
<1>2. IsPath(<<key>>) /\ IsDict(dict)
  BY TuplePaths DEF Fits
<1>3. Fits(At(<<"hass">> \o (<<"entity">> \o <<key>>), dict), Dict(Properties))
  BY <1>1, <1>2, EntityPartFits
<1>4. <<"entity">> \o <<key>> = <<"entity", key>>
  BY TuplePaths
<1>5. <<"hass">> \o <<"entity", key>> = <<"hass", "entity", key>>
  BY TuplePaths
<1> QED
  BY <1>3, <1>4, <1>5

\* The details of the entity.
LEMMA EntityDictFits ==
    ASSUME NEW entry, NEW state
    PROVE  Fits(At(<<"hass", "entity">>, EntityDict(entry, state)), Dict(Properties))
<1> DEFINE template == [entity |-> Dict(EntityProperties)]
           dict == EntityDict(entry, state)
<1>1. \A key \in DOMAIN template : IsDict(template[key])
  BY TemplateIsDict, DictFacts
<1>2. "entity" \in DOMAIN template /\ template["entity"] = Dict(EntityProperties)
  OBVIOUS
<1>3. "hass" \in DOMAIN Properties /\ Properties["hass"] = Dict(template)
  BY DEF Properties
<1>4. Fits(dict, Dict(EntityProperties)) /\ IsDict(dict)
  BY EntityFits DEF Fits
<1> HIDE DEF template, dict
<1>5. Fits(At(<<"entity">>, dict), Dict(template))
  BY <1>1, <1>2, <1>4, AtKeyFits
<1>6. Fits(At(<<"hass">> \o <<"entity">>, dict), Dict(Properties))
  <2>1. IsPath(<<"entity">>)
    BY TuplePaths
  <2> QED
    BY <1>3, <1>4, <1>5, <2>1, TemplateIsDict, AtPathFits
<1>7. <<"hass">> \o <<"entity">> = <<"hass", "entity">>
  BY TuplePaths
<1> QED
  BY <1>6, <1>7 DEF dict

\* The object id.
LEMMA ObjectIdFits ==
    Fits(At(<<"hass", "entity", "object", "id">>, Leaf("text")), Dict(Properties))
<1> DEFINE template == [id |-> Keyword]
<1>1. \A key \in DOMAIN template : IsDict(template[key])
  BY TemplateIsDict
<1>2. "id" \in DOMAIN template /\ Fits(Leaf("text"), template["id"])
  BY KeywordFits
<1>3. "object" \in DOMAIN EntityProperties /\ EntityProperties["object"] = Dict(template)
  BY DEF EntityProperties
<1>4. IsDict(Leaf("text")) /\ IsPath(<<"id">>) /\ IsPath(<<"object", "id">>)
  BY LeafFacts, TuplePaths
<1> HIDE DEF template
<1>5. Fits(At(<<"id">>, Leaf("text")), Dict(template))
  BY <1>1, <1>2, AtKeyFits
<1>6. Fits(At(<<"object">> \o <<"id">>, Leaf("text")), Dict(EntityProperties))
  BY <1>3, <1>4, <1>5, TemplateIsDict, AtPathFits
<1>7. <<"object">> \o <<"id">> = <<"object", "id">>
  BY TuplePaths
<1>8. <<"entity">> \o <<"object", "id">> = <<"entity", "object", "id">>
  BY TuplePaths
<1>9. <<"hass">> \o <<"entity", "object", "id">> = <<"hass", "entity", "object", "id">>
  BY TuplePaths
<1> QED
  BY <1>4, <1>6, <1>7, <1>8, <1>9, EntityPartFits

\* The event.
LEMMA EventFits ==
    ASSUME NEW action, NEW type
    PROVE  Fits(At(<<"event">>, Dict([action |-> Leaf(action), kind |-> Leaf("event"),
                                      type |-> Leaf(type)])),
                Dict(Properties))
<1> DEFINE template == [action |-> Keyword, type |-> Keyword, kind |-> Keyword]
<1>1. "event" \in DOMAIN Properties /\ Properties["event"] = Dict(template)
  BY DEF Properties
<1>2. Fits(Dict([action |-> Leaf(action), kind |-> Leaf("event"), type |-> Leaf(type)]),
           Dict(template))
  BY KeywordFits, TemplateIsDict, DictFits
<1> HIDE DEF template
<1> QED
  BY <1>1, <1>2, TemplateIsDict, AtKeyFits

\* The names of the data stream, two of which are constant keywords.
LEMMA DataStreamFits ==
    Fits(At(<<"data_stream">>, Dict([type |-> Leaf("metrics"), dataset |-> Leaf("text"),
                                     namespace |-> Leaf("default")])),
         Dict(Properties))
<1> DEFINE template == [type |-> Leaf("metrics"), dataset |-> Keyword,
                        namespace |-> Leaf("default")]
<1>1. "data_stream" \in DOMAIN Properties /\ Properties["data_stream"] = Dict(template)
  BY DEF Properties
<1>2. \A key \in DOMAIN template : IsDict(template[key])
  BY LeafFacts, TemplateIsDict
<1>3. Fits(Dict([type |-> Leaf("metrics"), dataset |-> Leaf("text"),
                 namespace |-> Leaf("default")]), Dict(template))
  BY <1>2, KeywordFits, LeafFits, DictFits
<1> HIDE DEF template
<1> QED
  BY <1>1, <1>3, TemplateIsDict, AtKeyFits

\* A static field under a key, and under a key and another
LEMMA FieldTaken ==
    ASSUME NEW template, \A key \in DOMAIN template : IsDict(template[key]),
           NEW key \in DOMAIN template, template[key] = Keyword, NEW value
    PROVE  Takes(Dict(template), <<key>>, value)
<1>1. Takes(template[key], <<>>, value)
  BY LeafFacts DEF Takes, Keyword
<1>2. <<key>> \o <<>> = <<key>>
  BY TuplePaths
<1> QED
  BY <1>1, <1>2, TakesUnderKey

\* The static fields that are known, whichever these are.
LEMMA StaticFieldsTaken ==
    ASSUME NEW path \in Known, NEW value
    PROVE  Takes(Dict(Properties), path, value)
<1> DEFINE os == [name |-> Keyword]
           host == [architecture |-> Keyword, location |-> Leaf("geo_point"),
                    hostname |-> Keyword, name |-> Keyword, os |-> Dict(os)]
           agent == [version |-> Keyword]
<1>1. /\ "tags" \in DOMAIN Properties /\ Properties["tags"] = Keyword
      /\ "host" \in DOMAIN Properties /\ Properties["host"] = Dict(host)
      /\ "agent" \in DOMAIN Properties /\ Properties["agent"] = Dict(agent)
  BY DEF Properties
<1>2. IsDict(Keyword) /\ IsDict(Leaf("geo_point"))
  BY LeafFacts, TemplateIsDict
<1>3. (\A key \in DOMAIN os : IsDict(os[key])) /\ (\A key \in DOMAIN agent : IsDict(agent[key]))
  BY <1>2
<1>4. \A key \in DOMAIN host : IsDict(host[key])
  <2>1. IsDict(Dict(os))
    BY <1>3, DictFacts
  <2> HIDE DEF os
  <2> QED
    BY <1>2, <2>1
<1>5. Takes(Dict(Properties), <<"tags">>, value)
  BY <1>1, TemplateIsDict, FieldTaken
<1>6. Takes(Dict(Properties), <<"agent">> \o <<"version">>, value)
  <2>1. Takes(Dict(agent), <<"version">>, value)
    BY <1>3, FieldTaken
  <2> HIDE DEF agent
  <2> QED
    BY <1>1, <2>1, TemplateIsDict, TakesUnderKey
<1>7. ASSUME NEW key \in {"architecture", "hostname"}
      PROVE  Takes(Dict(Properties), <<"host">> \o <<key>>, value)
  <2>1. Takes(Dict(host), <<key>>, value)
    <3>1. key \in DOMAIN host /\ host[key] = Keyword
      OBVIOUS
    <3> HIDE DEF host
    <3> QED
      BY <1>4, <3>1, FieldTaken
  <2> HIDE DEF host
  <2> QED
    BY <1>1, <2>1, TemplateIsDict, TakesUnderKey
<1>8. Takes(Dict(Properties), <<"host">> \o <<"location">>, value)
  <2>1. Takes(Leaf("geo_point"), <<>>, value)
    BY LeafFacts DEF Takes
  <2>2. <<"location">> \o <<>> = <<"location">>
    BY TuplePaths
  <2>3. "location" \in DOMAIN host /\ host["location"] = Leaf("geo_point")
    OBVIOUS
  <2> HIDE DEF host
  <2>4. Takes(Dict(host), <<"location">>, value)
    BY <1>4, <2>1, <2>2, <2>3, TakesUnderKey
  <2> QED
    BY <1>1, <2>4, TemplateIsDict, TakesUnderKey
<1>9. Takes(Dict(Properties), <<"host">> \o (<<"os">> \o <<"name">>), value)
  <2>1. Takes(Dict(os), <<"name">>, value)
    BY <1>3, FieldTaken
  <2>2. "os" \in DOMAIN host /\ host["os"] = Dict(os)
    OBVIOUS
  <2> HIDE DEF host, os
  <2>3. Takes(Dict(host), <<"os">> \o <<"name">>, value)
    BY <1>4, <2>1, <2>2, TakesUnderKey
  <2> QED
    BY <1>1, <2>3, TemplateIsDict, TakesUnderKey
<1> HIDE DEF os, host, agent
<1>10. /\ <<"agent">> \o <<"version">> = <<"agent", "version">>
       /\ <<"host">> \o <<"architecture">> = <<"host", "architecture">>
       /\ <<"host">> \o <<"hostname">> = <<"host", "hostname">>
       /\ <<"host">> \o <<"location">> = <<"host", "location">>
  BY TuplePaths
<1>11. <<"os">> \o <<"name">> = <<"os", "name">>
  BY TuplePaths
<1>12. <<"host">> \o <<"os", "name">> = <<"host", "os", "name">>
  BY TuplePaths
<1> QED
  BY <1>5, <1>6, <1>7, <1>8, <1>9, <1>10, <1>11, <1>12, KnownIsStatic DEF AllStaticFields

-----------------------------------------------------------------------------
\* The attributes of a document.

\* The one path of the entry that an attribute makes
LEMMA AttributeEntryFacts ==
    ASSUME NEW attribute
    PROVE  /\ IsDict(AttributeEntry(attribute))
           /\ DOMAIN AttributeEntry(attribute) =
                IF FilterAttribute(attribute)
                THEN {<<NormalizeAttributeName(attribute.name)>>} ELSE {}
           /\ FilterAttribute(attribute) =>
                AttributeEntry(attribute)[<<NormalizeAttributeName(attribute.name)>>]
                    = ConvertSetToList(attribute.value)
<1>1. CASE ~FilterAttribute(attribute)
  BY <1>1 DEF AttributeEntry, IsDict
<1>2. CASE FilterAttribute(attribute)
  <2>1. PICK key, dict : /\ key = NormalizeAttributeName(attribute.name)
                         /\ dict = Leaf(ConvertSetToList(attribute.value))
    OBVIOUS
  <2>2. AttributeEntry(attribute) = At(<<key>>, dict)
    BY <1>2, <2>1 DEF AttributeEntry
  <2>3. /\ IsDict(dict) /\ DOMAIN dict = {<<>>}
        /\ dict[<<>>] = ConvertSetToList(attribute.value)
    BY <2>1, LeafFacts
  <2>4. IsPath(<<key>>)
    BY TuplePaths
  <2>5. <<key>> \o <<>> = <<key>>
    BY TuplePaths
  <2>6. IsDict(At(<<key>>, dict))
    BY <2>3, <2>4, AtFacts
  <2>7. DOMAIN At(<<key>>, dict) = {<<key>>}
    <3>1. \A path \in DOMAIN At(<<key>>, dict) : path = <<key>>
      BY <2>3, <2>4, <2>5, AtFacts
    <3>2. <<key>> \in DOMAIN At(<<key>>, dict)
      BY <2>3, <2>4, <2>5, AtFacts
    <3> QED
      BY <3>1, <3>2
  <2>8. At(<<key>>, dict)[<<key>>] = dict[<<>>]
    BY <2>3, <2>4, <2>5, AtFacts
  <2> QED
    BY <1>2, <2>1, <2>2, <2>3, <2>6, <2>7, <2>8
<1> QED
  BY <1>1, <1>2

\* A path of the attributes is the key of one that is allowed.
LEMMA AttributePaths ==
    ASSUME NEW attributes
    PROVE  /\ IsDict(StateToAttributes(attributes))
           /\ \A path \in DOMAIN StateToAttributes(attributes) :
                \E i \in DOMAIN attributes :
                    /\ FilterAttribute(attributes[i])
                    /\ path = <<NormalizeAttributeName(attributes[i].name)>>
<1> DEFINE entries == [i \in DOMAIN attributes |-> AttributeEntry(attributes[i])]
<1>1. StateToAttributes(attributes) = Merged(entries)
  BY DEF StateToAttributes
<1>2. ASSUME NEW path \in DOMAIN Merged(entries)
      PROVE  \E i \in DOMAIN attributes :
                /\ FilterAttribute(attributes[i])
                /\ path = <<NormalizeAttributeName(attributes[i].name)>>
  <2>1. PICK i \in DOMAIN attributes : path \in DOMAIN AttributeEntry(attributes[i])
    BY DEF Merged
  <2> QED
    BY <2>1, AttributeEntryFacts
<1>3. IsDict(Merged(entries))
  BY <1>2, TuplePaths DEF IsDict
<1> QED
  BY <1>1, <1>2, <1>3

\* Where the attributes are in the document
LEMMA AttributePathIs ==
    ASSUME NEW key
    PROVE  /\ IsAttribute(<<"hass", "entity", "attributes", key>>)
           /\ <<"hass", "entity", "attributes">> \o <<key>>
                = <<"hass", "entity", "attributes", key>>
<1>1. <<"hass", "entity", "attributes">> \o <<key>> = <<"hass", "entity", "attributes", key>>
  BY TuplePaths
<1>2. PICK path : path = <<"hass", "entity", "attributes", key>>
  OBVIOUS
<1>3. Len(path) = 4
  BY <1>2
<1>4. SubSeq(path, 1, 3) = <<"hass", "entity", "attributes">>
  <2>1. PICK prefix : prefix = <<"hass", "entity", "attributes">>
    OBVIOUS
  <2>2. PICK Keys : Keys = {"hass", "entity", "attributes", key}
    OBVIOUS
  <2>3. prefix \in Seq(Keys) /\ Len(prefix) = 3 /\ \A i \in 1..3 : path[i] \in Keys
    BY <1>2, <2>1, <2>2
  <2>4. /\ SubSeq(path, 1, 3) \in Seq(Keys)
        /\ Len(SubSeq(path, 1, 3)) = 3
        /\ \A i \in 1..3 : SubSeq(path, 1, 3)[i] = path[1 + i - 1]
    <3>1. /\ 1 \in Int /\ 3 \in Int
          /\ (IF 1 <= 3 THEN 3 - 1 + 1 ELSE 0) = 3
          /\ 3 - 1 + 1 = 3
      OBVIOUS
    <3> QED
      BY <2>3, <3>1, SubSeqProperties
  <2>5. \A i \in 1..3 : path[1 + i - 1] = prefix[i]
    BY <1>2, <2>1
  <2>6. SubSeq(path, 1, 3) = prefix
    BY <2>3, <2>4, <2>5, SeqEqual
  <2> QED
    BY <2>1, <2>6
<1> QED
  BY <1>1, <1>2, <1>3, <1>4 DEF IsAttribute

\* The attributes are where the template is dynamic.
LEMMA AttributesAreAttributes ==
    ASSUME NEW attributes,
           NEW path \in DOMAIN At(<<"hass", "entity", "attributes">>,
                                  StateToAttributes(attributes))
    PROVE  IsAttribute(path)
<1>1. IsPath(<<"hass", "entity", "attributes">>)
  BY TuplePaths
<1>2. PICK p \in DOMAIN StateToAttributes(attributes) :
        path = <<"hass", "entity", "attributes">> \o p
  BY <1>1, AttributePaths, AtFacts
<1>3. PICK key : p = <<key>>
  BY AttributePaths
<1> QED
  BY <1>2, <1>3, AttributePathIs

-----------------------------------------------------------------------------
\* The document.

\* The dictionaries that Format merges, one after another
FormatParts(entry, state) == <<
    At(<<"@timestamp">>, Leaf("datetime")),
    At(<<"event">>, Dict([action |-> Leaf(ToPublishReason[state.reason]),
                          kind |-> Leaf("event"),
                          type |-> Leaf(IF state.reason = "NO_CHANGE"
                                        THEN "info" ELSE "change")])),
    At(<<"hass", "entity">>, EntityDict(entry, state)),
    At(<<"hass", "entity", "attributes">>, StateToAttributes(state.attributes)),
    At(<<"hass", "entity", "value">>, Leaf(state.value)),
    At(<<"hass", "entity", "valueas">>, Coerced(state.value)),
    At(<<"hass", "entity", "object", "id">>, Leaf("text")),
    At(<<"data_stream">>, Dict([type |-> Leaf("metrics"), dataset |-> Leaf("text"),
                                namespace |-> Leaf("default")])),
    StaticFields>>

\* Format merges these parts.
LEMMA FormatIs ==
    ASSUME NEW entry, NEW state
    PROVE  Format(entry, state) = PrepareDict(Merged(FormatParts(entry, state)))
BY DEF Format, FormatParts

\* The time of the event has its place.
LEMMA TimestampTaken ==
    ASSUME NEW path \in DOMAIN At(<<"@timestamp">>, Leaf("datetime")), NEW value
    PROVE  Takes(Mapped, path, value)
<1>1. IsPath(<<"@timestamp">>) /\ <<"@timestamp">> \o <<>> = <<"@timestamp">>
  BY TuplePaths
<1>2. path = <<"@timestamp">> \o <<>>
  <2>1. PICK p \in DOMAIN Leaf("datetime") : path = <<"@timestamp">> \o p
    BY <1>1, LeafFacts, AtFacts
  <2> QED
    BY <2>1, LeafFacts
<1>3. IsDict(Leaf("date_nanos")) /\ DOMAIN Leaf("date_nanos") = {<<>>}
      /\ Leaf("date_nanos")[<<>>] = "date_nanos"
  BY LeafFacts
<1>4. path \in DOMAIN At(<<"@timestamp">>, Leaf("date_nanos"))
      /\ At(<<"@timestamp">>, Leaf("date_nanos"))[path] = "date_nanos"
  BY <1>1, <1>2, <1>3, AtFacts
<1>5. Takes(At(<<"@timestamp">>, Leaf("date_nanos")), path, value)
  BY <1>4 DEF Takes
<1> QED
  BY <1>5, MappedTakes

\* Each part of a document but the attributes has its places in the template.
LEMMA PartsFit ==
    ASSUME NEW entry, NEW state, NEW i \in 1..9, i # 4,
           NEW path \in DOMAIN FormatParts(entry, state)[i]
    PROVE  Takes(Mapped, path, FormatParts(entry, state)[i][path])
<1> DEFINE part == FormatParts(entry, state)[i]
<1>1. CASE i = 1
  <2>1. part = At(<<"@timestamp">>, Leaf("datetime"))
    BY <1>1 DEF FormatParts
  <2> QED
    BY <2>1, TimestampTaken
<1>2. CASE Fits(part, Dict(Properties))
  BY <1>2, MappedTakes DEF Fits
<1>3. CASE i = 2
  <2>1. Fits(part, Dict(Properties))
    BY <1>3, EventFits DEF FormatParts
  <2> QED
    BY <1>2, <2>1
<1>4. CASE i = 3
  <2>1. Fits(part, Dict(Properties))
    BY <1>4, EntityDictFits DEF FormatParts
  <2> QED
    BY <1>2, <2>1
<1>5. CASE i = 5
  <2>1. "value" \in DOMAIN EntityProperties
        /\ Fits(Leaf(state.value), EntityProperties["value"])
    BY KeywordFits DEF EntityProperties
  <2>2. part = At(<<"hass", "entity", "value">>, Leaf(state.value))
    BY <1>5 DEF FormatParts
  <2> QED
    BY <1>2, <2>1, <2>2, EntityFieldFits
<1>6. CASE i = 6
  <2>1. "valueas" \in DOMAIN EntityProperties
        /\ Fits(Coerced(state.value), EntityProperties["valueas"])
    BY CoercedFits DEF EntityProperties
  <2>2. part = At(<<"hass", "entity", "valueas">>, Coerced(state.value))
    BY <1>6 DEF FormatParts
  <2> QED
    BY <1>2, <2>1, <2>2, EntityFieldFits
<1>7. CASE i = 7
  <2>1. part = At(<<"hass", "entity", "object", "id">>, Leaf("text"))
    BY <1>7 DEF FormatParts
  <2> QED
    BY <1>2, <2>1, ObjectIdFits
<1>8. CASE i = 8
  <2>1. Fits(part, Dict(Properties))
    BY <1>8, DataStreamFits DEF FormatParts
  <2> QED
    BY <1>2, <2>1
<1>9. CASE i = 9
  <2>1. part = StaticFields
    BY <1>9 DEF FormatParts
  <2>2. path \in Known
    BY <2>1 DEF StaticFields
  <2> QED
    BY <2>1, <2>2, StaticFieldsTaken, MappedTakes
<1>10. \/ i = 1 \/ i = 2 \/ i = 3 \/ i = 5 \/ i = 6 \/ i = 7 \/ i = 8 \/ i = 9
  OBVIOUS
<1> QED
  BY <1>1, <1>3, <1>4, <1>5, <1>6, <1>7, <1>8, <1>9, <1>10

\* Every field has its place.
LEMMA FieldsAreMapped ==
    ASSUME NEW entry, NEW state, NEW path \in DOMAIN Format(entry, state)
    PROVE  \/ IsAttribute(path)
           \/ /\ path \in DOMAIN Mapped
              /\ Mapped[path] \in {"metrics", "default"} =>
                    Format(entry, state)[path] = Mapped[path]
<1> DEFINE parts == FormatParts(entry, state)
           value == Format(entry, state)[path]
<1>1. /\ path \in DOMAIN Merged(parts) /\ value = Merged(parts)[path]
      /\ value \notin SKIP_VALUES
  BY FormatIs DEF PrepareDict
<1>2. DOMAIN parts = 1..9
      /\ parts[4] = At(<<"hass", "entity", "attributes">>, StateToAttributes(state.attributes))
  BY DEF FormatParts
<1> HIDE DEF value
<1>3. PICK i \in DOMAIN parts : path \in DOMAIN parts[i] /\ value = parts[i][path]
  <2>1. \E n \in Nat : DOMAIN parts = 1..n
    BY <1>2
  <2> HIDE DEF parts
  <2> QED
    BY <1>1, <1>2, <2>1, MergedHas
<1>4. CASE i = 4
  BY <1>2, <1>3, <1>4, AttributesAreAttributes
<1>5. CASE i # 4
  <2>1. Takes(Mapped, path, value)
    BY <1>2, <1>3, <1>5, PartsFit
  <2> QED
    BY <1>1, <2>1 DEF Takes, value
<1> QED
  BY <1>4, <1>5

\* What is put at a path begins with it.
LEMMA PrefixStays ==
    ASSUME NEW prefix, IsPath(prefix), NEW dict, IsDict(dict),
           NEW path \in DOMAIN At(prefix, dict), NEW i \in 1..Len(prefix)
    PROVE  path[i] = prefix[i]
<1>1. PICK p \in DOMAIN dict : path = prefix \o p
  BY AtFacts
<1> QED
  BY <1>1, PathBehindPrefix DEF IsDict

\* Nothing that is merged later overwrites an attribute.
LEMMA AttributesStay ==
    ASSUME NEW entry, NEW state, NEW key, NEW j \in 5..9,
           <<"hass", "entity", "attributes", key>> \in DOMAIN FormatParts(entry, state)[j]
    PROVE  FALSE
<1>1. PICK path : path = <<"hass", "entity", "attributes", key>>
  OBVIOUS
<1>2. path[1] = "hass" /\ path[3] = "attributes"
  BY <1>1
<1>3. \A a, b, c, d : /\ 1 \in 1..Len(<<a>>) /\ 3 \in 1..Len(<<a, b, c>>)
                      /\ 3 \in 1..Len(<<a, b, c, d>>)
  OBVIOUS
<1>4. CASE j = 5
  <2>1. path \in DOMAIN At(<<"hass", "entity", "value">>, Leaf(state.value))
    BY <1>1, <1>4 DEF FormatParts
  <2>2. IsPath(<<"hass", "entity", "value">>) /\ 3 \in 1..Len(<<"hass", "entity", "value">>)
    BY <1>3, TuplePaths
  <2>3. path[3] = <<"hass", "entity", "value">>[3]
    BY <2>1, <2>2, LeafFacts, PrefixStays
  <2> QED
    BY <1>2, <2>3
<1>5. CASE j = 6
  <2>1. path \in DOMAIN At(<<"hass", "entity", "valueas">>, Coerced(state.value))
    BY <1>1, <1>5 DEF FormatParts
  <2>2. IsPath(<<"hass", "entity", "valueas">>) /\ 3 \in 1..Len(<<"hass", "entity", "valueas">>)
    BY <1>3, TuplePaths
  <2>3. path[3] = <<"hass", "entity", "valueas">>[3]
    BY <2>1, <2>2, CoercedFits, PrefixStays DEF Fits
  <2> QED
    BY <1>2, <2>3
<1>6. CASE j = 7
  <2>1. path \in DOMAIN At(<<"hass", "entity", "object", "id">>, Leaf("text"))
    BY <1>1, <1>6 DEF FormatParts
  <2>2. IsPath(<<"hass", "entity", "object", "id">>)
        /\ 3 \in 1..Len(<<"hass", "entity", "object", "id">>)
    BY <1>3, TuplePaths
  <2>3. path[3] = <<"hass", "entity", "object", "id">>[3]
    BY <2>1, <2>2, LeafFacts, PrefixStays
  <2> QED
    BY <1>2, <2>3
<1>7. CASE j = 8
  <2>1. PICK dict : /\ dict = Dict([type |-> Leaf("metrics"), dataset |-> Leaf("text"),
                                    namespace |-> Leaf("default")])
                    /\ path \in DOMAIN At(<<"data_stream">>, dict)
    BY <1>1, <1>7 DEF FormatParts
  <2>2. IsPath(<<"data_stream">>) /\ 1 \in 1..Len(<<"data_stream">>)
    BY <1>3, TuplePaths
  <2>3. IsDict(dict)
    BY <2>1, LeafFacts, DictFacts
  <2>4. path[1] = <<"data_stream">>[1]
    BY <2>1, <2>2, <2>3, PrefixStays
  <2> QED
    BY <1>2, <2>4
<1>8. CASE j = 9
  <2>1. path \in AllStaticFields
    BY <1>1, <1>8, KnownIsStatic DEF FormatParts, StaticFields
  <2>2. path[1] # "hass"
    BY <2>1 DEF AllStaticFields
  <2> QED
    BY <1>2, <2>2
<1>9. j = 5 \/ j = 6 \/ j = 7 \/ j = 8 \/ j = 9
  OBVIOUS
<1> QED
  BY <1>4, <1>5, <1>6, <1>7, <1>8, <1>9

\* Of the attributes with one key the last one stays.
LEMMA LastAttributeStays ==
    ASSUME NEW attributes, DOMAIN attributes \subseteq Nat, NEW i \in DOMAIN attributes,
           FilterAttribute(attributes[i]),
           \A j \in DOMAIN attributes : j > i /\ FilterAttribute(attributes[j]) =>
                NormalizeAttributeName(attributes[j].name)
                    # NormalizeAttributeName(attributes[i].name)
    PROVE  LET path == <<NormalizeAttributeName(attributes[i].name)>> IN
           /\ path \in DOMAIN StateToAttributes(attributes)
           /\ StateToAttributes(attributes)[path] = ConvertSetToList(attributes[i].value)
<1> DEFINE entries == [j \in DOMAIN attributes |-> AttributeEntry(attributes[j])]
<1>1. PICK path : path = <<NormalizeAttributeName(attributes[i].name)>>
  OBVIOUS
<1>2. StateToAttributes(attributes) = Merged(entries)
  BY DEF StateToAttributes
<1>3. /\ DOMAIN entries = DOMAIN attributes
      /\ \A j \in DOMAIN attributes : entries[j] = AttributeEntry(attributes[j])
  OBVIOUS
<1> HIDE DEF entries
<1>4. path \in DOMAIN entries[i] /\ entries[i][path] = ConvertSetToList(attributes[i].value)
  BY <1>1, <1>3, AttributeEntryFacts
<1>5. ASSUME NEW j \in DOMAIN attributes, path \in DOMAIN entries[j]
      PROVE  j <= i
  <2>1. /\ FilterAttribute(attributes[j])
        /\ path = <<NormalizeAttributeName(attributes[j].name)>>
    <3>1. path \in DOMAIN AttributeEntry(attributes[j])
      BY <1>3, <1>5
    <3>2. CASE FilterAttribute(attributes[j])
      <4>1. DOMAIN AttributeEntry(attributes[j])
                = {<<NormalizeAttributeName(attributes[j].name)>>}
        BY <3>2, AttributeEntryFacts
      <4> QED
        BY <3>1, <3>2, <4>1
    <3>3. CASE ~FilterAttribute(attributes[j])
      BY <3>1, <3>3, AttributeEntryFacts
    <3> QED
      BY <3>2, <3>3
  <2>2. NormalizeAttributeName(attributes[j].name) = NormalizeAttributeName(attributes[i].name)
    <3>1. path[1] = NormalizeAttributeName(attributes[j].name)
      BY <2>1
    <3> QED
      BY <1>1, <3>1
  <2>3. ~(j > i)
    BY <2>1, <2>2
  <2> QED
    BY <2>3
<1>6. path \in DOMAIN Merged(entries) /\ Merged(entries)[path] = entries[i][path]
  BY <1>3, <1>4, <1>5, MergedLast
<1> QED
  BY <1>1, <1>2, <1>4, <1>6

\* An attribute that stays among the attributes stays in the document.
LEMMA AttributesAreKept ==
    ASSUME NEW entry, NEW state, DOMAIN state.attributes \subseteq Nat,
           NEW i \in DOMAIN state.attributes, FilterAttribute(state.attributes[i]),
           state.attributes[i].value \in ValueKinds \ {"none", "empty_list", "empty_set"},
           \A j \in DOMAIN state.attributes :
                j > i /\ FilterAttribute(state.attributes[j]) =>
                    NormalizeAttributeName(state.attributes[j].name)
                        # NormalizeAttributeName(state.attributes[i].name)
    PROVE  LET key == NormalizeAttributeName(state.attributes[i].name)
               path == <<"hass", "entity", "attributes", key>>
           IN  /\ path \in DOMAIN Format(entry, state)
               /\ Format(entry, state)[path] = ConvertSetToList(state.attributes[i].value)
<1> DEFINE parts == FormatParts(entry, state)
<1>1. PICK key, value : /\ key = NormalizeAttributeName(state.attributes[i].name)
                        /\ value = ConvertSetToList(state.attributes[i].value)
  OBVIOUS
<1>2. PICK dict : dict = StateToAttributes(state.attributes)
  OBVIOUS
<1>3. PICK prefix : prefix = <<"hass", "entity", "attributes">>
  OBVIOUS
<1>4. PICK path : path = prefix \o <<key>>
  OBVIOUS
<1>5. path = <<"hass", "entity", "attributes", key>>
  BY <1>3, <1>4, AttributePathIs
<1>6. <<key>> \in DOMAIN dict /\ dict[<<key>>] = value
  BY <1>1, <1>2, LastAttributeStays
<1>7. IsPath(prefix) /\ IsDict(dict)
  BY <1>2, <1>3, TuplePaths, AttributePaths
<1>8. DOMAIN parts = 1..9 /\ parts[4] = At(prefix, dict)
  BY <1>2, <1>3 DEF FormatParts
<1>9. path \in DOMAIN parts[4] /\ parts[4][path] = value
  BY <1>4, <1>6, <1>7, <1>8, AtFacts
<1>10. ASSUME NEW j \in DOMAIN parts, path \in DOMAIN parts[j]
       PROVE  j <= 4
  <2>1. j \in 1..4 \/ j \in 5..9
    BY <1>8
  <2> QED
    BY <1>5, <1>10, <2>1, AttributesStay
<1>11. DOMAIN parts \subseteq Nat /\ 4 \in DOMAIN parts
  BY <1>8
<1>12. path \in DOMAIN Merged(parts) /\ Merged(parts)[path] = value
  <2> HIDE DEF parts
  <2> QED
    BY <1>9, <1>10, <1>11, MergedLast
<1>13. value \notin SKIP_VALUES
  BY <1>1, NoneIsNoValueKind DEF ConvertSetToList, SKIP_VALUES, ValueKinds
<1>14. path \in DOMAIN Format(entry, state) /\ Format(entry, state)[path] = value
  BY <1>12, <1>13, FormatIs DEF PrepareDict
<1> QED
  BY <1>1, <1>5, <1>14
============================================================================
