--------------------------- MODULE SubsequenceProofs ---------------------------
(***************************************************************************)
(* What the loops of Subsequences compute, for sequences of any length.    *)
(* Each is proved by induction over the positions, which the well-founded  *)
(* order of the numbers gives for any set of positions (UpTo).             *)
(***************************************************************************)
EXTENDS Subsequences, SequenceTheorems, FiniteSetTheorems, WellFoundedInduction, TLAPS

\* A set of numbers has a smallest element.
LEMMA Smallest ==
  ASSUME NEW T, T \subseteq Nat, T # {}
  PROVE  \E m \in T : \A n \in T : m <= n
  <1>1. PICK m \in T : \A n \in T : ~ (<<n, m>> \in OpToRel(<, Nat))
    BY NatLessThanWellFounded, WFMin
  <1>2. ASSUME NEW n \in T
        PROVE  m <= n
    <2>1. ~ (n < m)
      BY <1>1, <1>2 DEF OpToRel
    <2> QED BY <2>1
  <1> QED BY <1>2

\* Induction: a set with 0 that goes from each number to the next, up to N, has
\* all numbers up to N.
LEMMA UpTo ==
  ASSUME NEW N \in Nat, NEW G, 0 \in G, \A n \in 1..N : n - 1 \in G => n \in G
  PROVE  \A n \in 0..N : n \in G
  <1> DEFINE T == {n \in 0..N : n \notin G}
  <1> SUFFICES ASSUME T # {} PROVE FALSE
    OBVIOUS
  <1>1. T \subseteq Nat
    OBVIOUS
  <1>2. PICK n \in T : \A k \in T : n <= k
    BY <1>1, Smallest
  <1>3. n \in 1..N /\ n - 1 \notin T
    BY <1>2
  <1> QED BY <1>2, <1>3

\* kept is the list that Filter has made after n elements.
IsFilter(kept, seq, set, m) ==
  kept = [n \in 0..m |->
            IF n = 0 THEN << >>
            ELSE IF seq[n] \in set THEN Append(kept[n - 1], seq[n]) ELSE kept[n - 1]]

\* The loop of Filter can be run to any position.
LEMMA FilterExists ==
  ASSUME NEW seq, NEW set, NEW m \in Nat
  PROVE  \E kept : IsFilter(kept, seq, set, m)
  <1> DEFINE T == {n \in Nat : ~ \E kept : IsFilter(kept, seq, set, n)}
  <1> SUFFICES ASSUME T # {} PROVE FALSE
    OBVIOUS
  <1>1. PICK n \in T : \A k \in T : n <= k
    BY Smallest
  <1>2. n # 0
    <2>1. IsFilter([k \in 0..0 |-> << >>], seq, set, 0)
      BY DEF IsFilter
    <2> QED BY <2>1
  <1>3. n - 1 \in Nat /\ n - 1 \notin T
    BY <1>1, <1>2
  <1>4. PICK kept : IsFilter(kept, seq, set, n - 1)
    BY <1>3
  <1> DEFINE more ==
        [k \in 0..n |->
           IF k = n THEN IF seq[n] \in set THEN Append(kept[n - 1], seq[n]) ELSE kept[n - 1]
           ELSE kept[k]]
  <1> DEFINE next(f, k) ==
        IF k = 0 THEN << >>
        ELSE IF seq[k] \in set THEN Append(f[k - 1], seq[k]) ELSE f[k - 1]
  <1>5. \A k \in 0..(n - 1) : kept[k] = next(kept, k)
    BY <1>4 DEF IsFilter
  <1>6. ASSUME NEW k \in 0..n
        PROVE  more[k] = next(more, k)
    <2>1. k # 0 => k - 1 \in 0..(n - 1) /\ more[k - 1] = kept[k - 1]
      BY <1>2, <1>3
    <2>2. CASE k = n
      BY <1>2, <2>1, <2>2
    <2>3. CASE k # n
      <3>1. k \in 0..(n - 1) /\ more[k] = kept[k]
        BY <1>3, <2>3
      <3> QED BY <1>5, <2>1, <3>1
    <2> QED BY <2>2, <2>3
  <1>7. more = [k \in 0..n |-> next(more, k)]
    <2>1. \A k \in 0..n : more[k] = next(more, k)
      BY <1>6
    <2>2. more = [k \in 0..n |-> more[k]]
      OBVIOUS
    <2> HIDE DEF next, more
    <2> QED BY <2>1, <2>2
  <1>8. IsFilter(more, seq, set, n)
    BY <1>7 DEF IsFilter
  <1> QED BY <1>8

\* Filter by its loop.
LEMMA FilterLoop ==
  ASSUME NEW seq, NEW set, Len(seq) \in Nat
  PROVE  \E kept : IsFilter(kept, seq, set, Len(seq)) /\ Filter(seq, set) = kept[Len(seq)]
  <1> DEFINE kept == CHOOSE f : IsFilter(f, seq, set, Len(seq))
  <1>1. IsFilter(kept, seq, set, Len(seq))
    BY FilterExists
  <1>2. Filter(seq, set) = kept[Len(seq)]
    BY DEF Filter, IsFilter
  <1> QED BY <1>1, <1>2

\* How each turn of the loop goes on from the one before.
LEMMA FilterTurns ==
  ASSUME NEW seq, NEW set, NEW kept, Len(seq) \in Nat, IsFilter(kept, seq, set, Len(seq))
  PROVE  /\ kept[0] = << >>
         /\ \A n \in 1..Len(seq) :
              kept[n] = IF seq[n] \in set THEN Append(kept[n - 1], seq[n]) ELSE kept[n - 1]
  <1> DEFINE next(n) ==
        IF n = 0 THEN << >>
        ELSE IF seq[n] \in set THEN Append(kept[n - 1], seq[n]) ELSE kept[n - 1]
  <1>1. kept = [n \in 0..Len(seq) |-> next(n)]
    BY DEF IsFilter
  <1> HIDE DEF next
  <1>2. \A n \in 0..Len(seq) : kept[n] = next(n)
    BY <1>1
  <1> QED BY <1>2 DEF next
--------------------------------------------------------------------------------
(* How many elements of a kind there are *)

\* The positions up to n are n.
LEMMA UpToFinite ==
  ASSUME NEW n \in Nat
  PROVE  IsFiniteSet(1..n) /\ Cardinality(1..n) = n
  <1> DEFINE size == Cardinality(1..n)
  <1>1. n \in Int /\ 1 \in Int
    OBVIOUS
  <1>2. /\ IsFiniteSet(1..n)
        /\ size = IF 1 > n THEN 0 ELSE n - 1 + 1
    BY <1>1, FS_Interval, ZenonT(60)
  <1>3. (IF 1 > n THEN 0 ELSE n - 1 + 1) = n
    OBVIOUS
  <1> HIDE DEF size
  <1> QED BY <1>2, <1>3 DEF size

\* The positions of a kind are finitely many.
LEMMA NumberType ==
  ASSUME NEW seq, NEW set, Len(seq) \in Nat
  PROVE  /\ IsFiniteSet(Positions(seq, set))
         /\ Number(seq, set) \in Nat
         /\ Number(seq, set) <= Len(seq)
  <1>1. IsFiniteSet(1..Len(seq)) /\ Cardinality(1..Len(seq)) = Len(seq)
    BY UpToFinite
  <1>2. Positions(seq, set) \in SUBSET (1..Len(seq))
    BY DEF Positions
  <1>3. IsFiniteSet(Positions(seq, set)) /\ Cardinality(Positions(seq, set)) <= Len(seq)
    BY <1>1, <1>2, FS_Subset
  <1> QED BY <1>3, FS_CardinalityType DEF Number

\* An empty sequence has none; all elements are of the kind of everything.
LEMMA NumberEmpty == ASSUME NEW set PROVE Number(<< >>, set) = 0
  <1>1. Positions(<< >>, set) = {}
    BY DEF Positions
  <1> QED BY <1>1, FS_EmptySet DEF Number

\* Every element of a sequence is one of those it is made of.
LEMMA NumberAll ==
  ASSUME NEW S, NEW seq \in Seq(S)
  PROVE  Number(seq, S) = Len(seq)
  <1>1. Positions(seq, S) = 1..Len(seq)
    BY DEF Positions
  <1>2. Len(seq) \in Nat
    BY LenProperties
  <1> QED BY <1>1, <1>2, UpToFinite, ZenonT(60) DEF Number

\* One more element counts if it is of the kind.
LEMMA NumberAppend ==
  ASSUME NEW S, NEW seq \in Seq(S), NEW x \in S, NEW set
  PROVE  Number(Append(seq, x), set) = Number(seq, set) + (IF x \in set THEN 1 ELSE 0)
  <1>1. /\ Len(seq) \in Nat
        /\ Len(Append(seq, x)) = Len(seq) + 1
        /\ \A i \in 1..Len(seq) : Append(seq, x)[i] = seq[i]
        /\ Append(seq, x)[Len(seq) + 1] = x
    BY AppendProperties, LenProperties
  <1>2. Len(seq) + 1 \notin Positions(seq, set)
    BY <1>1 DEF Positions
  <1>3. CASE x \in set
    <2>1. Positions(Append(seq, x), set) = Positions(seq, set) \cup {Len(seq) + 1}
      BY <1>1, <1>3 DEF Positions
    <2> QED BY <1>1, <1>2, <1>3, <2>1, NumberType, FS_AddElement, ZenonT(60) DEF Number
  <1>4. CASE x \notin set
    <2>1. Positions(Append(seq, x), set) = Positions(seq, set)
      BY <1>1, <1>4 DEF Positions
    <2> QED BY <1>1, <1>4, <2>1, NumberType DEF Number
  <1> QED BY <1>3, <1>4

\* The numbers of two sequences add up.
LEMMA NumberConcat ==
  ASSUME NEW S, NEW a \in Seq(S), NEW b \in Seq(S), NEW set
  PROVE  Number(a \o b, set) = Number(a, set) + Number(b, set)
  <1> DEFINE first(n) == SubSeq(b, 1, n)
             G == {n \in 0..Len(b) :
                     Number(a \o first(n), set) = Number(a, set) + Number(first(n), set)}
  <1>1. Len(a) \in Nat /\ Len(b) \in Nat
    BY LenProperties
  <1>2. first(0) = << >> /\ first(Len(b)) = b /\ a \o << >> = a
    BY SubSeqProperties, ConcatEmptySeq
  <1>3. ASSUME NEW n \in 1..Len(b)
        PROVE  /\ n - 1 \in 0..Len(b)
               /\ first(n - 1) \in Seq(S) /\ b[n] \in S
               /\ first(n) = Append(first(n - 1), b[n])
               /\ a \o first(n) = Append(a \o first(n - 1), b[n])
    BY <1>1, <1>3
  <1> HIDE DEF first
  <1>4. 0 \in G
    <2>1. Number(a, set) \in Nat
      BY <1>1, NumberType
    <2>2. Number(first(0), set) = 0 /\ Number(a \o first(0), set) = Number(a, set)
      BY <1>2, NumberEmpty
    <2> QED BY <1>1, <2>1, <2>2
  <1>5. ASSUME NEW n \in 1..Len(b), n - 1 \in G
        PROVE  n \in G
    <2>1. first(n - 1) \in Seq(S) /\ a \o first(n - 1) \in Seq(S) /\ b[n] \in S
      BY <1>3, <1>5, ConcatProperties
    <2> DEFINE joined == a \o first(n - 1)
    <2>2. Number(Append(joined, b[n]), set) = Number(joined, set) + (IF b[n] \in set THEN 1 ELSE 0)
      <3>1. joined \in Seq(S) /\ b[n] \in S
        BY <2>1
      <3> HIDE DEF joined
      <3> QED BY <3>1, NumberAppend
    <2>3. Number(Append(first(n - 1), b[n]), set)
            = Number(first(n - 1), set) + (IF b[n] \in set THEN 1 ELSE 0)
      BY <2>1, NumberAppend
    <2>4. Number(a, set) \in Nat /\ Number(first(n - 1), set) \in Nat
      BY <1>1, <2>1, NumberType, LenProperties
    <2>5. /\ Number(a \o first(n), set) = Number(joined, set) + (IF b[n] \in set THEN 1 ELSE 0)
          /\ Number(first(n), set) = Number(first(n - 1), set) + (IF b[n] \in set THEN 1 ELSE 0)
          /\ Number(joined, set) = Number(a, set) + Number(first(n - 1), set)
      BY <1>3, <1>5, <2>2, <2>3
    <2> HIDE DEF joined
    <2>6. Number(a \o first(n), set) = Number(a, set) + Number(first(n), set)
      BY <2>4, <2>5
    <2> QED BY <2>6
  <1> HIDE DEF G
  <1>6. \A n \in 0..Len(b) : n \in G
    BY <1>1, <1>4, <1>5, UpTo
  <1>7. Len(b) \in G
    BY <1>1, <1>6
  <1> QED BY <1>2, <1>7 DEF G

\* Of a wider kind, or further on, there are no fewer.
LEMMA NumberUpTo ==
  ASSUME NEW seq, NEW m \in Nat, NEW n \in Nat, m <= n, n <= Len(seq), Len(seq) \in Nat,
         NEW set
  PROVE  Number(SubSeq(seq, 1, m), set) <= Number(SubSeq(seq, 1, n), set)
  <1>1. /\ Len(SubSeq(seq, 1, m)) = m /\ Len(SubSeq(seq, 1, n)) = n
        /\ \A i \in 1..m : SubSeq(seq, 1, m)[i] = seq[i]
        /\ \A i \in 1..n : SubSeq(seq, 1, n)[i] = seq[i]
    OBVIOUS
  <1>2. Positions(SubSeq(seq, 1, m), set) \in SUBSET Positions(SubSeq(seq, 1, n), set)
    BY <1>1 DEF Positions
  <1>3. IsFiniteSet(Positions(SubSeq(seq, 1, n), set))
    BY <1>1, NumberType
  <1> QED BY <1>2, <1>3, FS_Subset DEF Number

--------------------------------------------------------------------------------
(* What Filter keeps *)

\* What the loop of Filter returns: elements of the set, as often as they were
\* there.
LEMMA FilterKeeps ==
  ASSUME NEW S, NEW seq \in Seq(S), NEW set, NEW kind
  PROVE  /\ Filter(seq, set) \in Seq(S \cap set)
         /\ Number(Filter(seq, set), kind) = Number(seq, set \cap kind)
  <1>1. Len(seq) \in Nat
    BY LenProperties
  <1>2. PICK kept : IsFilter(kept, seq, set, Len(seq)) /\ Filter(seq, set) = kept[Len(seq)]
    BY <1>1, FilterLoop
  <1>3. /\ kept[0] = << >>
        /\ \A n \in 1..Len(seq) :
             kept[n] = IF seq[n] \in set THEN Append(kept[n - 1], seq[n]) ELSE kept[n - 1]
    BY <1>1, <1>2, FilterTurns
  <1> DEFINE first(n) == SubSeq(seq, 1, n)
             G == {n \in 0..Len(seq) :
                     /\ kept[n] \in Seq(S \cap set)
                     /\ Number(kept[n], kind) = Number(first(n), set \cap kind)}
  <1>4. first(0) = << >> /\ first(Len(seq)) = seq
    BY SubSeqProperties
  <1>5. ASSUME NEW n \in 1..Len(seq)
        PROVE  /\ n - 1 \in 0..Len(seq)
               /\ first(n - 1) \in Seq(S) /\ seq[n] \in S
               /\ first(n) = Append(first(n - 1), seq[n])
    BY <1>1, <1>5
  <1> HIDE DEF first
  <1>6. 0 \in G
    <2>1. Number(kept[0], kind) = 0 /\ Number(first(0), set \cap kind) = 0
      BY <1>3, <1>4, NumberEmpty
    <2>2. kept[0] \in Seq(S \cap set)
      BY <1>3
    <2> QED BY <1>1, <2>1, <2>2
  <1>7. ASSUME NEW n \in 1..Len(seq), n - 1 \in G
        PROVE  n \in G
    <2>1. Number(first(n), set \cap kind)
            = Number(first(n - 1), set \cap kind) + (IF seq[n] \in set \cap kind THEN 1 ELSE 0)
      <3>1. /\ first(n - 1) \in Seq(S) /\ seq[n] \in S
            /\ first(n) = Append(first(n - 1), seq[n])
        BY <1>5
      <3> QED BY <3>1, NumberAppend
    <2>2. Number(first(n - 1), set \cap kind) \in Nat
      BY <1>5, <1>7, NumberType, LenProperties
    <2>3. CASE seq[n] \in set
      <3>1. kept[n] = Append(kept[n - 1], seq[n]) /\ seq[n] \in S \cap set
        BY <1>3, <1>5, <1>7, <2>3
      <3>2. kept[n - 1] \in Seq(S \cap set)
        BY <1>7
      <3>3. Number(kept[n], kind)
              = Number(kept[n - 1], kind) + (IF seq[n] \in kind THEN 1 ELSE 0)
        BY <3>1, <3>2, NumberAppend
      <3>4. kept[n] \in Seq(S \cap set)
        BY <3>1, <3>2, AppendProperties
      <3> QED BY <1>5, <1>7, <2>1, <2>2, <2>3, <3>3, <3>4
    <2>4. CASE seq[n] \notin set
      <3>1. kept[n] = kept[n - 1]
        BY <1>3, <1>7, <2>4
      <3> QED BY <1>5, <1>7, <2>1, <2>2, <2>4, <3>1
    <2> QED BY <2>3, <2>4
  <1> HIDE DEF G
  <1>8. \A n \in 0..Len(seq) : n \in G
    BY <1>1, <1>6, <1>7, UpTo
  <1>9. Len(seq) \in G
    BY <1>1, <1>8
  <1> QED BY <1>2, <1>4, <1>9 DEF G

\* All elements kept are of the set.
LEMMA FilterType ==
  ASSUME NEW S, NEW seq \in Seq(S), NEW set
  PROVE  Filter(seq, set) \in Seq(S \cap set)
  BY FilterKeeps

\* The elements of the set are kept, as often as they were there.
LEMMA FilterNumber ==
  ASSUME NEW S, NEW seq \in Seq(S), NEW set, NEW kind
  PROVE  Number(Filter(seq, set), kind) = Number(seq, set \cap kind)
  <1>1. Filter(seq, set) \in Seq(S \cap set)
    BY FilterKeeps
  <1> QED BY <1>1, FilterKeeps

\* There is an element of a kind exactly when their number is not 0.
LEMMA NumberZero ==
  ASSUME NEW seq, NEW set, Len(seq) \in Nat
  PROVE  Number(seq, set) # 0 <=> \E i \in 1..Len(seq) : seq[i] \in set
  <1>1. Number(seq, set) = 0 <=> Positions(seq, set) = {}
    BY NumberType, FS_EmptySet DEF Number
  <1> QED BY <1>1 DEF Positions

\* What Filter keeps was there and is in the set; all of that is kept.
LEMMA FilterMembers ==
  ASSUME NEW S, NEW seq \in Seq(S), NEW set, NEW x
  PROVE  (\E i \in 1..Len(Filter(seq, set)) : Filter(seq, set)[i] = x)
           <=> x \in set /\ \E i \in 1..Len(seq) : seq[i] = x
  <1> DEFINE kept == Filter(seq, set)
             one == {x}
  <1>0. one = {x}
    OBVIOUS
  <1> HIDE DEF one
  <1>1. kept \in Seq(S \cap set) /\ Number(kept, one) = Number(seq, set \cap one)
    BY FilterType, FilterNumber
  <1> HIDE DEF kept
  <1>2. Len(kept) \in Nat /\ Len(seq) \in Nat
    BY <1>1, LenProperties
  <1>3. Number(kept, one) # 0 <=> \E i \in 1..Len(kept) : kept[i] \in one
    BY <1>2, NumberZero
  <1>4. Number(seq, set \cap one) # 0 <=> \E i \in 1..Len(seq) : seq[i] \in set \cap one
    BY <1>2, NumberZero
  <1>5. (\E i \in 1..Len(kept) : kept[i] = x) <=> x \in set /\ \E i \in 1..Len(seq) : seq[i] = x
    BY <1>0, <1>1, <1>3, <1>4
  <1> QED BY <1>5 DEF kept

\* Filter by a set of all elements changes nothing.
LEMMA FilterAll ==
  ASSUME NEW S, NEW seq \in Seq(S), NEW set, \A i \in 1..Len(seq) : seq[i] \in set
  PROVE  Filter(seq, set) = seq
  <1>1. Len(seq) \in Nat
    BY LenProperties
  <1>2. PICK kept : IsFilter(kept, seq, set, Len(seq)) /\ Filter(seq, set) = kept[Len(seq)]
    BY <1>1, FilterLoop
  <1>3. /\ kept[0] = << >>
        /\ \A n \in 1..Len(seq) :
             kept[n] = IF seq[n] \in set THEN Append(kept[n - 1], seq[n]) ELSE kept[n - 1]
    BY <1>1, <1>2, FilterTurns
  <1> DEFINE first(n) == SubSeq(seq, 1, n)
             G == {n \in 0..Len(seq) : kept[n] = first(n)}
  <1>4. first(0) = << >> /\ first(Len(seq)) = seq
    BY SubSeqProperties
  <1>5. \A n \in 1..Len(seq) : n - 1 \in 0..Len(seq) /\ first(n) = Append(first(n - 1), seq[n])
    BY <1>1
  <1> HIDE DEF first
  <1>6. 0 \in G
    BY <1>1, <1>3, <1>4
  <1>7. ASSUME NEW n \in 1..Len(seq), n - 1 \in G
        PROVE  n \in G
    <2>1. kept[n] = Append(kept[n - 1], seq[n])
      BY <1>3, <1>7
    <2>2. kept[n - 1] = first(n - 1) /\ first(n) = Append(first(n - 1), seq[n])
      BY <1>5, <1>7
    <2>3. kept[n] = first(n) /\ n \in 0..Len(seq)
      BY <1>1, <2>1, <2>2
    <2> QED BY <2>3
  <1> HIDE DEF G
  <1>8. \A n \in 0..Len(seq) : n \in G
    BY <1>1, <1>6, <1>7, UpTo
  <1>9. Len(seq) \in G
    BY <1>1, <1>8
  <1> QED BY <1>2, <1>4, <1>9 DEF G

\* One element more is kept, or it is not.
LEMMA FilterAppend ==
  ASSUME NEW S, NEW seq \in Seq(S), NEW x \in S, NEW set
  PROVE  Filter(Append(seq, x), set)
           = IF x \in set THEN Append(Filter(seq, set), x) ELSE Filter(seq, set)
  <1> DEFINE size == Len(seq)
             more == Append(seq, x)
  <1>1. /\ size \in Nat /\ Len(more) = size + 1 /\ more[size + 1] = x
        /\ \A n \in 1..size : more[n] = seq[n]
    BY AppendProperties, LenProperties
  <1> HIDE DEF size, more
  <1>2. PICK kept : IsFilter(kept, seq, set, Len(seq)) /\ Filter(seq, set) = kept[Len(seq)]
    BY <1>1, FilterLoop DEF size
  <1>3. /\ kept[0] = << >>
        /\ \A n \in 1..size :
             kept[n] = IF seq[n] \in set THEN Append(kept[n - 1], seq[n]) ELSE kept[n - 1]
    BY <1>1, <1>2, FilterTurns DEF size
  <1>4. PICK longer : IsFilter(longer, more, set, Len(more)) /\ Filter(more, set) = longer[Len(more)]
    BY <1>1, FilterLoop
  <1>5. /\ longer[0] = << >>
        /\ \A n \in 1..(size + 1) :
             longer[n] = IF more[n] \in set THEN Append(longer[n - 1], more[n]) ELSE longer[n - 1]
    BY <1>1, <1>4, FilterTurns
  <1> DEFINE G == {n \in 0..size : longer[n] = kept[n]}
  <1>6. 0 \in G
    BY <1>1, <1>3, <1>5
  <1>7. ASSUME NEW n \in 1..size, n - 1 \in G
        PROVE  n \in G
    <2>1. n \in 1..(size + 1) /\ more[n] = seq[n] /\ longer[n - 1] = kept[n - 1]
      BY <1>1, <1>7
    <2>2. longer[n] = kept[n]
      BY <1>3, <1>5, <2>1
    <2> QED BY <2>2, <1>1
  <1> HIDE DEF G
  <1>8. \A n \in 0..size : n \in G
    BY <1>1, <1>6, <1>7, UpTo
  <1>9. longer[size] = kept[size]
    BY <1>1, <1>8 DEF G
  <1>10. size + 1 \in 1..(size + 1) /\ (size + 1) - 1 = size
    BY <1>1
  <1>11. longer[size + 1] = IF x \in set THEN Append(kept[size], x) ELSE kept[size]
    BY <1>1, <1>5, <1>9, <1>10
  <1> QED BY <1>1, <1>2, <1>4, <1>11 DEF size, more
--------------------------------------------------------------------------------
(* What Distinct keeps *)

\* The next list of the loop of Distinct, at its turn n.
WithNew(before, seq, n) ==
  IF \E i \in 1..(n - 1) : seq[i] = seq[n] THEN before ELSE Append(before, seq[n])

\* seen is the list that Distinct has made after n elements.
IsDistinct(seen, seq, m) ==
  seen = [n \in 0..m |-> IF n = 0 THEN << >> ELSE WithNew(seen[n - 1], seq, n)]

\* The loop of Distinct can be run to any position.
LEMMA DistinctExists ==
  ASSUME NEW seq, NEW m \in Nat
  PROVE  \E seen : IsDistinct(seen, seq, m)
  <1> DEFINE G == {n \in 0..m : \E seen : IsDistinct(seen, seq, n)}
  <1>1. 0 \in G
    <2>1. IsDistinct([k \in 0..0 |-> << >>], seq, 0)
      BY DEF IsDistinct
    <2> QED BY <2>1
  <1>2. ASSUME NEW n \in 1..m, n - 1 \in G
        PROVE  n \in G
    <2>1. PICK seen : IsDistinct(seen, seq, n - 1)
      BY <1>2
    <2> DEFINE more == [k \in 0..n |-> IF k = n THEN WithNew(seen[n - 1], seq, n) ELSE seen[k]]
               next(f, k) == IF k = 0 THEN << >> ELSE WithNew(f[k - 1], seq, k)
    <2>2. \A k \in 0..(n - 1) : seen[k] = next(seen, k)
      BY <2>1 DEF IsDistinct
    <2>3. ASSUME NEW k \in 0..n
          PROVE  more[k] = next(more, k)
      <3>1. k # 0 => k - 1 \in 0..(n - 1) /\ more[k - 1] = seen[k - 1]
        OBVIOUS
      <3>2. CASE k = n
        BY <3>1, <3>2
      <3>3. CASE k # n
        <4>1. k \in 0..(n - 1) /\ more[k] = seen[k]
          BY <3>3
        <4> QED BY <2>2, <3>1, <4>1
      <3> QED BY <3>2, <3>3
    <2>4. more = [k \in 0..n |-> next(more, k)]
      <3>1. \A k \in 0..n : more[k] = next(more, k)
        BY <2>3
      <3>2. more = [k \in 0..n |-> more[k]]
        OBVIOUS
      <3> HIDE DEF next, more
      <3> QED BY <3>1, <3>2
    <2>5. IsDistinct(more, seq, n)
      BY <2>4 DEF IsDistinct
    <2> QED BY <2>5
  <1> HIDE DEF G
  <1>3. \A n \in 0..m : n \in G
    BY <1>1, <1>2, UpTo
  <1>4. m \in G
    BY <1>3
  <1> QED BY <1>4 DEF G

\* Distinct by its loop, and how each turn of it goes on.
LEMMA DistinctLoop ==
  ASSUME NEW seq, Len(seq) \in Nat
  PROVE  \E seen :
           /\ Distinct(seq) = seen[Len(seq)]
           /\ seen[0] = << >>
           /\ \A n \in 1..Len(seq) : seen[n] = WithNew(seen[n - 1], seq, n)
  <1> DEFINE seen == CHOOSE f : IsDistinct(f, seq, Len(seq))
             next(n) == IF n = 0 THEN << >> ELSE WithNew(seen[n - 1], seq, n)
  <1>1. IsDistinct(seen, seq, Len(seq))
    BY DistinctExists
  <1>2. Distinct(seq) = seen[Len(seq)]
    BY DEF Distinct, IsDistinct, WithNew
  <1> HIDE DEF seen
  <1>3. seen = [n \in 0..Len(seq) |-> next(n)]
    BY <1>1 DEF IsDistinct
  <1> HIDE DEF next
  <1>4. \A n \in 0..Len(seq) : seen[n] = next(n)
    BY <1>3
  <1> QED BY <1>2, <1>4 DEF next

\* An element is in the sequence.
Has(seq, x) == \E i \in 1..Len(seq) : seq[i] = x

\* The loop of Distinct keeps elements and makes none.
LEMMA DistinctType ==
  ASSUME NEW S, NEW seq \in Seq(S)
  PROVE  Distinct(seq) \in Seq(S)
  <1>1. Len(seq) \in Nat
    BY LenProperties
  <1>2. PICK seen :
          /\ Distinct(seq) = seen[Len(seq)]
          /\ seen[0] = << >>
          /\ \A n \in 1..Len(seq) : seen[n] = WithNew(seen[n - 1], seq, n)
    BY <1>1, DistinctLoop
  <1> DEFINE G == {n \in 0..Len(seq) : seen[n] \in Seq(S)}
  <1>3. 0 \in G
    <2>1. << >> \in Seq(S) /\ 0 \in 0..Len(seq)
      BY <1>1
    <2>2. seen[0] \in Seq(S)
      BY <1>2, <2>1
    <2> QED BY <2>1, <2>2, Zenon
  <1>4. ASSUME NEW n \in 1..Len(seq), n - 1 \in G
        PROVE  n \in G
    <2> DEFINE before == seen[n - 1]
    <2>1. before \in Seq(S)
      BY <1>4
    <2>2. seen[n] = WithNew(before, seq, n) /\ seq[n] \in S
      BY <1>1, <1>2
    <2> HIDE DEF before
    <2>3. Append(before, seq[n]) \in Seq(S)
      BY <2>1, <2>2, AppendProperties
    <2>4. seen[n] \in Seq(S)
      BY <2>1, <2>2, <2>3 DEF WithNew
    <2> QED BY <1>4, <2>4
  <1> HIDE DEF G
  <1>5. \A n \in 0..Len(seq) : n \in G
    BY <1>1, <1>3, <1>4, UpTo
  <1>6. Len(seq) \in G
    BY <1>1, <1>5
  <1> QED BY <1>2, <1>6 DEF G
--------------------------------------------------------------------------------
(* Induction over sequences, and what Fold computes *)

\* Appending to the second of two sequences is appending to both.
LEMMA ConcatAppend ==
  ASSUME NEW S, NEW a \in Seq(S), NEW b \in Seq(S), NEW x \in S
  PROVE  a \o Append(b, x) = Append(a \o b, x)
  <1>1. Append(b, x) = b \o <<x>> /\ <<x>> \in Seq(S)
    BY AppendIsConcat
  <1>2. Append(a \o b, x) = (a \o b) \o <<x>>
    BY AppendIsConcat, ConcatProperties
  <1> QED BY <1>1, <1>2, ConcatAssociative

\* Induction: a set with the empty sequence that goes from each sequence to those
\* of one more element has every sequence.
LEMMA EverySequence ==
  ASSUME NEW S, NEW G, << >> \in G,
         \A seq \in Seq(S) : seq \in G => \A x \in S : Append(seq, x) \in G
  PROVE  \A seq \in Seq(S) : seq \in G
  <1> SUFFICES ASSUME NEW seq \in Seq(S) PROVE seq \in G
    OBVIOUS
  <1> DEFINE first(n) == SubSeq(seq, 1, n)
             T == {n \in 0..Len(seq) : first(n) \in G}
  <1>1. Len(seq) \in Nat
    BY LenProperties
  <1>2. 0 \in T
    <2>1. first(0) = << >>
      <3>1. 1 \in Int /\ 0 \in Int /\ 0 < 1
        OBVIOUS
      <3> QED BY <3>1, SubSeqEmpty
    <2>2. first(0) \in G
      BY <2>1
    <2>3. 0 \in 0..Len(seq)
      BY <1>1
    <2> HIDE DEF first
    <2> QED BY <2>2, <2>3
  <1>3. ASSUME NEW n \in 1..Len(seq), n - 1 \in T
        PROVE  n \in T
    <2>2. first(n - 1) \in Seq(S) /\ seq[n] \in S
      <3>1. \A i \in 1..(n - 1) : seq[i] \in S
        BY <1>1, ElementOfSeq
      <3>2. n - 1 \in Int /\ 1 \in Int
        BY <1>1
      <3> QED BY <3>1, <3>2, SubSeqProperties, ElementOfSeq
    <2>1. first(n) = Append(first(n - 1), seq[n])
      <3>1. first(n) = first(n - 1) \o <<seq[n]>>
        <4>1. 1 \in 1..Len(seq)
          BY <1>1
        <4>2. SubSeq(seq, 1, n) = SubSeq(seq, 1, n - 1) \o <<seq[n]>>
          BY <4>1, SubSeqRecursiveSecond
        <4> QED BY <4>2
      <3> QED BY <2>2, <3>1, AppendIsConcat
    <2>3. first(n) \in G
      BY <1>3, <2>1, <2>2
    <2> QED BY <1>1, <2>3
  <1>4. Len(seq) \in T
    <2> HIDE DEF T
    <2>1. \A n \in 0..Len(seq) : n \in T
      BY <1>1, <1>2, <1>3, UpTo
    <2> QED BY <2>1, <1>1
  <1>5. first(Len(seq)) = seq
    BY SubSeqFull
  <1> QED BY <1>4, <1>5

\* after is the list of values that Fold has had after n elements.
IsFold(after, step, base, seq, m) ==
  after = [n \in 0..m |-> IF n = 0 THEN base ELSE step[after[n - 1]][seq[n]]]

\* The loop of Fold can be run to any position.
LEMMA FoldExists ==
  ASSUME NEW step, NEW base, NEW seq, NEW m \in Nat
  PROVE  \E after : IsFold(after, step, base, seq, m)
  <1> DEFINE T == {n \in Nat : ~ \E after : IsFold(after, step, base, seq, n)}
  <1> SUFFICES ASSUME T # {} PROVE FALSE
    OBVIOUS
  <1>1. PICK n \in T : \A k \in T : n <= k
    BY Smallest
  <1>2. n # 0
    <2>1. IsFold([k \in 0..0 |-> base], step, base, seq, 0)
      BY DEF IsFold
    <2> QED BY <2>1
  <1>3. n - 1 \in Nat /\ n - 1 \notin T
    BY <1>1, <1>2
  <1>4. PICK after : IsFold(after, step, base, seq, n - 1)
    BY <1>3
  <1> DEFINE more == [k \in 0..n |-> IF k = n THEN step[after[n - 1]][seq[n]] ELSE after[k]]
             next(f, k) == IF k = 0 THEN base ELSE step[f[k - 1]][seq[k]]
  <1>5. \A k \in 0..(n - 1) : after[k] = next(after, k)
    BY <1>4 DEF IsFold
  <1>6. ASSUME NEW k \in 0..n
        PROVE  more[k] = next(more, k)
    <2>1. k # 0 => k - 1 \in 0..(n - 1) /\ more[k - 1] = after[k - 1]
      BY <1>2, <1>3
    <2>2. CASE k = n
      BY <1>2, <2>1, <2>2
    <2>3. CASE k # n
      <3>1. k \in 0..(n - 1) /\ more[k] = after[k]
        BY <1>3, <2>3
      <3> QED BY <1>5, <2>1, <3>1
    <2> QED BY <2>2, <2>3
  <1>7. more = [k \in 0..n |-> next(more, k)]
    <2>1. \A k \in 0..n : more[k] = next(more, k)
      BY <1>6
    <2>2. more = [k \in 0..n |-> more[k]]
      OBVIOUS
    <2> HIDE DEF next, more
    <2> QED BY <2>1, <2>2
  <1>8. IsFold(more, step, base, seq, n)
    BY <1>7 DEF IsFold
  <1> QED BY <1>8

\* How each turn of the loop goes on from the one before.
LEMMA FoldTurns ==
  ASSUME NEW step, NEW base, NEW seq, NEW after, NEW m \in Nat, IsFold(after, step, base, seq, m)
  PROVE  /\ after[0] = base
         /\ \A n \in 1..m : after[n] = step[after[n - 1]][seq[n]]
  <1> DEFINE next(n) == IF n = 0 THEN base ELSE step[after[n - 1]][seq[n]]
  <1>1. after = [n \in 0..m |-> next(n)]
    BY DEF IsFold
  <1> HIDE DEF next
  <1>2. \A n \in 0..m : after[n] = next(n)
    BY <1>1
  <1> QED BY <1>2 DEF next

\* Fold by its loop.
LEMMA FoldLoop ==
  ASSUME NEW step, NEW base, NEW seq, Len(seq) \in Nat
  PROVE  \E after : IsFold(after, step, base, seq, Len(seq)) /\ Fold(step, base, seq) = after[Len(seq)]
  <1> DEFINE after == CHOOSE f : IsFold(f, step, base, seq, Len(seq))
  <1>1. IsFold(after, step, base, seq, Len(seq))
    BY FoldExists
  <1>2. Fold(step, base, seq) = after[Len(seq)]
    BY DEF Fold, IsFold
  <1> QED BY <1>1, <1>2

\* Over nothing, the value stays.
LEMMA FoldEmpty ==
  ASSUME NEW step, NEW base
  PROVE  Fold(step, base, << >>) = base
  <1>1. Len(<< >>) = 0
    OBVIOUS
  <1>2. PICK after : IsFold(after, step, base, << >>, 0) /\ Fold(step, base, << >>) = after[0]
    BY <1>1, FoldLoop
  <1> QED BY <1>2, FoldTurns

\* One more element is one more turn.
LEMMA FoldAppend ==
  ASSUME NEW S, NEW seq \in Seq(S), NEW x \in S, NEW step, NEW base
  PROVE  Fold(step, base, Append(seq, x)) = step[Fold(step, base, seq)][x]
  <1> DEFINE size == Len(seq)
             more == Append(seq, x)
  <1>1. /\ size \in Nat /\ Len(more) = size + 1 /\ more[size + 1] = x
        /\ \A n \in 1..size : more[n] = seq[n]
    BY AppendProperties, LenProperties
  <1> HIDE DEF size, more
  <1>2. PICK after : IsFold(after, step, base, seq, size) /\ Fold(step, base, seq) = after[size]
    BY <1>1, FoldLoop DEF size
  <1>3. after[0] = base /\ \A n \in 1..size : after[n] = step[after[n - 1]][seq[n]]
    BY <1>1, <1>2, FoldTurns
  <1>4. PICK longer : /\ IsFold(longer, step, base, more, size + 1)
                      /\ Fold(step, base, more) = longer[size + 1]
    BY <1>1, FoldLoop
  <1>5. longer[0] = base /\ \A n \in 1..(size + 1) : longer[n] = step[longer[n - 1]][more[n]]
    <2>1. size + 1 \in Nat
      BY <1>1
    <2> QED BY <1>4, <2>1, FoldTurns
  <1> DEFINE G == {n \in 0..size : longer[n] = after[n]}
  <1>6. 0 \in G
    BY <1>1, <1>3, <1>5
  <1>7. ASSUME NEW n \in 1..size, n - 1 \in G
        PROVE  n \in G
    <2>1. n \in 1..(size + 1) /\ more[n] = seq[n] /\ longer[n - 1] = after[n - 1]
      BY <1>1, <1>7
    <2>2. longer[n] = after[n]
      BY <1>3, <1>5, <2>1
    <2> QED BY <2>2, <1>1
  <1> HIDE DEF G
  <1>8. \A n \in 0..size : n \in G
    BY <1>1, <1>6, <1>7, UpTo
  <1>9. longer[size] = after[size]
    BY <1>1, <1>8 DEF G
  <1>10. size + 1 \in 1..(size + 1) /\ (size + 1) - 1 = size
    BY <1>1
  <1>11. longer[size + 1] = step[after[size]][x]
    BY <1>1, <1>5, <1>9, <1>10
  <1> QED BY <1>2, <1>4, <1>11 DEF more

\* A fold stays where each of its turns does.
LEMMA FoldType ==
  ASSUME NEW S, NEW V, NEW base \in V, NEW step,
         \A v \in V : \A x \in S : step[v][x] \in V
  PROVE  \A seq \in Seq(S) : Fold(step, base, seq) \in V
  <1> DEFINE G == {seq \in Seq(S) : Fold(step, base, seq) \in V}
  <1>1. << >> \in G
    BY FoldEmpty, EmptySeq
  <1>2. ASSUME NEW seq \in Seq(S), seq \in G, NEW x \in S
        PROVE  Append(seq, x) \in G
    BY <1>2, FoldAppend, AppendProperties
  <1> HIDE DEF G
  <1>3. \A seq \in Seq(S) : seq \in G
    BY <1>1, <1>2, EverySequence
  <1> QED BY <1>3 DEF G

\* A fold over two sequences goes on with the second where it was after the first.
LEMMA FoldConcat ==
  ASSUME NEW S, NEW step, NEW base, NEW a \in Seq(S)
  PROVE  \A b \in Seq(S) : Fold(step, base, a \o b) = Fold(step, Fold(step, base, a), b)
  <1> DEFINE G == {b \in Seq(S) : Fold(step, base, a \o b) = Fold(step, Fold(step, base, a), b)}
  <1>1. << >> \in G
    <2>1. a \o << >> = a
      BY ConcatEmptySeq
    <2> QED BY <2>1, FoldEmpty, EmptySeq
  <1>2. ASSUME NEW b \in Seq(S), b \in G, NEW x \in S
        PROVE  Append(b, x) \in G
    <2>1. a \o Append(b, x) = Append(a \o b, x)
      BY ConcatAppend
    <2>2. a \o b \in Seq(S) /\ Append(b, x) \in Seq(S)
      BY ConcatProperties, AppendProperties
    <2>3. Fold(step, base, Append(a \o b, x)) = step[Fold(step, base, a \o b)][x]
      BY <2>2, FoldAppend
    <2>4. Fold(step, Fold(step, base, a), Append(b, x)) = step[Fold(step, Fold(step, base, a), b)][x]
      BY FoldAppend
    <2> QED BY <1>2, <2>1, <2>2, <2>3, <2>4
  <1> HIDE DEF G
  <1>3. \A b \in Seq(S) : b \in G
    BY <1>1, <1>2, EverySequence
  <1> QED BY <1>3 DEF G

\* A loop without turns, and one with a turn more.
LEMMA RepeatTurn ==
  ASSUME NEW step, NEW base
  PROVE  /\ Repeat(step, base, 0) = base
         /\ \A n \in Nat : Repeat(step, base, n + 1) = step[Repeat(step, base, n)][n + 1]
  <1> DEFINE turns(n) == [i \in 1..n |-> i]
  <1>1. \A n \in Nat : turns(n) \in Seq(Nat) /\ Len(turns(n)) = n
    OBVIOUS
  <1>2. turns(0) = << >>
    <2>1. turns(0) \in Seq(Nat) /\ Len(turns(0)) = 0
      BY <1>1
    <2> HIDE DEF turns
    <2> QED BY <2>1, EmptySeq
  <1>3. ASSUME NEW n \in Nat PROVE turns(n + 1) = Append(turns(n), n + 1)
    <2>1. n + 1 \in Nat
      OBVIOUS
    <2>2. /\ turns(n) \in Seq(Nat) /\ Len(turns(n)) = n
          /\ turns(n + 1) \in Seq(Nat) /\ Len(turns(n + 1)) = n + 1
      BY <1>1, <2>1
    <2>3. /\ \A i \in 1..n : turns(n)[i] = i
          /\ \A i \in 1..(n + 1) : turns(n + 1)[i] = i
      OBVIOUS
    <2> DEFINE more == Append(turns(n), n + 1)
    <2> HIDE DEF turns
    <2>4. /\ more \in Seq(Nat) /\ Len(more) = n + 1 /\ more[n + 1] = n + 1
          /\ \A i \in 1..n : more[i] = turns(n)[i]
      BY <2>1, <2>2, AppendProperties
    <2> HIDE DEF more
    <2>5. \A i \in 1..(n + 1) : turns(n + 1)[i] = more[i]
      BY <2>3, <2>4
    <2>6. turns(n + 1) = more
      BY <2>2, <2>4, <2>5, SeqEqual
    <2> QED BY <2>6 DEF more
  <1>4. \A n : Repeat(step, base, n) = Fold(step, base, turns(n))
    BY DEF Repeat
  <1> HIDE DEF turns
  <1>5. Repeat(step, base, 0) = base
    BY <1>2, <1>4, FoldEmpty
  <1>6. ASSUME NEW n \in Nat
        PROVE  Repeat(step, base, n + 1) = step[Repeat(step, base, n)][n + 1]
    <2>1. turns(n) \in Seq(Nat) /\ n + 1 \in Nat
      BY <1>1
    <2>2. Fold(step, base, Append(turns(n), n + 1)) = step[Fold(step, base, turns(n))][n + 1]
      BY <2>1, FoldAppend
    <2> QED BY <1>3, <1>4, <2>2
  <1> QED BY <1>5, <1>6
================================================================================
