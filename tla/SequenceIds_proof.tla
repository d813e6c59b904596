------------------------- MODULE SequenceIds_proof --------------------------
(***************************************************************************)
(* What InOrder returns for every finite set of sequence ids: each of them *)
(* once, the oldest first; and sequences of anything, which a filter or a  *)
(* step of a loop makes of others.                                         *)
(***************************************************************************)
EXTENDS SequenceIds, FiniteSetTheorems, TLAPS

\* A sequence, of whatever its members are.
IsSeq(s) == s \in Seq(Range(s))

-----------------------------------------------------------------------------
(* Sequences of anything.                                                  *)

LEMMA FunctionSeq ==
    ASSUME NEW S, NEW n \in Nat, NEW s \in [1 .. n -> S]
    PROVE  s \in Seq(S) /\ Len(s) = n
OBVIOUS

LEMMA WiderSeq ==
    ASSUME NEW S, NEW T, S \subseteq T, NEW s \in Seq(S)
    PROVE  s \in Seq(T)
OBVIOUS

LEMMA SeqOverItsRange ==
    ASSUME NEW S, NEW s \in Seq(S)
    PROVE  IsSeq(s)
<1>1. DOMAIN s = 1 .. Len(s) /\ Len(s) \in Nat
  OBVIOUS
<1>2. \A i \in 1 .. Len(s) : s[i] \in Range(s)
  BY <1>1 DEF Range
<1>3. s = [i \in 1 .. Len(s) |-> s[i]]
  BY <1>1
<1>4. s \in [1 .. Len(s) -> Range(s)]
  BY <1>2, <1>3
<1>5. s \in Seq(Range(s))
  BY <1>1, <1>4, FunctionSeq
<1> QED BY <1>5 DEF IsSeq

LEMMA SeqFacts ==
    ASSUME NEW s, IsSeq(s)
    PROVE  /\ Len(s) \in Nat /\ DOMAIN s = 1 .. Len(s)
           /\ s = <<>> <=> Len(s) = 0
           /\ \A v \in Range(s) : \E i \in 1 .. Len(s) : s[i] = v
           /\ \A i \in 1 .. Len(s) : s[i] \in Range(s)
<1>1. Len(s) \in Nat /\ DOMAIN s = 1 .. Len(s) /\ (s = <<>> <=> Len(s) = 0)
  BY DEF IsSeq
<1> QED BY <1>1 DEF Range

LEMMA NothingIsSeq == IsSeq(<<>>) /\ Range(<<>>) = {} /\ Len(<<>>) = 0
<1>1. Range(<<>>) = {}
  BY DEF Range
<1> QED BY <1>1 DEF IsSeq

LEMMA AppendSeq ==
    ASSUME NEW s, IsSeq(s), NEW x
    PROVE  /\ IsSeq(Append(s, x)) /\ Len(Append(s, x)) = Len(s) + 1
           /\ Range(Append(s, x)) = Range(s) \cup {x}
           /\ \A i \in 1 .. Len(s) : Append(s, x)[i] = s[i]
           /\ Append(s, x)[Len(s) + 1] = x
<1> DEFINE S == Range(s) \cup {x}
<1>1. s \in Seq(S) /\ x \in S
  BY WiderSeq DEF IsSeq
<1>2. /\ Append(s, x) \in Seq(S) /\ Len(Append(s, x)) = Len(s) + 1
      /\ \A i \in 1 .. Len(s) : Append(s, x)[i] = s[i]
      /\ Append(s, x)[Len(s) + 1] = x
      /\ Len(s) \in Nat /\ DOMAIN s = 1 .. Len(s)
      /\ DOMAIN Append(s, x) = 1 .. Len(s) + 1
  <2> HIDE DEF S
  <2> QED BY <1>1
<1>3. IsSeq(Append(s, x))
  BY <1>2, SeqOverItsRange
<1>4. Range(Append(s, x)) = S
  <2>1. ASSUME NEW i \in 1 .. Len(s) + 1 PROVE Append(s, x)[i] \in S
    <3>1. CASE i = Len(s) + 1
      BY <1>2, <3>1
    <3>2. CASE i \in 1 .. Len(s)
      BY <1>2, <3>2 DEF Range
    <3> QED BY <1>2, <3>1, <3>2
  <2>2. x \in Range(Append(s, x))
    BY <1>2 DEF Range
  <2>3. ASSUME NEW v \in Range(s) PROVE v \in Range(Append(s, x))
    <3>1. PICK i \in 1 .. Len(s) : s[i] = v
      BY <1>2 DEF Range
    <3>2. i \in 1 .. Len(s) + 1 /\ Append(s, x)[i] = v
      BY <1>2, <3>1
    <3> QED BY <1>2, <3>2 DEF Range
  <2>4. Range(Append(s, x)) \subseteq S
    BY <1>2, <2>1 DEF Range
  <2> QED BY <2>2, <2>3, <2>4
<1> QED BY <1>2, <1>3, <1>4

LEMMA ReplaceSeq ==
    ASSUME NEW s, IsSeq(s), NEW i, NEW x
    PROVE  IsSeq([s EXCEPT ![i] = x]) /\ Len([s EXCEPT ![i] = x]) = Len(s)
<1> DEFINE S == Range(s) \cup {x}
           t == [s EXCEPT ![i] = x]
<1>1. s \in Seq(S)
  BY WiderSeq DEF IsSeq
<1>2. Len(s) \in Nat /\ DOMAIN s = 1 .. Len(s)
  BY <1>1
<1>3. DOMAIN t = 1 .. Len(s)
  BY <1>2
<1>4. \A j \in 1 .. Len(s) : t[j] \in S
  BY <1>2 DEF Range
<1>5. t = [j \in 1 .. Len(s) |-> t[j]]
  BY <1>3
<1>6. t \in Seq(S) /\ Len(t) = Len(s)
  <2>1. t \in [1 .. Len(s) -> S]
    BY <1>4, <1>5
  <2> HIDE DEF t, S
  <2> QED BY <1>2, <1>3, <2>1
<1> HIDE DEF t, S
<1>7. IsSeq(t) /\ Len(t) = Len(s)
  BY <1>6, SeqOverItsRange
<1> QED BY <1>7 DEF t

LEMMA JoinSeq ==
    ASSUME NEW s, IsSeq(s), NEW t, IsSeq(t)
    PROVE  /\ IsSeq(s \o t) /\ Len(s \o t) = Len(s) + Len(t)
           /\ \A i \in 1 .. Len(s) : (s \o t)[i] = s[i]
           /\ \A i \in 1 .. Len(t) : (s \o t)[Len(s) + i] = t[i]
           /\ \A v \in Range(s \o t) : v \in Range(s) \cup Range(t)
<1> DEFINE S == Range(s) \cup Range(t)
<1>1. s \in Seq(S) /\ t \in Seq(S)
  BY WiderSeq DEF IsSeq
<1> HIDE DEF S
<1>2. /\ s \o t \in Seq(S) /\ Len(s \o t) = Len(s) + Len(t)
      /\ \A i \in 1 .. Len(s) : (s \o t)[i] = s[i]
      /\ \A i \in 1 .. Len(t) : (s \o t)[Len(s) + i] = t[i]
  BY <1>1
<1>3. \A v \in Range(s \o t) : v \in S
  BY <1>2 DEF Range
<1> QED BY <1>2, <1>3, SeqOverItsRange DEF S

LEMMA HeadAndTail ==
    ASSUME NEW s, IsSeq(s), s # <<>>
    PROVE  /\ IsSeq(Tail(s)) /\ Head(s) \in Range(s)
           /\ Range(s) = {Head(s)} \cup Range(Tail(s))
<1>1. s \in Seq(Range(s)) /\ Len(s) \in Nat /\ Len(s) # 0 /\ DOMAIN s = 1 .. Len(s)
  BY SeqFacts DEF IsSeq
<1> DEFINE S == Range(s)
<1> HIDE DEF S
<1>2. s \in Seq(S)
  BY <1>1 DEF S
<1>3. /\ Tail(s) \in Seq(S) /\ Head(s) = s[1] /\ Len(Tail(s)) = Len(s) - 1
      /\ \A i \in 1 .. Len(s) - 1 : Tail(s)[i] = s[i + 1]
  BY <1>1, <1>2
<1>4. DOMAIN Tail(s) = 1 .. Len(s) - 1
  BY <1>3
<1>5. Head(s) \in Range(s) /\ Range(Tail(s)) \subseteq Range(s)
  BY <1>1, <1>3, <1>4 DEF Range
<1>6. ASSUME NEW v \in Range(s), v # Head(s) PROVE v \in Range(Tail(s))
  <2>1. PICK i \in 1 .. Len(s) : s[i] = v
    BY <1>1 DEF Range
  <2>2. i - 1 \in DOMAIN Tail(s) /\ Tail(s)[i - 1] = v
    BY <1>1, <1>3, <1>4, <1>6, <2>1
  <2> QED BY <2>2 DEF Range
<1> QED BY <1>3, <1>5, <1>6, SeqOverItsRange

LEMMA FunctionIsSeq ==
    ASSUME NEW n \in Nat, NEW s, s = [i \in 1 .. n |-> s[i]]
    PROVE  IsSeq(s) /\ Len(s) = n
<1> DEFINE S == Range(s)
<1>1. s \in [1 .. n -> S]
  BY DEF Range
<1> HIDE DEF S
<1>2. s \in Seq(S) /\ Len(s) = n
  BY <1>1, FunctionSeq
<1> QED BY <1>2, SeqOverItsRange

LEMMA OneIsSeq == ASSUME NEW x PROVE IsSeq(<<x>>)
<1>1. <<x>> \in Seq({x})
  OBVIOUS
<1> QED BY <1>1, SeqOverItsRange

-----------------------------------------------------------------------------
(* Rows in the order of their ids.                                         *)

\* A younger row has more rows up to it.
LEMMA PlaceGrows ==
    ASSUME NEW S \in SUBSET Int, IsFiniteSet(S), NEW d \in S, NEW e \in S, d < e
    PROVE  Place(S, d) < Place(S, e)
<1> DEFINE D == {f \in S : f <= d}
           E == {f \in S : f <= e}
<1>1. D \in SUBSET S /\ E \in SUBSET S
  OBVIOUS
<1>2. IsFiniteSet(D) /\ IsFiniteSet(E)
  BY <1>1, FS_Subset
<1>n. d \in Int /\ e \in Int /\ S \subseteq Int
  OBVIOUS
<1>3. D \in SUBSET E /\ e \in E /\ e \notin D
  <2>1. \A f \in D : f \in E
    BY <1>n
  <2>2. e \in E /\ e \notin D
    BY <1>n
  <2> QED BY <2>1, <2>2
<1> HIDE DEF D, E
<1>4. Cardinality(D) <= Cardinality(E) /\ Cardinality(D) # Cardinality(E)
  BY <1>2, <1>3, FS_Subset
<1>5. Cardinality(D) \in Nat /\ Cardinality(E) \in Nat
  BY <1>2, FS_CardinalityType
<1> QED BY <1>4, <1>5 DEF Place, D, E

\* A row's place is a position in the list.
LEMMA PlaceInRange ==
    ASSUME NEW S \in SUBSET Int, IsFiniteSet(S), NEW e \in S
    PROVE  Place(S, e) \in 1 .. Cardinality(S)
<1> DEFINE E == {f \in S : f <= e}
<1>1. E \in SUBSET S /\ E # {}
  OBVIOUS
<1>2. IsFiniteSet(E) /\ Cardinality(E) <= Cardinality(S)
  BY <1>1, FS_Subset
<1>3. Cardinality(E) \in Nat /\ Cardinality(S) \in Nat /\ Cardinality(E) # 0
  BY <1>1, <1>2, FS_CardinalityType, FS_EmptySet
<1> HIDE DEF E
<1>4. Cardinality(E) \in 1 .. Cardinality(S)
  BY <1>2, <1>3
<1> QED BY <1>4 DEF Place, E

\* Every position is some row's place: the places are as many as the rows.
LEMMA EveryPlaceIsTaken ==
    ASSUME NEW S \in SUBSET Int, IsFiniteSet(S), NEW i \in 1 .. Cardinality(S)
    PROVE  \E e \in S : Place(S, e) = i
<1> DEFINE n == Cardinality(S)
           place == [e \in S |-> Place(S, e)]
<1>1. n \in Nat
  BY FS_CardinalityType
<1>2. place \in [S -> 1 .. n]
  BY PlaceInRange
<1>3. ASSUME NEW d \in S, NEW e \in S, d # e PROVE place[d] # place[e]
  <2>1. d \in Int /\ e \in Int /\ Place(S, d) \in Nat /\ Place(S, e) \in Nat
    BY PlaceInRange, <1>1
  <2>2. Place(S, d) # Place(S, e)
    <3>1. CASE d < e
      BY <3>1, <2>1, PlaceGrows
    <3>2. CASE e < d
      BY <3>2, <2>1, PlaceGrows
    <3> QED BY <1>3, <2>1, <3>1, <3>2
  <2> QED BY <2>2
<1>4. place \in Injection(S, 1 .. n)
  BY <1>2, <1>3 DEF Injection, IsInjective
<1>5. IsFiniteSet(1 .. n) /\ Cardinality(1 .. n) = n
  BY <1>1, FS_Interval
<1>6. place \in Surjection(S, 1 .. n)
  BY <1>4, <1>5, FS_Injection
<1> QED BY <1>6 DEF Surjection

\* A finite set of numbers has a least member.
LEMMA LeastMember ==
    ASSUME NEW S \in SUBSET Int, IsFiniteSet(S), S # {}
    PROVE  \E e \in S : \A d \in S : e <= d
<1>1. Cardinality(S) \in Nat /\ Cardinality(S) # 0
  BY FS_CardinalityType, FS_EmptySet
<1>2. PICK e \in S : Place(S, e) = 1
  BY <1>1, EveryPlaceIsTaken
<1>3. ASSUME NEW d \in S PROVE e <= d
  <2>1. d \in Int /\ e \in Int /\ Place(S, d) \in 1 .. Cardinality(S)
    BY PlaceInRange
  <2>2. ~(d < e)
    BY <1>2, <2>1, PlaceGrows
  <2> QED BY <2>1, <2>2
<1> QED BY <1>3

(***************************************************************************)
(* InOrder lists every row of a finite set and nothing else.               *)
(***************************************************************************)
THEOREM InOrderListsRows ==
    ASSUME NEW S \in SUBSET Nat, IsFiniteSet(S)
    PROVE  /\ InOrder(S) \in Seq(S)
           /\ Len(InOrder(S)) = Cardinality(S)
           /\ \A e \in S : \E i \in DOMAIN InOrder(S) : InOrder(S)[i] = e
<1> DEFINE n == Cardinality(S)
<1>1. n \in Nat
  BY FS_CardinalityType
<1>2. ASSUME NEW i \in 1 .. n
      PROVE  InOrder(S)[i] \in S /\ Place(S, InOrder(S)[i]) = i
  BY <1>2, EveryPlaceIsTaken DEF InOrder
<1>3. InOrder(S) \in [1 .. n -> S]
  BY <1>2 DEF InOrder
<1>4. InOrder(S) \in Seq(S) /\ Len(InOrder(S)) = n
  BY <1>1, <1>3
<1>5. ASSUME NEW e \in S PROVE InOrder(S)[Place(S, e)] = e
  <2>1. Place(S, e) \in 1 .. n
    BY PlaceInRange
  <2> DEFINE d == InOrder(S)[Place(S, e)]
  <2>2. d \in S /\ Place(S, d) = Place(S, e)
    BY <1>2, <2>1
  <2> HIDE DEF d
  <2>3. ~(d < e) /\ ~(e < d)
    BY <2>1, <2>2, PlaceGrows
  <2>4. d = e
    BY <2>2, <2>3
  <2> QED BY <2>4 DEF d
<1> QED BY <1>3, <1>4, <1>5, PlaceInRange

(***************************************************************************)
(* InOrder puts the older of two rows first.                               *)
(***************************************************************************)
THEOREM InOrderAscends ==
    ASSUME NEW S \in SUBSET Nat, IsFiniteSet(S),
           NEW i \in DOMAIN InOrder(S), NEW j \in DOMAIN InOrder(S), i < j
    PROVE  InOrder(S)[i] < InOrder(S)[j]
<1> DEFINE n == Cardinality(S)
<1>1. n \in Nat
  BY FS_CardinalityType
<1>2. i \in 1 .. n /\ j \in 1 .. n
  BY DEF InOrder
<1>3. ASSUME NEW k \in 1 .. n
      PROVE  InOrder(S)[k] \in S /\ Place(S, InOrder(S)[k]) = k
  BY <1>3, EveryPlaceIsTaken DEF InOrder
<1> DEFINE d == InOrder(S)[i]
           e == InOrder(S)[j]
<1>4. d \in S /\ e \in S /\ Place(S, d) = i /\ Place(S, e) = j
  BY <1>2, <1>3
<1> HIDE DEF d, e
<1>5. d # e /\ ~(e < d)
  BY <1>2, <1>4, PlaceGrows
<1>6. d < e
  BY <1>4, <1>5
<1> QED BY <1>6 DEF d, e

(***************************************************************************)
(* MembersAt collects the members at the places P, each place once and in  *)
(* order.                                                                  *)
(***************************************************************************)
THEOREM MembersAtPlaces ==
    ASSUME NEW S, NEW s \in Seq(S), NEW P \in SUBSET DOMAIN s
    PROVE  /\ MembersAt(s, P) \in Seq(S)
           /\ Len(MembersAt(s, P)) = Cardinality(P)
           /\ \A n \in DOMAIN MembersAt(s, P) :
                  InOrder(P)[n] \in P /\ MembersAt(s, P)[n] = s[InOrder(P)[n]]
           /\ \A k \in P : \E n \in DOMAIN MembersAt(s, P) : InOrder(P)[n] = k
           /\ \A m, n \in DOMAIN MembersAt(s, P) :
                  m < n => InOrder(P)[m] < InOrder(P)[n]
<1>1. P \in SUBSET Nat /\ IsFiniteSet(P)
  <2>1. DOMAIN s = 1 .. Len(s) /\ Len(s) \in Nat
    OBVIOUS
  <2>2. P \in SUBSET (1 .. Len(s))
    BY <2>1
  <2>3. IsFiniteSet(1 .. Len(s))
    BY <2>1, FS_Interval
  <2>4. IsFiniteSet(P)
    BY <2>2, <2>3, FS_Subset
  <2> QED BY <2>1, <2>2, <2>4
<1>2. /\ InOrder(P) \in Seq(P) /\ Len(InOrder(P)) = Cardinality(P)
      /\ \A k \in P : \E n \in DOMAIN InOrder(P) : InOrder(P)[n] = k
  BY <1>1, InOrderListsRows
<1>3. DOMAIN MembersAt(s, P) = DOMAIN InOrder(P)
  BY DEF MembersAt
<1>4. \A n \in DOMAIN InOrder(P) :
          InOrder(P)[n] \in P /\ MembersAt(s, P)[n] = s[InOrder(P)[n]]
  BY <1>2 DEF MembersAt
<1>5. \A n \in DOMAIN InOrder(P) : MembersAt(s, P)[n] \in S
  BY <1>4
<1>6. DOMAIN InOrder(P) = 1 .. Cardinality(P) /\ Cardinality(P) \in Nat
  BY <1>1, <1>2, FS_CardinalityType
<1>7. MembersAt(s, P) \in Seq(S) /\ Len(MembersAt(s, P)) = Cardinality(P)
  <2>1. MembersAt(s, P) = [n \in 1 .. Cardinality(P) |-> s[InOrder(P)[n]]]
    BY <1>6 DEF MembersAt
  <2>2. MembersAt(s, P) \in [1 .. Cardinality(P) -> S]
    BY <1>3, <1>5, <1>6, <2>1
  <2> QED BY <1>3, <1>6, <2>2
<1>8. \A m, n \in DOMAIN MembersAt(s, P) :
          m < n => InOrder(P)[m] < InOrder(P)[n]
  BY <1>1, <1>3, InOrderAscends
<1> QED BY <1>2, <1>3, <1>4, <1>7, <1>8

LEMMA ChosenIsSeq ==
    ASSUME NEW s, IsSeq(s), NEW P \in SUBSET DOMAIN s
    PROVE  /\ IsSeq(MembersAt(s, P))
           /\ DOMAIN MembersAt(s, P) = 1 .. Len(MembersAt(s, P))
           /\ Len(MembersAt(s, P)) \in Nat
<1>1. s \in Seq(Range(s))
  BY DEF IsSeq
<1>2. MembersAt(s, P) \in Seq(Range(s))
  BY <1>1, MembersAtPlaces
<1>3. IsSeq(MembersAt(s, P))
  BY <1>2, SeqOverItsRange
<1> QED BY <1>3, SeqFacts
=============================================================================
