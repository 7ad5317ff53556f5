------------------------ MODULE BlockingListsProofs ------------------------
(***************************************************************************)
(* No lost wake-up, for any number of keys, clients, calls and elements.   *)
(*                                                                          *)
(* NoLostWakeup is not inductive alone.  A parked call is safe because its  *)
(* waiter is armed whenever a poll may find nothing (ClientOK), because a   *)
(* command that makes a key poppable wakes every armed waiter or leaves the *)
(* script's flag up (FlagOK), and because every other command leaves no key *)
(* poppable that was not before, which needs the shape of the entries       *)
(* (TypeOK and D-03 together: every entry is a LiveEntry).                  *)
(*                                                                          *)
(* Before that, the list algorithms for every list: ranges select a window, *)
(* and LREM removes matches one by one (by the ranks of the indices kept).  *)
(***************************************************************************)
EXTENDS BlockingLists, ListAlgorithms, SequenceTheorems, FiniteSetTheorems, WellFoundedInduction, TLAPS

-----------------------------------------------------------------------------
(* What the list algorithms return, for every list and every argument.      *)

(* A set of natural numbers that is not empty has a least element: the one  *)
(* whose initial interval is minimal among the finite sets 1 .. n.          *)
LEMMA LeastNat ==
    ASSUME NEW T \in SUBSET Nat, T # {}
    PROVE  \E m \in T : \A n \in T : m <= n
<1> DEFINE Intervals == {1 .. n : n \in T}
           R == StrictSubsetOrdering(Nat)
<1>1. IsWellFoundedOn(R, FiniteSubsetsOf(Nat))
  BY FS_StrictSubsetOrderingWellFounded
<1>2. Intervals \subseteq FiniteSubsetsOf(Nat) /\ Intervals # {}
  <2>1. \A n \in T : IsFiniteSet(1 .. n)
    BY FS_Interval
  <2>2. \A n \in T : 1 .. n \in SUBSET Nat
    OBVIOUS
  <2>3. \A n \in T : 1 .. n \in FiniteSubsetsOf(Nat)
    BY <2>1, <2>2 DEF FiniteSubsetsOf
  <2> QED BY <2>3
<1> HIDE DEF Intervals, R
<1>3. PICK X \in Intervals : \A Y \in Intervals : ~(<<Y, X>> \in R)
  BY <1>1, <1>2, WFMin
<1>4. PICK m \in T : X = 1 .. m
  BY DEF Intervals
<1>5. ASSUME NEW n \in T PROVE m <= n
  <2>1. ~(<<1 .. n, 1 .. m>> \in R)
    BY <1>3, <1>4 DEF Intervals
  <2>2. 1 .. n \in SUBSET Nat /\ 1 .. m \in SUBSET Nat
    OBVIOUS
  <2>3. ~(1 .. n \subseteq 1 .. m /\ 1 .. n # 1 .. m)
    BY <2>1, <2>2 DEF R, StrictSubsetOrdering
  <2>4. CASE n < m
    <3>1. m \in 1 .. m /\ m \notin 1 .. n /\ 1 .. n \subseteq 1 .. m
      BY <2>4
    <3> QED BY <3>1, <2>3
  <2> QED BY <2>4
<1> QED BY <1>5

\* Induction over an interval, for a set instead of a predicate.
LEMMA IntervalInduction ==
    ASSUME NEW a \in Int, NEW b \in Int, NEW T, a \in T,
           \A n \in a .. b - 1 : n \in T => n + 1 \in T
    PROVE  \A n \in a .. b : n \in T
<1> DEFINE Bad == {d \in Nat : a + d <= b /\ a + d \notin T}
<1>1. CASE Bad = {}
  <2> TAKE n \in a .. b
  <2>1. n - a \in Nat /\ a + (n - a) = n
    OBVIOUS
  <2>2. n \notin T => n - a \in Bad
    BY <2>1
  <2> QED BY <1>1, <2>2
<1>2. CASE Bad # {}
  <2>1. PICK d \in Bad : \A e \in Bad : d <= e
    <3>1. Bad \in SUBSET Nat
      OBVIOUS
    <3> HIDE DEF Bad
    <3> QED BY <1>2, <3>1, LeastNat
  <2>2. d # 0
    BY <2>1
  <2>3. d - 1 \in Nat /\ a + (d - 1) \in a .. b - 1 /\ a + (d - 1) + 1 = a + d /\ ~(d <= d - 1)
    BY <2>1, <2>2
  <2>4. a + (d - 1) \in T
    BY <2>1, <2>3
  <2> QED BY <2>1, <2>3, <2>4
<1> QED BY <1>1, <1>2

\* Popping leaves a list over the same elements.
LEMMA AfterPopType ==
    ASSUME NEW S, NEW list \in Seq(S), NEW end \in Ends, NEW n \in Nat
    PROVE  AfterPop(list, end, n) \in Seq(S)
<1> DEFINE taken == Min({n, Len(list)})
<1>1. taken \in Nat /\ taken <= Len(list)
  <2>1. \E x \in {n, Len(list)} : \A y \in {n, Len(list)} : x <= y
    OBVIOUS
  <2> QED BY <2>1 DEF Min
<1>2. Len(list) \in Nat /\ \A i \in 1 .. Len(list) : list[i] \in S
  OBVIOUS
<1> HIDE DEF taken
<1>3. SubSeq(list, taken + 1, Len(list)) \in Seq(S)
  BY <1>1, <1>2, SubSeqProperties
<1>4. SubSeq(list, 1, Len(list) - taken) \in Seq(S)
  BY <1>1, <1>2, SubSeqProperties
<1> QED BY <1>3, <1>4 DEF AfterPop, taken

\* LRANGE and LTRIM yield a list over the same elements.
LEMMA SliceType ==
    ASSUME NEW S, NEW list \in Seq(S), NEW i \in Int, NEW j \in Int
    PROVE  Slice(list, i, j) \in Seq(S)
<1>1. CASE NormalizeRange(i, j, Len(list)) = NoRange
  BY <1>1 DEF Slice
<1>2. CASE NormalizeRange(i, j, Len(list)) # NoRange
  <2> DEFINE from == IF i < 0 THEN Max({i + Len(list), 0}) ELSE i
             to   == IF j < 0 THEN j + Len(list) ELSE Min({j, Len(list) - 1})
  <2>1. from \in Int /\ from >= 0
    <3>1. \E x \in {i + Len(list), 0} : \A y \in {i + Len(list), 0} : x >= y
      OBVIOUS
    <3> QED BY <3>1 DEF Max
  <2>2. to \in Int /\ to <= Len(list) - 1
    <3>1. \E x \in {j, Len(list) - 1} : \A y \in {j, Len(list) - 1} : x <= y
      OBVIOUS
    <3>2. Min({j, Len(list) - 1}) \in {j, Len(list) - 1}
             /\ Min({j, Len(list) - 1}) <= Len(list) - 1
      BY <3>1 DEF Min
    <3> QED BY <3>2
  <2>3. NormalizeRange(i, j, Len(list)) = <<from, to>>
    BY <1>2 DEF NormalizeRange
  <2> HIDE DEF from, to
  <2>4. \A n \in from + 1 .. to + 1 : list[n] \in S
    BY <2>1, <2>2
  <2>5. SubSeq(list, from + 1, to + 1) \in Seq(S)
    BY <2>1, <2>2, <2>4, SubSeqProperties
  <2> QED BY <2>3, <2>5, <1>2 DEF Slice
<1> QED BY <1>1, <1>2

\* A list has finitely many indices.
LEMMA FinitelyManyIndices ==
    ASSUME NEW len \in Nat, NEW Kept \in SUBSET (1 .. len)
    PROVE  IsFiniteSet(Kept) /\ Cardinality(Kept) \in Nat
<1> DEFINE All == 1 .. len
<1>1. IsFiniteSet(All)
  BY FS_Interval
<1>2. Kept \in SUBSET All
  OBVIOUS
<1> HIDE DEF All
<1>3. IsFiniteSet(Kept)
  BY <1>1, <1>2, FS_Subset
<1> QED BY <1>3, FS_CardinalityType

(* The n-th index of a set of indices: there is one for each n up to the    *)
(* number of indices, the first at which n of them have been counted.       *)
LEMMA NthExists ==
    ASSUME NEW len \in Nat, NEW Kept \in SUBSET (1 .. len),
           NEW n \in 1 .. Cardinality(Kept)
    PROVE  \E i \in Kept : Cardinality({j \in Kept : j <= i}) = n
<1> DEFINE Upto(m) == {j \in Kept : j <= m}
<1>1. IsFiniteSet(Kept) /\ Cardinality(Kept) \in Nat
  BY FinitelyManyIndices
<1>0. \A j \in Kept : j \in Nat /\ 1 <= j /\ j <= len
  OBVIOUS
<1>2. ASSUME NEW m \in Nat PROVE IsFiniteSet(Upto(m)) /\ Cardinality(Upto(m)) \in Nat
  <2>1. Upto(m) \in SUBSET Kept
    OBVIOUS
  <2> HIDE DEF Upto
  <2> QED BY <2>1, <1>1, FS_Subset, FS_CardinalityType
<1>3. ASSUME NEW m \in Nat
      PROVE  Cardinality(Upto(m + 1)) = IF m + 1 \in Kept THEN Cardinality(Upto(m)) + 1
                                                         ELSE Cardinality(Upto(m))
  <2>1. CASE m + 1 \in Kept
    <3>0. ~(m + 1 <= m) /\ \A j \in Kept : j <= m + 1 <=> j <= m \/ j = m + 1
      BY <1>0
    <3>1. Upto(m + 1) = Upto(m) \cup {m + 1} /\ m + 1 \notin Upto(m)
      BY <2>1, <3>0, Zenon
    <3>2. IsFiniteSet(Upto(m))
      BY <1>2
    <3> HIDE DEF Upto
    <3> QED BY <3>1, <3>2, <2>1, FS_AddElement
  <2>2. CASE m + 1 \notin Kept
    <3>1. Upto(m + 1) = Upto(m)
      <4>1. \A j \in Kept : j <= m + 1 <=> j <= m
        BY <2>2, <1>0
      <4> QED BY <4>1, Zenon
    <3> HIDE DEF Upto
    <3> QED BY <3>1, <2>2
  <2> QED BY <2>1, <2>2
<1>4. Cardinality(Upto(0)) = 0
  <2>1. Upto(0) = {}
    <3>1. \A j \in Kept : ~(j <= 0)
      BY <1>0
    <3> QED BY <3>1, Zenon
  <2> HIDE DEF Upto
  <2> QED BY <2>1, FS_EmptySet
<1>5. Upto(len) = Kept
  BY <1>0
<1> DEFINE Enough == {m \in Nat : n <= Cardinality(Upto(m))}
<1> HIDE DEF Upto
<1>6. PICK m \in Enough : \A x \in Enough : m <= x
  <2>1. len \in Enough
    BY <1>1, <1>5
  <2>2. Enough \in SUBSET Nat
    OBVIOUS
  <2> HIDE DEF Enough
  <2> QED BY <2>1, <2>2, LeastNat
<1>7. m - 1 \in Nat /\ m = (m - 1) + 1 /\ m - 1 \notin Enough
  BY <1>4, <1>6
<1>8. /\ Cardinality(Upto(m - 1)) \in Nat
      /\ Cardinality(Upto(m - 1)) < n
      /\ n <= Cardinality(Upto(m))
  BY <1>2, <1>7
<1>9. Cardinality(Upto(m)) = IF m \in Kept THEN Cardinality(Upto(m - 1)) + 1
                                           ELSE Cardinality(Upto(m - 1))
  BY <1>3, <1>7
<1>10. m \in Kept /\ Cardinality(Upto(m)) = n
  BY <1>8, <1>9
<1> QED BY <1>10 DEF Upto

(* What LREM leaves is a list of the same elements. *)
LEMMA WithoutType ==
    ASSUME NEW S, NEW list \in Seq(S), NEW indices
    PROVE  Without(list, indices) \in Seq(S)
<1> DEFINE Kept == {i \in DOMAIN list : i \notin indices}
           Nth(n) == CHOOSE i \in Kept : Cardinality({j \in Kept : j <= i}) = n
<1>1. Len(list) \in Nat /\ Kept \in SUBSET (1 .. Len(list))
  OBVIOUS
<1> HIDE DEF Kept
<1>2. \A n \in 1 .. Cardinality(Kept) : Nth(n) \in Kept
  BY <1>1, NthExists
<1> HIDE DEF Nth
<1>3. \A n \in 1 .. Cardinality(Kept) : list[Nth(n)] \in S
  <2>1. \A i \in Kept : list[i] \in S
    BY <1>1
  <2> QED BY <2>1, <1>2
<1>4. Cardinality(Kept) \in Nat
  BY <1>1, FinitelyManyIndices
<1>5. [n \in 1 .. Cardinality(Kept) |-> list[Nth(n)]] \in Seq(S)
  BY <1>3, <1>4
<1> QED BY <1>5 DEF Without, Nth, Kept

\* LREM yields a list over the same elements.
LEMMA LRemType ==
    ASSUME NEW S, NEW list \in Seq(S), NEW count, NEW v
    PROVE  LRem(list, count, v) \in Seq(S)
BY WithoutType DEF LRem

(* A list that was pushed on is a list, and is not empty. *)
LEMMA PushedType ==
    ASSUME NEW S, NEW list \in Seq(S), NEW end \in Ends,
           NEW values \in Seq(S), values # <<>>
    PROVE  Pushed(list, end, values) \in Seq(S) \ {<<>>}
<1>1. Len(values) \in Nat /\ Len(values) > 0
  OBVIOUS
<1>2. Reverse(values) \in Seq(S) /\ Len(Reverse(values)) > 0
  BY <1>1 DEF Reverse
<1>3. list \o values \in Seq(S) /\ Len(list \o values) > 0
  BY <1>1
<1> HIDE DEF Reverse
<1>4. Reverse(values) \o list \in Seq(S) /\ Len(Reverse(values) \o list) > 0
  BY <1>2
<1> QED BY <1>3, <1>4 DEF Pushed

\* Pushing one element yields a non-empty list.
LEMMA Push1Type ==
    ASSUME NEW S, NEW list \in Seq(S), NEW end \in Ends, NEW v \in S
    PROVE  Push1(list, end, v) \in Seq(S) \ {<<>>}
<1>1. <<v>> \in Seq(S) /\ Len(<<v>>) = 1
  OBVIOUS
<1>2. <<v>> \o list \in Seq(S) /\ Len(<<v>> \o list) > 0
  BY <1>1
<1>3. list \o <<v>> \in Seq(S) /\ Len(list \o <<v>>) > 0
  BY <1>1
<1> QED BY <1>2, <1>3 DEF Push1

\* Both ends of a non-empty list are elements of it.
LEMMA EndOfType ==
    ASSUME NEW S, NEW list \in Seq(S), list # <<>>, NEW end
    PROVE  EndOf(list, end) \in S
<1>1. Len(list) \in Nat \ {0}
  OBVIOUS
<1> QED BY <1>1 DEF EndOf

\* LSET yields a list over the elements and the new value.
LEMMA SetAtType ==
    ASSUME NEW S, NEW list \in Seq(S), NEW index \in Int, NEW v \in S,
           InBounds(list, index)
    PROVE  SetAt(list, index, v) \in Seq(S)
<1>1. ActualIndex(list, index) + 1 \in 1 .. Len(list)
  BY DEF InBounds, ActualIndex
<1> QED BY <1>1, ExceptSeq DEF SetAt

\* LINSERT yields a list over the elements and the new value.
LEMMA InsertNextToType ==
    ASSUME NEW S, NEW list \in Seq(S), NEW where, NEW v \in S,
           NEW pivot \in Range(list)
    PROVE  InsertNextTo(list, where, pivot, v) \in Seq(S)
<1> DEFINE I == {i \in 1 .. Len(list) : list[i] = pivot}
           pos == SelectInSeq(list, LAMBDA x : x = pivot)
<1>1. I # {} /\ I \in SUBSET Nat
  BY DEF Range
<1>2. pos = Min(I)
  BY <1>1 DEF SelectInSeq
<1>3. pos \in I
  <2> HIDE DEF I
  <2>1. \E m \in I : \A n \in I : m <= n
    BY <1>1, LeastNat
  <2> QED BY <2>1, <1>2 DEF Min
<1>4. pos \in 1 .. Len(list)
  BY <1>3
<1> HIDE DEF pos
<1>5. ASSUME NEW at \in 1 .. Len(list) + 1
      PROVE  InsertAt(list, at, v) \in Seq(S)
  <2>1. \A i \in 1 .. at - 1 : list[i] \in S
    OBVIOUS
  <2>2. \A i \in at .. Len(list) : list[i] \in S
    OBVIOUS
  <2>3. SubSeq(list, 1, at - 1) \in Seq(S) /\ SubSeq(list, at, Len(list)) \in Seq(S)
    BY <2>1, <2>2, SubSeqProperties
  <2> QED BY <2>3 DEF InsertAt
<1>6. (IF where = "BEFORE" THEN pos ELSE pos + 1) \in 1 .. Len(list) + 1
  BY <1>4
<1> QED BY <1>5, <1>6 DEF InsertNextTo, pos

\* The smaller and the larger of two numbers.
LEMMA MinMax ==
    ASSUME NEW a \in Int, NEW b \in Int
    PROVE  /\ Min({a, b}) = IF a <= b THEN a ELSE b
           /\ Max({a, b}) = IF a >= b THEN a ELSE b
  BY DEF Min, Max

\* A list of which an interval is kept is a part of it.
LEMMA IntervalKept ==
    ASSUME NEW S, NEW list \in Seq(S), NEW indices, NEW a \in Nat, NEW b \in Nat,
           1 <= a, a <= b, b <= Len(list),
           {i \in DOMAIN list : i \notin indices} = a .. b
    PROVE  Without(list, indices) = SubSeq(list, a, b)
<1> DEFINE Kept == {i \in DOMAIN list : i \notin indices}
           Upto(i) == {j \in Kept : j <= i}
           Nth(n) == CHOOSE i \in Kept : Cardinality(Upto(i)) = n
<1>1. Without(list, indices) = [n \in 1 .. Cardinality(Kept) |-> list[Nth(n)]]
  BY DEF Without
<1>2. Kept = a .. b
  OBVIOUS
<1> HIDE DEF Kept
<1>3. Cardinality(Kept) = b - a + 1
  BY <1>2, FS_Interval
<1>4. ASSUME NEW i \in Kept PROVE Cardinality(Upto(i)) = i - a + 1
  <2>1. Upto(i) = a .. i /\ i \in Int /\ a <= i
    BY <1>2
  <2> HIDE DEF Upto
  <2>2. Cardinality(a .. i) = IF a > i THEN 0 ELSE i - a + 1
    BY <2>1, FS_Interval
  <2> QED BY <2>1, <2>2
<1> HIDE DEF Upto
<1>5. ASSUME NEW n \in 1 .. b - a + 1 PROVE Nth(n) = a + n - 1
  <2>1. a + n - 1 \in Kept /\ (a + n - 1) - a + 1 = n
    BY <1>2
  <2>2. Cardinality(Upto(a + n - 1)) = n
    BY <1>4, <2>1
  <2>3. \A i \in Kept : i - a + 1 = n => i = a + n - 1
    BY <1>2
  <2>4. \A i \in Kept : Cardinality(Upto(i)) = n => i = a + n - 1
    BY <1>4, <2>3
  <2> QED BY <2>1, <2>2, <2>4
<1> HIDE DEF Nth
<1>6. Without(list, indices) = [n \in 1 .. b - a + 1 |-> list[a + n - 1]]
  BY <1>1, <1>3, <1>5
<1>7. SubSeq(list, a, b) = [n \in 1 .. b - a + 1 |-> list[a + n - 1]]
  OBVIOUS
<1> QED BY <1>6, <1>7

\* A list of which nothing is kept.
LEMMA NothingKept ==
    ASSUME NEW S, NEW list \in Seq(S), NEW indices,
           {i \in DOMAIN list : i \notin indices} = {}
    PROVE  Without(list, indices) = <<>>
<1> DEFINE Kept == {i \in DOMAIN list : i \notin indices}
           Nth(n) == CHOOSE i \in Kept : Cardinality({j \in Kept : j <= i}) = n
<1>1. Without(list, indices) = [n \in 1 .. Cardinality(Kept) |-> list[Nth(n)]]
  BY DEF Without
<1>2. Cardinality(Kept) = 0
  BY FS_EmptySet
<1> HIDE DEF Nth, Kept
<1> QED BY <1>1, <1>2

\* The ranges of one list: with the bounds normalised, what is left of the window
\* is an interval or nothing.
LEMMA RangeIsWindow ==
    ASSUME items \in Seq(Values), first \in Int, second \in Int
    PROVE  RangesAreTheWindow
<1> DEFINE len  == Len(items)
           from == IF first < 0 THEN Max({first + len, 0}) ELSE first
           to   == IF second < 0 THEN second + len ELSE Min({second, len - 1})
           none == len = 0 \/ from >= len \/ to < 0 \/ from > to
           out  == {i \in DOMAIN items : i - 1 \notin Window}
<1>1. len \in Nat /\ DOMAIN items = 1 .. len
  OBVIOUS
<1>2. NormalizeRange(first, second, len) = IF none THEN NoRange ELSE <<from, to>>
  BY DEF NormalizeRange
<1>3. Window = {i \in 0 .. len - 1 :
                    /\ (IF first < 0 THEN first + len ELSE first) <= i
                    /\ i <= (IF second < 0 THEN second + len ELSE second)}
  BY DEF Window, Position
<1>4. Slice(items, first, second)
        = IF NormalizeRange(first, second, len) = NoRange THEN <<>>
          ELSE SubSeq(items, NormalizeRange(first, second, len)[1] + 1,
                             NormalizeRange(first, second, len)[2] + 1)
  BY DEF Slice
<1> HIDE DEF len
<1>5. /\ from = IF first < 0 THEN IF first + len >= 0 THEN first + len ELSE 0 ELSE first
      /\ to = IF second < 0 THEN second + len ELSE IF second <= len - 1 THEN second ELSE len - 1
  <2> DEFINE x == first + len
             y == len - 1
  <2>1. x \in Int /\ y \in Int
    BY <1>1
  <2> HIDE DEF x, y
  <2>2. Max({x, 0}) = IF x >= 0 THEN x ELSE 0
    <3>1. \A z \in Int : Max({x, z}) = IF x >= z THEN x ELSE z
      BY <2>1, MinMax
    <3> QED BY <3>1
  <2>3. ASSUME NEW s \in Int PROVE Min({s, y}) = IF s <= y THEN s ELSE y
    BY <2>1, MinMax
  <2> QED BY <2>2, <2>3 DEF x, y
<1> HIDE DEF from, to
<1>6. from \in Nat /\ to \in Int /\ (~none => to \in Nat /\ from <= to /\ to < len)
  BY <1>1, <1>5
<1>7. Window = IF none THEN {} ELSE from .. to
  BY <1>1, <1>3, <1>5, <1>6
<1>8. ZRangeWindow(first, second, len) = NormalizeRange(first, second, len)
  BY <1>1, <1>2, <1>5 DEF ZRangeWindow
<1>9. {i \in DOMAIN items : i \notin out} = {i \in 1 .. len : i - 1 \in Window}
  BY <1>1
<1> HIDE DEF out
<1>10. CASE none
  <2>1. {i \in DOMAIN items : i \notin out} = {}
    BY <1>7, <1>9, <1>10
  <2>2. Without(items, out) = <<>>
    BY <2>1, NothingKept
  <2> QED BY <1>2, <1>4, <1>8, <1>10, <2>2 DEF RangesAreTheWindow, out, len
<1>11. CASE ~none
  <2>1. {i \in 1 .. len : i - 1 \in from .. to} = from + 1 .. to + 1
    BY <1>1, <1>6, <1>11
  <2>2. {i \in DOMAIN items : i \notin out} = from + 1 .. to + 1
    BY <1>7, <1>9, <1>11, <2>1
  <2>3. /\ from + 1 \in Nat /\ to + 1 \in Nat /\ 1 <= from + 1 /\ from + 1 <= to + 1
        /\ to + 1 <= Len(items)
    BY <1>1, <1>6, <1>11 DEF len
  <2>4. Without(items, out) = SubSeq(items, from + 1, to + 1)
    BY <2>2, <2>3, IntervalKept
  <2>5. /\ <<from, to>> # NoRange /\ <<from, to>>[1] = from /\ <<from, to>>[2] = to
    BY DEF NoRange
  <2>6. Slice(items, first, second) = SubSeq(items, from + 1, to + 1)
    BY <1>2, <1>4, <1>11, <2>5
  <2> QED BY <1>8, <2>4, <2>6 DEF RangesAreTheWindow, out, len
<1> HIDE DEF none
<1> QED BY <1>10, <1>11

\* LRANGE, LTRIM and ZRANGE select exactly the positions between their bounds, for
\* every list that pushes can build and bounds on either side of it.
THEOREM RangesSelectTheWindow ==
    ListInit /\ [][ListNext]_<<items, first, second>> => []RangesAreTheWindow
<1> DEFINE J == items \in Seq(Values) /\ first \in Int /\ second \in Int
<1>1. ListInit => J
  BY AlgorithmsAssumption DEF ListInit, Args
<1>2. J /\ [ListNext]_<<items, first, second>> => J'
  BY Push1Type DEF ListNext
<1>3. J => RangesAreTheWindow
  BY RangeIsWindow
<1> HIDE DEF J
<1> QED BY <1>1, <1>2, <1>3, PTL

-----------------------------------------------------------------------------
(* What is kept of a list, and in which place *)

\* How many of the indices K lie at or before i.
Rank(K, i) == Cardinality({j \in K : j <= i})

\* The n-th of the indices K.
NthOf(K, n) == CHOOSE i \in K : Rank(K, i) = n

\* The indices at or before one are finitely many.
LEMMA RankType ==
    ASSUME NEW len \in Nat, NEW K \in SUBSET (1 .. len), NEW i
    PROVE  IsFiniteSet({j \in K : j <= i}) /\ Rank(K, i) \in Nat
<1> DEFINE U == {j \in K : j <= i}
<1>1. U \in SUBSET (1 .. len)
  OBVIOUS
<1> HIDE DEF U
<1>2. IsFiniteSet(U) /\ Cardinality(U) \in Nat
  BY <1>1, FinitelyManyIndices
<1> QED BY <1>2 DEF Rank, U

\* Each index adds one to the rank.
LEMMA RankStep ==
    ASSUME NEW len \in Nat, NEW K \in SUBSET (1 .. len), NEW i \in K
    PROVE  Rank(K, i) = Cardinality({j \in K : j < i}) + 1
<1> DEFINE U == {j \in K : j < i}
<1>1. U \in SUBSET (1 .. len)
  OBVIOUS
<1>2. \A j \in K : j \in Nat
  OBVIOUS
<1>3. i \notin U /\ {j \in K : j <= i} = U \cup {i}
  <2>1. ~(i < i) /\ \A j \in K : j <= i <=> j < i \/ j = i
    BY <1>2
  <2> QED BY <2>1, Zenon
<1> HIDE DEF U
<1>4. Cardinality(U \cup {i}) = Cardinality(U) + 1
  BY <1>1, <1>3, FinitelyManyIndices, FS_AddElement
<1>5. Rank(K, i) = Cardinality(U \cup {i})
  BY <1>3 DEF Rank
<1>6. Rank(K, i) = Cardinality(U) + 1
  BY <1>4, <1>5
<1> QED BY <1>6 DEF U

\* Ranks are positions among the indices, in their order.
LEMMA RankOrder ==
    ASSUME NEW len \in Nat, NEW K \in SUBSET (1 .. len)
    PROVE  /\ \A i \in K : Rank(K, i) \in 1 .. Cardinality(K)
           /\ \A i, j \in K : i < j <=> Rank(K, i) < Rank(K, j)
           /\ \A i, j \in K : Rank(K, i) = Rank(K, j) => i = j
<1>0. IsFiniteSet(K) /\ Cardinality(K) \in Nat
  BY FinitelyManyIndices
<1>1. IsFiniteSet(K) /\ Cardinality(K) \in Nat /\ \A i \in K : i \in Nat
  BY <1>0
<1>2. ASSUME NEW i \in K PROVE Rank(K, i) \in 1 .. Cardinality(K)
  <2> DEFINE U == {j \in K : j <= i}
  <2>0. \A n \in Nat : n <= n
    OBVIOUS
  <2>1. U \in SUBSET K /\ i \in U
    BY <1>1, <2>0, Zenon
  <2> HIDE DEF U
  <2>2. IsFiniteSet(U) /\ Cardinality(U) <= Cardinality(K) /\ Cardinality(U) \in Nat
    BY <1>1, <2>1, FS_Subset, FS_CardinalityType
  <2>3. Cardinality(U) # 0
    BY <2>1, <2>2, FS_EmptySet
  <2> QED BY <1>1, <2>2, <2>3 DEF Rank, U
<1>3. ASSUME NEW i \in K, NEW j \in K, i < j PROVE Rank(K, i) < Rank(K, j)
  <2> DEFINE U == {n \in K : n <= i}
             V == {n \in K : n <= j}
  <2>0. j <= j /\ ~(j <= i) /\ \A n \in K : n <= i => n <= j
    BY <1>1, <1>3
  <2>1. U \in SUBSET V /\ j \in V /\ j \notin U
    BY <2>0
  <2>2. IsFiniteSet(V) /\ Cardinality(V) \in Nat /\ Cardinality(U) \in Nat
    BY RankType DEF Rank
  <2> HIDE DEF U, V
  <2>3. Cardinality(U) <= Cardinality(V) /\ (Cardinality(V) = Cardinality(U) => V = U)
    BY <2>1, <2>2, FS_Subset
  <2>4. Cardinality(U) < Cardinality(V)
    BY <2>1, <2>2, <2>3
  <2> QED BY <2>4 DEF Rank, U, V
<1>4. \A i \in K : Rank(K, i) \in Nat
  BY <1>2
<1>5. ASSUME NEW i \in K, NEW j \in K
      PROVE  /\ i < j <=> Rank(K, i) < Rank(K, j)
             /\ Rank(K, i) = Rank(K, j) => i = j
  <2> DEFINE a == Rank(K, i)
             b == Rank(K, j)
  <2>1. i \in Nat /\ j \in Nat /\ a \in Nat /\ b \in Nat
    BY <1>1, <1>4
  <2>2. (i < j => a < b) /\ (j < i => b < a) /\ (i = j => a = b)
    BY <1>3
  <2> HIDE DEF a, b
  <2>3. (i < j <=> a < b) /\ (a = b => i = j)
    BY <2>1, <2>2
  <2> QED BY <2>3 DEF a, b
<1> QED BY <1>2, <1>5

\* The n-th index is the index whose rank is n.
LEMMA NthRank ==
    ASSUME NEW len \in Nat, NEW K \in SUBSET (1 .. len)
    PROVE  /\ \A n \in 1 .. Cardinality(K) : NthOf(K, n) \in K /\ Rank(K, NthOf(K, n)) = n
           /\ \A i \in K : NthOf(K, Rank(K, i)) = i
<1>1. ASSUME NEW n \in 1 .. Cardinality(K)
      PROVE  NthOf(K, n) \in K /\ Rank(K, NthOf(K, n)) = n
  <2>1. \E i \in K : Rank(K, i) = n
    BY NthExists DEF Rank
  <2> QED BY <2>1 DEF NthOf
<1>2. ASSUME NEW i \in K PROVE NthOf(K, Rank(K, i)) = i
  <2>1. Rank(K, i) \in 1 .. Cardinality(K)
    BY RankOrder
  <2>2. NthOf(K, Rank(K, i)) \in K /\ Rank(K, NthOf(K, Rank(K, i))) = Rank(K, i)
    BY <1>1, <2>1
  <2> QED BY <2>2, RankOrder
<1> QED BY <1>1, <1>2

\* The list l holds the elements of a list at the indices K, in their order.
Selects(l, list, K) ==
    /\ K \in SUBSET (1 .. Len(list)) /\ Len(list) \in Nat
    /\ Cardinality(K) \in Nat
    /\ l = [n \in 1 .. Cardinality(K) |-> list[NthOf(K, n)]]
    /\ Len(l) = Cardinality(K)

\* What Without leaves: the elements at the indices that are kept, in their order.
LEMMA WithoutKept ==
    ASSUME NEW S, NEW list \in Seq(S), NEW gone
    PROVE  Selects(Without(list, gone), list, DOMAIN list \ gone)
<1> DEFINE K == DOMAIN list \ gone
<1>1. K \in SUBSET (1 .. Len(list)) /\ Len(list) \in Nat
  OBVIOUS
<1>2. Cardinality(K) \in Nat
  BY <1>1, FinitelyManyIndices
<1>3. K = {i \in DOMAIN list : i \notin gone}
  OBVIOUS
<1>4. Without(list, gone) = [n \in 1 .. Cardinality(K) |-> list[NthOf(K, n)]]
  <2> DEFINE Kept == {i \in DOMAIN list : i \notin gone}
  <2>1. Without(list, gone) = [n \in 1 .. Cardinality(Kept) |-> list[NthOf(Kept, n)]]
    BY Zenon DEF Without, NthOf, Rank
  <2>2. K = Kept
    BY <1>3
  <2> QED BY ONLY <2>1, <2>2
<1>5. Without(list, gone) \in Seq(S)
  BY WithoutType
<1>6. Len(Without(list, gone)) = Cardinality(K)
  BY <1>2, <1>4, <1>5
<1> QED BY <1>1, <1>2, <1>4, <1>6 DEF Selects

\* Taking one index away lowers the ranks of the ones after it.
LEMMA RankWithoutOne ==
    ASSUME NEW len \in Nat, NEW K \in SUBSET (1 .. len), NEW m \in K, NEW i \in K \ {m}
    PROVE  Rank(K \ {m}, i) = IF i < m THEN Rank(K, i) ELSE Rank(K, i) - 1
<1> DEFINE U == {j \in K : j <= i}
           V == {j \in K \ {m} : j <= i}
<1>1. i \in Nat /\ m \in Nat /\ i # m
  OBVIOUS
<1>2. IsFiniteSet(U) /\ Cardinality(U) \in Nat
  BY RankType DEF Rank
<1>3. V = U \ {m} /\ (m \in U <=> ~(i < m))
  BY <1>1
<1> HIDE DEF U, V
<1>4. Cardinality(V) = IF m \in U THEN Cardinality(U) - 1 ELSE Cardinality(U)
  BY <1>2, <1>3, FS_RemoveElement
<1>5. Cardinality(V) = IF i < m THEN Cardinality(U) ELSE Cardinality(U) - 1
  BY <1>3, <1>4
<1> QED BY <1>5 DEF Rank, U, V

\* What is left after one index is taken away, one by one.
LEMMA NthWithoutOne ==
    ASSUME NEW len \in Nat, NEW K \in SUBSET (1 .. len), NEW m \in K
    PROVE  /\ Cardinality(K \ {m}) = Cardinality(K) - 1
           /\ \A n \in 1 .. Cardinality(K) - 1 :
                 NthOf(K \ {m}, n) = IF n < Rank(K, m) THEN NthOf(K, n) ELSE NthOf(K, n + 1)
<1> DEFINE L == K \ {m}
           c == Cardinality(K)
           p == Rank(K, m)
<1>1. IsFiniteSet(K) /\ c \in Nat
  BY FinitelyManyIndices
<1>2. Cardinality(L) = c - 1
  BY <1>1, FS_RemoveElement
<1>3. L \in SUBSET (1 .. len) /\ \A i \in K : i \in Nat
  OBVIOUS
<1>4. p \in 1 .. c
  BY RankOrder
<1>5. ASSUME NEW n \in 1 .. c - 1
      PROVE  NthOf(L, n) = IF n < p THEN NthOf(K, n) ELSE NthOf(K, n + 1)
  <2> DEFINE k == IF n < p THEN n ELSE n + 1
             i == NthOf(K, k)
  <2>1. k \in 1 .. c /\ k # p /\ (k < p <=> n < p) /\ n \in Nat
    BY <1>1, <1>4
  <2>2. i \in K /\ Rank(K, i) = k
    <3> HIDE DEF k, c
    <3> QED BY <2>1, NthRank DEF c
  <2> HIDE DEF i
  <2>0. \A a, b \in K : a < b <=> Rank(K, a) < Rank(K, b)
    BY RankOrder
  <2>3. i # m /\ (i < m <=> n < p)
    <3>1. i # m /\ (i < m <=> k < p)
      BY <2>0, <2>1, <2>2
    <3> QED BY <2>1, <3>1
  <2>4. Rank(L, i) = IF i < m THEN k ELSE k - 1
    <3> HIDE DEF k
    <3>1. i \in K \ {m}
      BY <2>2, <2>3
    <3>2. Rank(L, i) = IF i < m THEN Rank(K, i) ELSE Rank(K, i) - 1
      BY <3>1, RankWithoutOne
    <3> QED BY <2>2, <3>2
  <2>5. Rank(L, i) = n
    BY <2>1, <2>3, <2>4
  <2>6. NthOf(L, n) = i
    <3> HIDE DEF L
    <3>1. i \in L
      BY <2>2, <2>3 DEF L
    <3> QED BY <1>3, <2>5, <3>1, NthRank
  <2> QED BY <2>6 DEF i
<1> QED BY <1>2, <1>5

\* Where a value first occurs, and the list without that occurrence.
FirstAt(l, v, p) == p \in 1 .. Len(l) /\ l[p] = v /\ \A q \in 1 .. Len(l) : q < p => l[q] # v
OneTaken(l, p) == [n \in 1 .. Len(l) - 1 |-> IF n < p THEN l[n] ELSE l[n + 1]]

\* Removing the first occurrence, where there is one.
LEMMA RemoveFirstFound ==
    ASSUME NEW S, NEW l \in Seq(S), NEW v, NEW p, FirstAt(l, v, p)
    PROVE  RemoveFirst(l, v) = OneTaken(l, p)
<1> USE DEF FirstAt
<1> DEFINE I == {i \in 1 .. Len(l) : l[i] = v}
<1>1. Len(l) \in Nat /\ p \in I /\ \A q \in I : p <= q
  OBVIOUS
<1>2. \A q \in I : q \in Int
  OBVIOUS
<1>3. Min(I) = p
  <2> HIDE DEF I
  <2>1. \A x \in I : (\A y \in I : x <= y) => x = p
    BY <1>1, <1>2
  <2> QED BY <1>1, <2>1 DEF Min
<1>4. SelectInSeq(l, LAMBDA x : x = v) = p
  BY <1>1, <1>3 DEF SelectInSeq
<1>5. RemoveFirst(l, v) = SubSeq(l, 1, p - 1) \o SubSeq(l, p + 1, Len(l))
  BY <1>1, <1>4 DEF RemoveFirst, RemoveAt
<1>6. /\ SubSeq(l, 1, p - 1) = [n \in 1 .. p - 1 |-> l[n]]
      /\ SubSeq(l, p + 1, Len(l)) = [n \in 1 .. Len(l) - p |-> l[p + n]]
  BY <1>1
<1>7. [n \in 1 .. p - 1 |-> l[n]] \in Seq(S) /\ [n \in 1 .. Len(l) - p |-> l[p + n]] \in Seq(S)
  BY <1>1
<1>8. SubSeq(l, 1, p - 1) \o SubSeq(l, p + 1, Len(l)) = OneTaken(l, p)
  <2> DEFINE a == [n \in 1 .. p - 1 |-> l[n]]
             b == [n \in 1 .. Len(l) - p |-> l[p + n]]
  <2>1. /\ p - 1 \in Nat /\ Len(l) - p \in Nat /\ (p - 1) + (Len(l) - p) = Len(l) - 1
        /\ p \in Nat
    BY <1>1
  <2>2. Len(a) = p - 1 /\ Len(b) = Len(l) - p
    BY <1>7, <2>1
  <2>3. a \o b = [n \in 1 .. Len(l) - 1 |-> IF n <= p - 1 THEN a[n] ELSE b[n - (p - 1)]]
    <3> HIDE DEF a, b
    <3> QED BY <1>7, <2>1, <2>2 DEF a, b
  <2>4. ASSUME NEW n \in 1 .. Len(l) - 1
        PROVE  (IF n <= p - 1 THEN a[n] ELSE b[n - (p - 1)]) = IF n < p THEN l[n] ELSE l[n + 1]
    <3>1. CASE n < p
      <4>1. n <= p - 1 /\ n \in 1 .. p - 1
        BY <1>1, <2>1, <3>1
      <4> QED BY <3>1, <4>1
    <3>2. CASE ~(n < p)
      <4>1. ~(n <= p - 1) /\ n - (p - 1) \in 1 .. Len(l) - p /\ p + (n - (p - 1)) = n + 1
        BY <1>1, <2>1, <3>2
      <4> QED BY <3>2, <4>1
    <3> QED BY <3>1, <3>2
  <2> HIDE DEF a, b
  <2>5. a \o b = OneTaken(l, p)
    BY <2>3, <2>4 DEF OneTaken
  <2> QED BY <1>6, <2>5 DEF a, b
<1> QED BY <1>5, <1>8

\* Removing the first occurrence, where there is none.
LEMMA RemoveFirstMissing ==
    ASSUME NEW S, NEW l \in Seq(S), NEW v, \A q \in 1 .. Len(l) : l[q] # v
    PROVE  RemoveFirst(l, v) = l
BY DEF RemoveFirst

\* Removing the first occurrence from what is kept of a list takes the first index
\* that is kept and holds the value.
LEMMA RemovesNext ==
    ASSUME NEW S, NEW list \in Seq(S), NEW gone, NEW v, NEW m \in DOMAIN list \ gone,
           list[m] = v, \A j \in DOMAIN list \ gone : j < m => list[j] # v
    PROVE  RemoveFirst(Without(list, gone), v) = Without(list, gone \cup {m})
<1> DEFINE K == DOMAIN list \ gone
           W == Without(list, gone)
           c == Cardinality(K)
           p == Rank(K, m)
<1>1. /\ K \in SUBSET (1 .. Len(list)) /\ Len(list) \in Nat /\ c \in Nat
      /\ W = [n \in 1 .. c |-> list[NthOf(K, n)]] /\ W \in Seq(S) /\ Len(W) = c
  <2>1. Selects(W, list, K) /\ W \in Seq(S)
    BY WithoutKept, WithoutType
  <2> QED BY <2>1 DEF Selects
<1>2. m \in K /\ K \ {m} = DOMAIN list \ (gone \cup {m})
  OBVIOUS
<1>3. \A j \in K : j < m => list[j] # v
  OBVIOUS
<1> HIDE DEF K, W, c
<1>4. p \in 1 .. c
  BY <1>1, <1>2, RankOrder DEF c
<1>5. W[p] = v
  BY <1>1, <1>2, <1>4, NthRank
<1>6. ASSUME NEW q \in 1 .. c, q < p PROVE W[q] # v
  <2>1. NthOf(K, q) \in K /\ Rank(K, NthOf(K, q)) = q
    BY <1>1, NthRank DEF c
  <2>0. \A a, b \in K : a < b <=> Rank(K, a) < Rank(K, b)
    BY <1>1, RankOrder
  <2>2. NthOf(K, q) < m
    BY <1>2, <1>6, <2>0, <2>1
  <2> QED BY <1>1, <1>3, <2>1, <2>2
<1>7. RemoveFirst(W, v) = [n \in 1 .. c - 1 |-> IF n < p THEN W[n] ELSE W[n + 1]]
  <2> HIDE DEF p
  <2>1. FirstAt(W, v, p)
    BY <1>1, <1>4, <1>5, <1>6 DEF FirstAt
  <2>2. RemoveFirst(W, v) = OneTaken(W, p)
    BY <1>1, <2>1, RemoveFirstFound
  <2> QED BY <1>1, <2>2 DEF OneTaken
<1>8. Without(list, gone \cup {m}) = [n \in 1 .. Cardinality(K \ {m}) |-> list[NthOf(K \ {m}, n)]]
  <2>1. Selects(Without(list, gone \cup {m}), list, K \ {m})
    BY <1>2, WithoutKept
  <2> QED BY <2>1 DEF Selects
<1>9. Cardinality(K \ {m}) = c - 1
  BY <1>1, <1>2, NthWithoutOne DEF c
<1>10. ASSUME NEW n \in 1 .. c - 1
       PROVE  list[NthOf(K \ {m}, n)] = IF n < p THEN W[n] ELSE W[n + 1]
  <2>1. NthOf(K \ {m}, n) = IF n < p THEN NthOf(K, n) ELSE NthOf(K, n + 1)
    BY <1>1, <1>2, NthWithoutOne DEF c
  <2>2. n \in 1 .. c /\ n + 1 \in 1 .. c
    BY <1>1
  <2> QED BY <1>1, <2>1, <2>2
<1> HIDE DEF p
<1> QED BY <1>7, <1>8, <1>9, <1>10 DEF W

-----------------------------------------------------------------------------
(* LREM: the first matches, one by one *)

\* The first n indices at which a list holds a value.
FirstMatches(list, value, n) ==
    {i \in Matches(list, value) : Cardinality({j \in Matches(list, value) : j < i}) < n}

\* They are the matches of the lowest ranks.
LEMMA FirstByRank ==
    ASSUME NEW S, NEW list \in Seq(S), NEW v, NEW n \in Nat
    PROVE  /\ Matches(list, v) \in SUBSET (1 .. Len(list)) /\ Len(list) \in Nat
           /\ FirstMatches(list, v, n) = {i \in Matches(list, v) : Rank(Matches(list, v), i) <= n}
<1> DEFINE M == Matches(list, v)
           len == Len(list)
<1>1. M \in SUBSET (1 .. len) /\ len \in Nat
  BY DEF Matches
<1> HIDE DEF M, len
<1>2. ASSUME NEW i \in M PROVE Cardinality({j \in M : j < i}) < n <=> Rank(M, i) <= n
  <2> DEFINE c == Cardinality({j \in M : j < i})
             r == Rank(M, i)
  <2>1. {j \in M : j < i} \in SUBSET (1 .. len)
    BY <1>1
  <2>2. c \in Nat
    BY <1>1, <2>1, FinitelyManyIndices
  <2>3. r = c + 1
    BY <1>1, RankStep
  <2> HIDE DEF c, r
  <2>4. c < n <=> r <= n
    BY <2>2, <2>3
  <2> QED BY <2>4 DEF c, r
<1>3. FirstMatches(list, v, n) = {i \in M : Cardinality({j \in M : j < i}) < n}
  BY DEF FirstMatches, M
<1>4. FirstMatches(list, v, n) = {i \in M : Rank(M, i) <= n}
  BY <1>2, <1>3, Zenon
<1> QED BY <1>1, <1>4 DEF M, len

\* Removing the first occurrence removes the next match.
LEMMA NextMatch ==
    ASSUME NEW S, NEW list \in Seq(S), NEW v, NEW k \in Nat
    PROVE  RemoveFirst(Without(list, FirstMatches(list, v, k)), v)
             = Without(list, FirstMatches(list, v, k + 1))
<1> DEFINE M == Matches(list, v)
           len == Len(list)
           Gone(n) == FirstMatches(list, v, n)
           c == Cardinality(M)
<1>1. M \in SUBSET (1 .. len) /\ len \in Nat /\ c \in Nat
  BY FirstByRank, FinitelyManyIndices
<1>2. \A n \in Nat : Gone(n) = {i \in M : Rank(M, i) <= n}
  BY FirstByRank
<1>3. DOMAIN list = 1 .. len /\ \A i \in DOMAIN list : i \in M <=> list[i] = v
  BY DEF Matches
<1> HIDE DEF M, Gone, len
<1>4. /\ \A i \in M : Rank(M, i) \in 1 .. c
      /\ \A i, j \in M : i < j <=> Rank(M, i) < Rank(M, j)
      /\ \A i, j \in M : Rank(M, i) = Rank(M, j) => i = j
  BY <1>1, RankOrder
<1> HIDE DEF c
<1>5. CASE k < c
  <2> DEFINE m == NthOf(M, k + 1)
  <2>1. k + 1 \in 1 .. c
    BY <1>1, <1>5
  <2>2. m \in M /\ Rank(M, m) = k + 1
    BY <1>1, <2>1, NthRank DEF c
  <2> HIDE DEF m
  <2>3. m \in DOMAIN list \ Gone(k) /\ list[m] = v
    BY <1>1, <1>2, <1>3, <2>2
  <2>4. ASSUME NEW j \in DOMAIN list \ Gone(k), j < m PROVE list[j] # v
    <3>1. j \in M => Rank(M, j) < k + 1 /\ Rank(M, j) \in Nat
      BY <1>4, <2>2, <2>4
    <3>2. j \in M => Rank(M, j) <= k
      BY <3>1
    <3>3. j \notin M
      BY <1>2, <3>2
    <3> QED BY <1>3, <3>3
  <2>5. Gone(k + 1) = Gone(k) \cup {m}
    <3>1. \A i \in M : Rank(M, i) <= k + 1 <=> Rank(M, i) <= k \/ i = m
      BY <1>1, <1>4, <2>2
    <3>2. Gone(k + 1) = {i \in M : Rank(M, i) <= k + 1} /\ Gone(k) = {i \in M : Rank(M, i) <= k}
      BY <1>2
    <3> QED BY <2>2, <3>1, <3>2, Zenon
  <2>6. RemoveFirst(Without(list, Gone(k)), v) = Without(list, Gone(k) \cup {m})
    BY <2>3, <2>4, RemovesNext
  <2> QED BY <2>5, <2>6 DEF Gone
<1>6. CASE ~(k < c)
  <2>1. Gone(k) = M /\ Gone(k + 1) = M
    <3>1. \A i \in M : Rank(M, i) <= k /\ Rank(M, i) <= k + 1
      BY <1>1, <1>4, <1>6
    <3>2. Gone(k + 1) = {i \in M : Rank(M, i) <= k + 1} /\ Gone(k) = {i \in M : Rank(M, i) <= k}
      BY <1>2
    <3> QED BY <3>1, <3>2, Zenon
  <2> DEFINE W == Without(list, M)
             K == DOMAIN list \ M
  <2>2. Selects(W, list, K) /\ W \in Seq(S)
    BY WithoutKept, WithoutType
  <2>3. ASSUME NEW q \in 1 .. Len(W) PROVE W[q] # v
    <3> HIDE DEF W, K
    <3>1. q \in 1 .. Cardinality(K) /\ W[q] = list[NthOf(K, q)]
      BY <2>2 DEF Selects
    <3>2. K \in SUBSET (1 .. Len(list)) /\ Len(list) \in Nat
      BY <2>2 DEF Selects
    <3>3. NthOf(K, q) \in K
      BY <3>1, <3>2, NthRank
    <3> QED BY <1>3, <3>1, <3>3 DEF K
  <2> HIDE DEF W
  <2>4. RemoveFirst(W, v) = W
    BY <2>2, <2>3, RemoveFirstMissing
  <2> QED BY <2>1, <2>4 DEF Gone, W
<1> QED BY <1>1, <1>5, <1>6

\* Without nothing removed, a list is itself.
LEMMA NothingGone ==
    ASSUME NEW S, NEW list \in Seq(S), NEW v
    PROVE  Without(list, FirstMatches(list, v, 0)) = list
<1> DEFINE gone == FirstMatches(list, v, 0)
           K == {i \in DOMAIN list : i \notin gone}
           len == Len(list)
<1>1. Matches(list, v) \in SUBSET (1 .. len) /\ len \in Nat /\ DOMAIN list = 1 .. len
  BY DEF Matches
<1>2. gone = {}
  <2>1. \A i \in Matches(list, v) : Rank(Matches(list, v), i) \in 1 .. Cardinality(Matches(list, v))
    BY <1>1, RankOrder
  <2>2. \A i \in Matches(list, v) : ~(Rank(Matches(list, v), i) <= 0)
    BY <2>1
  <2> QED BY <2>2, FirstByRank
<1>3. K = 1 .. len
  BY <1>1, <1>2
<1> HIDE DEF gone
<1>4. CASE len = 0
  <2>1. K = {} /\ list = <<>>
    BY <1>1, <1>3, <1>4
  <2> QED BY <2>1, NothingKept DEF gone
<1>5. CASE len # 0
  <2>1. 1 \in Nat /\ len \in Nat /\ 1 <= 1 /\ 1 <= len /\ len <= Len(list)
    BY <1>1, <1>5
  <2>2. Without(list, gone) = SubSeq(list, 1, len)
    BY <1>3, <2>1, IntervalKept
  <2>3. SubSeq(list, 1, len) = list
    OBVIOUS
  <2> QED BY <2>2, <2>3 DEF gone
<1> QED BY <1>4, <1>5

\* Removing n times removes the first n matches.
LEMMA RemovingFirst ==
    ASSUME NEW S, NEW list \in Seq(S), NEW v, NEW n \in Nat
    PROVE  Removing(list, v, n) = Without(list, FirstMatches(list, v, n))
<1> DEFINE I == 0 .. n
           W(k) == Without(list, FirstMatches(list, v, k))
           Body(f, k) == IF k = 0 THEN list ELSE RemoveFirst(f[k - 1], v)
           Step == CHOOSE f : f = [k \in I |-> Body(f, k)]
           F == [k \in I |-> W(k)]
<1>1. W(0) = list /\ \A k \in Nat : RemoveFirst(W(k), v) = W(k + 1)
  BY NothingGone, NextMatch
<1>2. Removing(list, v, n) = Step[n]
  BY DEF Removing
<1> HIDE DEF W
<1>3. F = [k \in I |-> Body(F, k)]
  <2>1. ASSUME NEW k \in I PROVE W(k) = Body(F, k)
    <3>1. CASE k = 0
      BY <1>1, <3>1
    <3>2. CASE k # 0
      <4>1. k - 1 \in Nat /\ k - 1 \in I /\ (k - 1) + 1 = k
        BY <3>2
      <4>2. F[k - 1] = W(k - 1)
        BY <4>1
      <4>3. RemoveFirst(W(k - 1), v) = W(k)
        BY <1>1, <4>1
      <4> HIDE DEF F
      <4> QED BY <3>2, <4>2, <4>3
    <3> QED BY <3>1, <3>2
  <2> HIDE DEF Body, I
  <2>2. \A k \in I : W(k) = Body(F, k)
    BY <2>1
  <2>3. [k \in I |-> W(k)] = [k \in I |-> Body(F, k)]
    BY <2>2
  <2> QED BY <2>3, Zenon
<1>4. Step = [k \in I |-> Body(Step, k)]
  <2> HIDE DEF Body, I, F
  <2> QED BY <1>3
<1> HIDE DEF Step
<1>5. Step[0] = list /\ \A k \in 0 .. n - 1 : Step[k + 1] = RemoveFirst(Step[k], v)
  <2>1. \A k \in I : Step[k] = Body(Step, k)
    <3> HIDE DEF Body, I
    <3> QED BY <1>4
  <2>2. 0 \in I /\ \A k \in 0 .. n - 1 : k + 1 \in I /\ k + 1 # 0 /\ (k + 1) - 1 = k
    OBVIOUS
  <2> QED BY <2>1, <2>2
<1> DEFINE T == {k \in Nat : Step[k] = W(k)}
<1>6. 0 \in T
  BY <1>1, <1>5
<1>7. ASSUME NEW k \in 0 .. n - 1, k \in T PROVE k + 1 \in T
  <2>1. k \in Nat /\ k + 1 \in Nat /\ Step[k] = W(k)
    BY <1>7
  <2>2. Step[k + 1] = W(k + 1)
    BY <1>1, <1>5, <2>1
  <2> QED BY <2>1, <2>2
<1> HIDE DEF T
<1>8. \A k \in 0 .. n : k \in T
  <2>1. 0 \in Int /\ n \in Int
    OBVIOUS
  <2> QED BY ONLY <1>6, <1>7, <2>1, IntervalInduction
<1>9. n \in T
  BY <1>8
<1> QED BY <1>2, <1>9 DEF T, W

-----------------------------------------------------------------------------
(* LREM from the tail: the mirror image *)

\* The last n indices at which a list holds a value.
LastMatches(list, value, n) ==
    {i \in Matches(list, value) : Cardinality({j \in Matches(list, value) : j > i}) < n}

\* The indices of the reversed list.
Mirror(len, K) == {i \in 1 .. len : len + 1 - i \in K}

\* A set of indices and its mirror image are equally many.
LEMMA MirrorCardinality ==
    ASSUME NEW len \in Nat, NEW K \in SUBSET (1 .. len)
    PROVE  /\ Mirror(len, K) \in SUBSET (1 .. len)
           /\ Cardinality(Mirror(len, K)) = Cardinality(K)
           /\ \A i \in 1 .. len : len + 1 - i \in Mirror(len, K) <=> i \in K
<1> DEFINE L == Mirror(len, K)
           f == [i \in K |-> len + 1 - i]
<1>0. L \in SUBSET (1 .. len)
  BY DEF Mirror
<1>1. ASSUME NEW i \in 1 .. len PROVE len + 1 - i \in L <=> i \in K
  <2>1. len + 1 - i \in 1 .. len /\ len + 1 - (len + 1 - i) = i
    OBVIOUS
  <2> QED BY <2>1 DEF Mirror
<1>2. f \in Bijection(K, L)
  <2>1. f \in [K -> L]
    BY <1>1
  <2>2. \A i, j \in K : f[i] = f[j] => i = j
    <3>1. \A i \in K : i \in Int
      OBVIOUS
    <3> QED BY <3>1
  <2>3. ASSUME NEW j \in L PROVE \E i \in K : f[i] = j
    <3>1. len + 1 - j \in K /\ j \in Int /\ len + 1 - (len + 1 - j) = j
      BY <1>0, <2>3 DEF Mirror
    <3> QED BY <3>1
  <2> HIDE DEF f, L
  <2> QED BY <2>1, <2>2, <2>3 DEF Bijection, Injection, Surjection, IsInjective
<1>3. ExistsBijection(K, L)
  BY <1>2 DEF ExistsBijection
<1>4. IsFiniteSet(K)
  BY FinitelyManyIndices
<1> HIDE DEF L
<1>5. Cardinality(L) = Cardinality(K)
  BY <1>3, <1>4, FS_Bijection
<1> QED BY <1>0, <1>1, <1>5 DEF L

\* The rank of an index in the mirror image: one more than there are indices after it.
LEMMA MirrorRank ==
    ASSUME NEW len \in Nat, NEW K \in SUBSET (1 .. len), NEW i \in K
    PROVE  /\ Rank(Mirror(len, K), len + 1 - i) = Cardinality({j \in K : j > i}) + 1
           /\ Rank(Mirror(len, K), len + 1 - i) = Cardinality(K) - Rank(K, i) + 1
<1> DEFINE After == {j \in K : j > i}
           From == {j \in K : j >= i}
           Upto == {j \in K : j <= i}
           n == len + 1 - i
<1>1. \A j \in K : j \in Nat /\ j \in 1 .. len
  OBVIOUS
<1>2. /\ From = After \cup {i} /\ i \notin After
      /\ K = Upto \cup After /\ Upto \cap After = {}
  <2>1. \A j \in K : /\ j >= i <=> j > i \/ j = i
                     /\ j <= i \/ j > i
                     /\ ~(j <= i /\ j > i)
                     /\ ~(i > i)
    BY <1>1
  <2> QED BY <2>1
<1>3. /\ IsFiniteSet(After) /\ Cardinality(After) \in Nat
      /\ IsFiniteSet(Upto) /\ Cardinality(Upto) \in Nat
  <2>1. After \in SUBSET (1 .. len) /\ Upto \in SUBSET (1 .. len)
    OBVIOUS
  <2> HIDE DEF After, Upto
  <2> QED BY <2>1, FinitelyManyIndices
<1>4. {j \in Mirror(len, K) : j <= n} = Mirror(len, From)
  <2>1. ASSUME NEW j \in 1 .. len PROVE j <= n <=> len + 1 - j >= i
    BY <1>1
  <2>2. \A j \in 1 .. len : len + 1 - j \in From <=> len + 1 - j \in K /\ j <= n
    BY <2>1
  <2> HIDE DEF From, n
  <2> QED BY <2>2, Zenon DEF Mirror
<1>5. Cardinality(Mirror(len, From)) = Cardinality(From)
  <2>1. From \in SUBSET (1 .. len)
    OBVIOUS
  <2> HIDE DEF From
  <2> QED BY <2>1, MirrorCardinality
<1>6. Rank(Mirror(len, K), n) = Cardinality(From)
  <2> HIDE DEF n, From
  <2> QED BY <1>4, <1>5 DEF Rank
<1>7. Rank(K, i) = Cardinality(Upto)
  BY DEF Rank
<1> HIDE DEF After, From, Upto, n
<1>8. Cardinality(From) = Cardinality(After) + 1
  BY <1>2, <1>3, FS_AddElement
<1>9. Cardinality(K) = Cardinality(Upto) + Cardinality(After)
  BY <1>2, <1>3, FS_Union, FS_EmptySet
<1>10. /\ Rank(Mirror(len, K), n) = Cardinality(After) + 1
       /\ Rank(Mirror(len, K), n) = Cardinality(K) - Rank(K, i) + 1
  BY <1>3, <1>6, <1>7, <1>8, <1>9
<1> QED BY <1>10 DEF After, n

\* The reverse of a list.
LEMMA ReverseIs ==
    ASSUME NEW S, NEW list \in Seq(S)
    PROVE  /\ Reverse(list) \in Seq(S) /\ Len(Reverse(list)) = Len(list)
           /\ \A i \in 1 .. Len(list) : Reverse(list)[i] = list[Len(list) + 1 - i]
<1>1. Len(list) \in Nat
  OBVIOUS
<1>2. \A i \in 1 .. Len(list) : /\ Len(list) - i + 1 = Len(list) + 1 - i
                                /\ list[Len(list) - i + 1] \in S
  BY <1>1
<1>3. Reverse(list) = [i \in 1 .. Len(list) |-> list[Len(list) - i + 1]]
  BY DEF Reverse
<1> QED BY <1>1, <1>2, <1>3

\* The first matches of the reversed list are the last ones of the list.
LEMMA LastFromTail ==
    ASSUME NEW S, NEW list \in Seq(S), NEW v, NEW n \in Nat
    PROVE  FirstMatches(Reverse(list), v, n) = Mirror(Len(list), LastMatches(list, v, n))
<1> DEFINE len == Len(list)
           M == Matches(list, v)
           N == Matches(Reverse(list), v)
           After(i) == Cardinality({j \in M : j > i})
<1>1. Reverse(list) \in Seq(S) /\ Len(Reverse(list)) = len /\ len \in Nat
  BY ReverseIs
<1>2. N = Mirror(len, M)
  <2>1. DOMAIN Reverse(list) = 1 .. len /\ DOMAIN list = 1 .. len
    BY <1>1
  <2>2. \A i \in 1 .. len : len + 1 - i \in 1 .. len /\ Reverse(list)[i] = list[len + 1 - i]
    BY <1>1, ReverseIs
  <2> HIDE DEF len
  <2> QED BY <2>1, <2>2 DEF Matches, Mirror
<1>3. M \in SUBSET (1 .. len)
  BY DEF Matches
<1>4. FirstMatches(Reverse(list), v, n) = {i \in N : Rank(N, i) <= n}
  BY <1>1, FirstByRank
<1>5. LastMatches(list, v, n) = {i \in M : After(i) < n}
  BY DEF LastMatches
<1> HIDE DEF len, M, N, After
<1>6. ASSUME NEW i \in 1 .. len, len + 1 - i \in M
      PROVE  Rank(N, i) <= n <=> After(len + 1 - i) < n
  <2> DEFINE m == len + 1 - i
             r == Rank(N, i)
             a == After(m)
  <2>1. len + 1 - m = i
    BY <1>1
  <2>2. r = a + 1
    <3> HIDE DEF m
    <3>1. m \in M
      BY <1>6 DEF m
    <3>2. Rank(Mirror(len, M), len + 1 - m) = Cardinality({j \in M : j > m}) + 1
      BY <1>1, <1>3, <3>1, MirrorRank
    <3> QED BY <1>2, <2>1, <3>2 DEF After
  <2>3. a \in Nat
    <3> DEFINE U == {j \in M : j > m}
    <3>1. U \in SUBSET (1 .. len)
      BY <1>3
    <3> HIDE DEF U
    <3>2. Cardinality(U) \in Nat
      BY <1>1, <3>1, FinitelyManyIndices
    <3> QED BY <3>2 DEF U, After
  <2> HIDE DEF r, a, m
  <2>4. r <= n <=> a < n
    BY <2>2, <2>3
  <2> QED BY <2>4 DEF r, a, m
<1>7. \A i \in 1 .. len : i \in N <=> len + 1 - i \in M
  BY <1>2 DEF Mirror
<1>8. N \in SUBSET (1 .. len)
  BY <1>2 DEF Mirror
<1>9. \A i \in 1 .. len : (i \in N /\ Rank(N, i) <= n)
                            <=> (len + 1 - i \in M /\ After(len + 1 - i) < n)
  BY <1>6, <1>7
<1>10. {i \in N : Rank(N, i) <= n} = Mirror(len, {i \in M : After(i) < n})
  BY <1>8, <1>9 DEF Mirror
<1> QED BY <1>4, <1>5, <1>10 DEF len

\* Thinning the reversed list at the mirrored indices and reversing the result.
LEMMA MirroredThinning ==
    ASSUME NEW S, NEW list \in Seq(S), NEW gone \in SUBSET (1 .. Len(list))
    PROVE  Reverse(Without(Reverse(list), Mirror(Len(list), gone))) = Without(list, gone)
<1> DEFINE len == Len(list)
           rev == Reverse(list)
           K == DOMAIN list \ gone
           L == Mirror(len, K)
           c == Cardinality(K)
           W == Without(rev, Mirror(len, gone))
           V == Without(list, gone)
<1>1. /\ rev \in Seq(S) /\ Len(rev) = len /\ len \in Nat
      /\ \A i \in 1 .. len : rev[i] = list[len + 1 - i]
  BY ReverseIs
<1>2. DOMAIN list = 1 .. len /\ DOMAIN rev = 1 .. len
  BY <1>1
<1>3. Selects(V, list, K)
  BY WithoutKept
<1>4. Selects(W, rev, L) /\ W \in Seq(S)
  <2>1. L = DOMAIN rev \ Mirror(len, gone)
    <3>1. \A i \in 1 .. len : len + 1 - i \in 1 .. len
      BY <1>1
    <3> QED BY <1>2, <3>1 DEF Mirror
  <2> QED BY <1>1, <2>1, WithoutKept, WithoutType
<1>5. K \in SUBSET (1 .. len)
  BY <1>2
<1> HIDE DEF V, W, K, len, rev
<1>6. Cardinality(L) = c /\ L \in SUBSET (1 .. len)
  BY <1>1, <1>5, MirrorCardinality
<1>7. /\ c \in Nat /\ Len(W) = c /\ Len(V) = c
      /\ V = [n \in 1 .. c |-> list[NthOf(K, n)]]
      /\ \A n \in 1 .. c : W[n] = rev[NthOf(L, n)]
  BY <1>3, <1>4, <1>6 DEF Selects
<1>8. ASSUME NEW n \in 1 .. c
      PROVE  W[c + 1 - n] = V[n]
  <2> DEFINE i == NthOf(K, n)
             m == c + 1 - n
  <2>1. i \in K /\ Rank(K, i) = n
    BY <1>1, <1>5, NthRank
  <2>2. i \in 1 .. len /\ len + 1 - i \in 1 .. len /\ len + 1 - (len + 1 - i) = i
    <3> HIDE DEF i
    <3>1. i \in 1 .. len /\ len \in Nat
      BY <1>1, <1>5, <2>1
    <3> QED BY ONLY <3>1
  <2>3. m \in 1 .. c /\ c - n + 1 = m
    BY <1>7
  <2> HIDE DEF i, m
  <2>4. Rank(L, len + 1 - i) = m
    <3>1. Rank(Mirror(len, K), len + 1 - i) = Cardinality(K) - Rank(K, i) + 1
      BY <1>1, <1>5, <2>1, MirrorRank
    <3>2. Rank(L, len + 1 - i) = c - n + 1
      BY <2>1, <3>1
    <3> QED BY <2>3, <3>2
  <2>5. len + 1 - i \in L
    BY <1>1, <1>5, <2>1, <2>2, MirrorCardinality
  <2>6. NthOf(L, m) = len + 1 - i
    <3>1. \A j \in L : NthOf(L, Rank(L, j)) = j
      <4> HIDE DEF L
      <4> QED BY <1>1, <1>6, NthRank
    <3> HIDE DEF L
    <3> QED BY <2>4, <2>5, <3>1
  <2>7. W[m] = rev[len + 1 - i]
    BY <1>7, <2>3, <2>6
  <2>8. W[m] = list[i]
    <3>1. rev[len + 1 - i] = list[len + 1 - (len + 1 - i)]
      BY <1>1, <2>2
    <3> QED BY <2>2, <2>7, <3>1
  <2>9. V[n] = list[i]
    BY <1>7 DEF i
  <2> QED BY <2>8, <2>9 DEF m
<1>9. /\ Reverse(W) \in Seq(S) /\ Len(Reverse(W)) = c
      /\ \A n \in 1 .. c : Reverse(W)[n] = W[c + 1 - n]
  BY <1>4, <1>7, ReverseIs
<1>10. V \in Seq(S)
  BY WithoutType DEF V
<1> HIDE DEF c
<1>11. Reverse(W) = V
  <2> DEFINE R == Reverse(W)
  <2>1. R \in Seq(S) /\ Len(R) = c /\ Len(V) = c /\ \A n \in 1 .. c : R[n] = V[n]
    BY <1>7, <1>8, <1>9
  <2> HIDE DEF R
  <2>2. R = V
    BY <1>10, <2>1, SeqEqual
  <2> QED BY <2>2 DEF R
<1> QED BY <1>11 DEF W, V, rev, len

\* LREM by the sign of its count.
LEMMA LRemIs ==
    ASSUME NEW S, NEW list \in Seq(S), NEW v, NEW count \in Int
    PROVE  LRem(list, count, v) =
             IF count > 0 THEN Removing(list, v, count)
             ELSE IF count < 0 THEN Reverse(Removing(Reverse(list), v, -count))
             ELSE Removing(list, v, Len(list))
<1> DEFINE M == Matches(list, v)
<1>0. LRem(list, count, v) = Without(list, LRemIndices(list, count, v))
  BY DEF LRem
<1>1. CASE count > 0
  <2>1. LRemIndices(list, count, v) = FirstMatches(list, v, count)
    BY <1>1 DEF LRemIndices, FirstMatches
  <2>2. Removing(list, v, count) = Without(list, FirstMatches(list, v, count))
    BY <1>1, RemovingFirst
  <2> QED BY <1>0, <1>1, <2>1, <2>2
<1>2. CASE count < 0
  <2> DEFINE n == -count
             last == LastMatches(list, v, n)
             rev == Reverse(list)
  <2>1. n \in Nat /\ ~(count > 0)
    BY <1>2
  <2>2. LRemIndices(list, count, v) = last
    BY <1>2, <2>1 DEF LRemIndices, LastMatches
  <2>3. last \in SUBSET (1 .. Len(list))
    BY DEF LastMatches, Matches
  <2>4. rev \in Seq(S)
    BY ReverseIs
  <2> HIDE DEF n, last, rev
  <2>5. Removing(rev, v, n) = Without(rev, FirstMatches(rev, v, n))
    BY <2>1, <2>4, RemovingFirst
  <2>6. FirstMatches(rev, v, n) = Mirror(Len(list), last)
    BY <2>1, LastFromTail DEF rev, last
  <2>7. Reverse(Without(rev, Mirror(Len(list), last))) = Without(list, last)
    BY <2>3, MirroredThinning DEF rev
  <2>8. LRem(list, count, v) = Reverse(Removing(rev, v, n))
    BY <1>0, <2>2, <2>5, <2>6, <2>7
  <2> QED BY <1>2, <2>1, <2>8 DEF rev, n
<1>3. CASE count = 0
  <2>1. LRemIndices(list, count, v) = M
    BY <1>3 DEF LRemIndices
  <2>2. M \in SUBSET (1 .. Len(list)) /\ Len(list) \in Nat
    BY DEF Matches
  <2> HIDE DEF M
  <2>3. Cardinality(M) \in Nat /\ Cardinality(M) <= Len(list)
    <3> DEFINE len == Len(list)
               All == 1 .. len
    <3>1. IsFiniteSet(All) /\ Cardinality(All) = len
      <4>1. 1 \in Int /\ len \in Int /\ (IF 1 > len THEN 0 ELSE len - 1 + 1) = len
        BY <2>2
      <4> HIDE DEF len
      <4> QED BY <4>1, FS_Interval
    <3>2. M \in SUBSET All
      BY <2>2
    <3> HIDE DEF All
    <3>3. Cardinality(M) <= Cardinality(All)
      BY <3>1, <3>2, FS_Subset
    <3> QED BY <2>2, <3>1, <3>3, FinitelyManyIndices
  <2>4. \A i \in M : Rank(M, i) \in 1 .. Cardinality(M)
    BY <2>2, RankOrder
  <2>5. \A i \in M : Rank(M, i) <= Len(list)
    BY <2>2, <2>3, <2>4
  <2>6. FirstMatches(list, v, Len(list)) = {i \in M : Rank(M, i) <= Len(list)}
    BY <2>2, FirstByRank DEF M
  <2>7. FirstMatches(list, v, Len(list)) = M
    BY <2>5, <2>6
  <2>8. Removing(list, v, Len(list)) = Without(list, M)
    BY <2>2, <2>7, RemovingFirst
  <2> QED BY <1>0, <1>3, <2>1, <2>8
<1> QED BY <1>1, <1>2, <1>3

\* LREM removes the first matches one by one, the last ones in the mirror image, or
\* every match, for every list that pushes can build, every count and every value.
THEOREM LRemRemoves ==
    ListInit /\ [][ListNext]_<<items, first, second>> => []LRemRemovesInOrder
<1> DEFINE J == items \in Seq(Values) /\ first \in Int /\ second \in Int
<1>1. ListInit => J
  BY AlgorithmsAssumption DEF ListInit, Args
<1>2. J /\ [ListNext]_<<items, first, second>> => J'
  BY Push1Type DEF ListNext
<1>3. J => LRemRemovesInOrder
  <2> SUFFICES ASSUME J, NEW value \in Values
               PROVE  LRem(items, first, value) =
                        CASE first > 0 -> Removing(items, value, first)
                          [] first < 0 -> Reverse(Removing(Reverse(items), value, -first))
                          [] first = 0 -> Removing(items, value, Len(items))
    BY DEF LRemRemovesInOrder
  <2>1. LRem(items, first, value) =
          IF first > 0 THEN Removing(items, value, first)
          ELSE IF first < 0 THEN Reverse(Removing(Reverse(items), value, -first))
          ELSE Removing(items, value, Len(items))
    BY LRemIs
  <2> QED BY <2>1
<1> HIDE DEF J
<1> QED BY <1>1, <1>2, <1>3, PTL

-----------------------------------------------------------------------------
(* The data map *)

\* An entry that the store may hold: a list is never empty.
LiveEntry == {Absent} \cup [kind : {"string"}, list : {<<>>}, ttl : Ttls]
                      \cup [kind : {"list"}, list : Seq(Elements) \ {<<>>}, ttl : Ttls]

Map == [Keys -> LiveEntry]

\* The fields of an entry that is not an empty list.
LEMMA EntryFacts ==
    ASSUME NEW e \in LiveEntry
    PROVE  /\ e \in Entry
           /\ e.kind \in {"absent", "string", "list"}
           /\ e.list \in Seq(Elements)
           /\ e.ttl \in Ttls
           /\ (e.kind = "list") <=> (e.list # <<>>)
           /\ (e.kind = "absent") => (e = Absent)
<1>1. CASE e = Absent
  <2>1. e \in Entry
    BY <1>1 DEF Entry
  <2>2. e.kind = "absent" /\ e.list = <<>> /\ e.ttl = "none"
    BY <1>1 DEF Absent
  <2> QED BY <2>1, <2>2, <1>1 DEF Ttls
<1>2. CASE e \in [kind : {"string"}, list : {<<>>}, ttl : Ttls]
  <2>1. e \in Entry
    BY <1>2 DEF Entry
  <2>2. e.kind = "string" /\ e.list = <<>> /\ e.ttl \in Ttls
    BY <1>2
  <2> QED BY <2>1, <2>2
<1>3. CASE e \in [kind : {"list"}, list : Seq(Elements) \ {<<>>}, ttl : Ttls]
  BY <1>3 DEF Entry
<1> QED BY <1>1, <1>2, <1>3 DEF LiveEntry

\* An entry without an empty list is an entry of the type.
LEMMA LiveEntryIsType ==
    ASSUME NEW e \in Entry, e.kind = "list" => e.list # <<>>
    PROVE  e \in LiveEntry
BY DEF LiveEntry, Entry, Absent, Ttls

\* A missing key is such an entry.
LEMMA AbsentLive == Absent \in LiveEntry
BY DEF LiveEntry

\* So is an entry with a non-empty list.
LEMMA ListEntryLive ==
    ASSUME NEW list \in Seq(Elements) \ {<<>>}, NEW ttl \in Ttls
    PROVE  ListEntry(list, ttl) \in LiveEntry
BY DEF LiveEntry, ListEntry

\* And what a mutator leaves behind, which removes a list it emptied (D-03).
LEMMA WithListLive ==
    ASSUME NEW e \in LiveEntry, NEW list \in Seq(Elements)
    PROVE  WithList(e, list) \in LiveEntry
BY EntryFacts, ListEntryLive, AbsentLive DEF WithList

\* Passive expiration leaves a map in which the same keys are poppable.
LEMMA PurgeFacts ==
    ASSUME NEW d \in Map, NEW ks
    PROVE  /\ Purge(d, ks) \in Map
           /\ \A k \in Keys : Poppable(Purge(d, ks), k) => Poppable(d, k)
           /\ \A k \in ks \cap Keys : Purge(d, ks)[k].ttl # "past"
<1>1. Purge(d, ks) \in Map
  BY AbsentLive DEF Purge, Map
<1>2. \A k \in Keys : Poppable(Purge(d, ks), k) => Poppable(d, k)
  BY DEF Purge, Poppable, Absent
<1>3. \A k \in ks \cap Keys : Purge(d, ks)[k].ttl # "past"
  BY DEF Purge, Absent
<1> QED BY <1>1, <1>2, <1>3

\* A key is rewritten with a list that has no elements unless it had some.
LEMMA RewriteFacts ==
    ASSUME NEW d \in Map, NEW k \in Keys, d[k].kind = "list",
           NEW list \in Seq(Elements)
    PROVE  /\ [d EXCEPT ![k] = WithList(@, list)] \in Map
           /\ \A x \in Keys : Poppable([d EXCEPT ![k] = WithList(@, list)], x)
                                => Poppable(d, x)
<1>1. WithList(d[k], list) \in LiveEntry
  BY WithListLive DEF Map
<1>2. [d EXCEPT ![k] = WithList(@, list)] \in Map
  BY <1>1 DEF Map
<1>3. ASSUME NEW x \in Keys, Poppable([d EXCEPT ![k] = WithList(@, list)], x)
      PROVE  Poppable(d, x)
  <2>1. CASE x = k
    <3>1. d[k] \in LiveEntry
      BY DEF Map
    <3>2. d[k].list # <<>>
      BY <3>1, EntryFacts
    <3>3. WithList(d[k], list).ttl # "past" /\ WithList(d[k], list) # Absent
      BY <1>3, <2>1 DEF Poppable, Map, Absent
    <3>4. d[k].ttl # "past"
      BY <3>3 DEF WithList, ListEntry
    <3> QED BY <3>2, <3>4, <2>1 DEF Poppable
  <2>2. CASE x # k
    BY <1>3, <2>2 DEF Poppable, Map
  <2> QED BY <2>1, <2>2
<1> QED BY <1>2, <1>3

\* A move leaves a well-formed map, and what it moves is an element.
LEMMA MovedFacts ==
    ASSUME NEW d \in Map, NEW src \in Keys, NEW dst \in Keys,
           NEW from \in Ends, NEW to \in Ends, ~MoveBlocked(d, src, dst)
    PROVE  /\ Moved(d, src, dst, from, to) \in Map
           /\ EndOf(d[src].list, from) \in Elements
<1> DEFINE e     == EndOf(d[src].list, from)
           rest  == AfterPop(d[src].list, from, 1)
           taken == [d EXCEPT ![src] = IF src = dst THEN ListEntry(rest, @.ttl)
                                                    ELSE WithList(@, rest)]
<1>1. d[src] \in LiveEntry /\ d[dst] \in LiveEntry
  BY DEF Map
<1>2. d[src].list \in Seq(Elements) /\ d[src].list # <<>> /\ d[src].ttl \in Ttls
      /\ d[dst].list \in Seq(Elements) /\ d[dst].ttl \in Ttls
  BY <1>1, EntryFacts DEF MoveBlocked
<1>3. e \in Elements
  BY <1>2, EndOfType
<1>4. rest \in Seq(Elements)
  BY <1>2, AfterPopType
<1> HIDE DEF e, rest
<1>5. taken[dst].list \in Seq(Elements) /\ taken[dst].ttl \in Ttls
  <2>1. CASE src = dst
    BY <2>1, <1>2, <1>4 DEF ListEntry, Map
  <2>2. CASE src # dst
    BY <2>2, <1>2 DEF Map
  <2> QED BY <2>1, <2>2
<1>6. \A k \in Keys \ {dst} : taken[k] \in LiveEntry
  <2>1. WithList(d[src], rest) \in LiveEntry
    BY <1>1, <1>4, WithListLive
  <2> QED BY <2>1 DEF Map
<1>7. DOMAIN taken = Keys
  BY DEF Map
<1> DEFINE landed == ListEntry(Push1(taken[dst].list, to, e), taken[dst].ttl)
<1>8. landed \in LiveEntry
  BY <1>3, <1>5, Push1Type, ListEntryLive
<1>9. [taken EXCEPT ![dst] = landed] \in Map
  <2> HIDE DEF taken, landed
  <2> QED BY <1>6, <1>7, <1>8 DEF Map
<1>10. Moved(d, src, dst, from, to) = [taken EXCEPT ![dst] = landed]
  BY DEF Moved, e, rest
<1> QED BY <1>3, <1>9, <1>10 DEF e

-----------------------------------------------------------------------------
(* The inductive invariant *)

\* A call that polls or is parked has a waiter; one that runs is one of Calls.
ClientOK ==
    \A c \in Clients :
        /\ pc[c] \in {"first", "poll", "loop", "select"} => waiter[c] # "off"
        /\ pc[c] # "idle" => call[c] \in Calls

\* The flag of a script is up only until the script has notified.
FlagOK == grown => gil \in {"script", "notify"}

IInv == TypeOK /\ EmptyListRemoved /\ ClientOK /\ FlagOK /\ NoLostWakeup

\* The part of TypeOK that is not about the data map.
RestOK ==
    /\ next \in 1 .. MaxElements + 1
    /\ popped \subseteq Elements
    /\ removed \subseteq Elements
    /\ gil \in {"free", "script", "notify", "shutdown"}
    /\ grown \in BOOLEAN
    /\ shutdown \in BOOLEAN
    /\ pc \in [Clients -> {"idle", "first", "loop", "select", "rearm", "poll", "reply"}]
    /\ waiter \in [Clients -> {"off", "armed", "notified"}]
    /\ call \in [Clients -> Calls \cup {NoCall}]
    /\ late \in [Clients -> BOOLEAN]
    /\ reply \in [Clients -> Elements \cup {Nil, WrongType}]

\* The type and the absence of empty lists, split into the data map and the rest.
LEMMA SplitType == (TypeOK /\ EmptyListRemoved) <=> (db \in Map /\ RestOK)
<1>1. ASSUME db \in [Keys -> Entry], EmptyListRemoved PROVE db \in Map
  BY <1>1, LiveEntryIsType DEF EmptyListRemoved, Map
<1>2. ASSUME db \in Map PROVE db \in [Keys -> Entry] /\ EmptyListRemoved
  BY <1>2, EntryFacts DEF EmptyListRemoved, Map
<1> QED BY <1>1, <1>2 DEF TypeOK, RestOK

\* The same, put together again in the next state.
LEMMA JoinTypePrime ==
    ASSUME db' \in Map, RestOK'
    PROVE  TypeOK' /\ EmptyListRemoved'
<1>1. db' \in [Keys -> Entry] /\ EmptyListRemoved'
  BY EntryFacts DEF EmptyListRemoved, Map
<1> QED BY <1>1 DEF TypeOK, RestOK

\* The invariant holds initially: no key, no call.
LEMMA InitIInv == Init => IInv
<1> SUFFICES ASSUME Init PROVE IInv
  OBVIOUS
<1>1. db \in Map
  BY AbsentLive DEF Init, Map
<1>2. RestOK
  <2>1. next \in 1 .. MaxElements + 1
    BY ConstantsAssumption DEF Init
  <2>2. late \in [Clients -> BOOLEAN]
    BY DEF Init
  <2> QED BY <2>1, <2>2 DEF Init, RestOK
<1>3. ClientOK /\ FlagOK /\ NoLostWakeup
  BY DEF Init, ClientOK, FlagOK, NoLostWakeup, Parked
<1> QED BY <1>1, <1>2, <1>3, SplitType DEF IInv

\* Nothing becomes poppable, and no call loses a notification or parks.
LEMMA WakeupKeptByShrinking ==
    ASSUME IInv,
           \A k \in Keys : Poppable(db', k) => Poppable(db, k),
           \A c \in Clients :
               pc'[c] \in {"loop", "select"} /\ waiter'[c] # "notified" /\ ~grown'
                   => /\ Parked(c) /\ waiter[c] # "notified" /\ ~grown
                      /\ call'[c] = call[c]
    PROVE  NoLostWakeup'
<1> SUFFICES ASSUME NEW c \in Clients, Parked(c)', waiter'[c] # "notified", ~grown',
                    NEW i \in DOMAIN call'[c].keys
             PROVE  ~Poppable(db', call'[c].keys[i])
  BY DEF NoLostWakeup
<1>1. Parked(c) /\ waiter[c] # "notified" /\ ~grown /\ call'[c] = call[c]
  BY DEF Parked
<1>2. ~Poppable(db, call[c].keys[i])
  BY <1>1 DEF IInv, NoLostWakeup
<1>3. call[c].keys[i] \in Keys
  <2>1. call[c] \in CallType
    BY <1>1, ConstantsAssumption DEF IInv, ClientOK, Parked
  <2>2. call[c].keys \in Seq(Keys)
    BY <2>1 DEF CallType
  <2> QED BY <2>2, <1>1
<1> QED BY <1>1, <1>2, <1>3

\* Every call that polls or is parked has been notified.
LEMMA WakeupKeptByNotifying ==
    ASSUME IInv, waiter' = Notified(waiter),
           \A c \in Clients : pc'[c] \in {"loop", "select"} => Parked(c)
    PROVE  NoLostWakeup'
<1> SUFFICES ASSUME NEW c \in Clients, Parked(c)' PROVE waiter'[c] = "notified"
  BY DEF NoLostWakeup
<1>1. Parked(c) /\ waiter[c] # "off" /\ waiter[c] \in {"off", "armed", "notified"}
  BY DEF Parked, IInv, ClientOK, TypeOK
<1> QED BY <1>1 DEF Notified

\* While a script has a list mutation to announce, no wake-up can be lost.
LEMMA WakeupKeptByFlag == grown' = TRUE => NoLostWakeup'
BY DEF NoLostWakeup

\* Notifying keeps the types and the clients' waiters.
LEMMA NotifiedFacts ==
    ASSUME IInv
    PROVE  /\ Notified(waiter) \in [Clients -> {"off", "armed", "notified"}]
           /\ \A c \in Clients : Notified(waiter)[c] = "off" <=> waiter[c] = "off"
BY DEF IInv, TypeOK, Notified

\* The two ways in which a command that grew a list tells.
LEMMA GrewKeeps ==
    ASSUME IInv, Grew, Sync
    PROVE  /\ waiter' \in [Clients -> {"off", "armed", "notified"}]
           /\ grown' \in BOOLEAN
           /\ ClientOK' /\ FlagOK' /\ NoLostWakeup'
<1>1. CASE gil = "free" /\ waiter' = Notified(waiter) /\ UNCHANGED grown
  <2>1. NoLostWakeup'
    BY <1>1, WakeupKeptByNotifying DEF Sync, Parked
  <2>2. ClientOK'
    BY <1>1, NotifiedFacts DEF Sync, IInv, ClientOK
  <2>3. grown' \in BOOLEAN /\ FlagOK'
    BY <1>1 DEF IInv, TypeOK, FlagOK, Sync
  <2> QED BY <1>1, <2>1, <2>2, <2>3, NotifiedFacts
<1>2. CASE gil = "script" /\ grown' = TRUE /\ UNCHANGED waiter
  <2>1. ClientOK' /\ FlagOK'
    BY <1>2 DEF Sync, IInv, ClientOK, FlagOK
  <2> QED BY <1>2, <2>1, WakeupKeptByFlag DEF IInv, TypeOK
<1> QED BY <1>1, <1>2 DEF Grew

\* A command that makes nothing poppable and touches no client.
LEMMA QuietKeeps ==
    ASSUME IInv, Sync, Quiet, \A k \in Keys : Poppable(db', k) => Poppable(db, k)
    PROVE  ClientOK' /\ FlagOK' /\ NoLostWakeup'
<1>1. NoLostWakeup'
  BY WakeupKeptByShrinking DEF Sync, Quiet, Parked
<1> QED BY <1>1 DEF Sync, Quiet, IInv, ClientOK, FlagOK

-----------------------------------------------------------------------------
(* The synchronous commands keep the invariant *)

\* A command that leaves a well-formed map and either notifies or fills no key
\* that held nothing keeps the invariant.
LEMMA SyncStep ==
    ASSUME IInv, Sync, db' \in Map, next' \in 1 .. MaxElements + 1,
           popped' \subseteq Elements, removed' \subseteq Elements,
           Grew \/ (Quiet /\ \A k \in Keys : Poppable(db', k) => Poppable(db, k))
    PROVE  IInv'
<1>1. /\ waiter' \in [Clients -> {"off", "armed", "notified"}]
      /\ grown' \in BOOLEAN
      /\ ClientOK' /\ FlagOK' /\ NoLostWakeup'
  BY GrewKeeps, QuietKeeps DEF Quiet, IInv, TypeOK
<1>2. RestOK'
  BY <1>1 DEF RestOK, IInv, TypeOK, Sync
<1>3. TypeOK' /\ EmptyListRemoved'
  BY <1>2, JoinTypePrime
<1> QED BY <1>1, <1>3 DEF IInv

\* LPUSH and RPUSH: the key may be filled, and then the waiters are notified.
LEMMA PushKeeps ==
    ASSUME IInv, NEW k \in Keys, NEW end \in Ends, NEW n \in Batches, Push(k, end, n)
    PROVE  IInv'
<1> DEFINE d == Purge(db, {k})
<1>1. db \in Map /\ RestOK
  BY SplitType DEF IInv
<1>2. d \in Map /\ \A x \in Keys : Poppable(d, x) => Poppable(db, x)
  BY <1>1, PurgeFacts
<1>3. Sync /\ popped' \subseteq Elements /\ removed' \subseteq Elements
  BY <1>1 DEF Push, RestOK
<1>4. n \in Nat \ {0} /\ next \in 1 .. MaxElements + 1 /\ next + n - 1 <= MaxElements
      /\ MaxElements \in Nat
  BY <1>1, ConstantsAssumption DEF Push, RestOK
<1>5. CASE d[k].kind = "string"
  <2>1. db' = d /\ next' = next /\ Quiet
    BY <1>5 DEF Push
  <2> HIDE DEF d
  <2> QED BY <2>1, <1>2, <1>3, <1>4, SyncStep
<1>6. CASE d[k].kind # "string"
  <2> DEFINE values == [i \in 1 .. n |-> next + i - 1]
             entry  == ListEntry(Pushed(d[k].list, end, values), d[k].ttl)
  <2>1. db' = [d EXCEPT ![k] = entry] /\ next' = next + n /\ Grew
    BY <1>6 DEF Push
  <2>2. values \in Seq(Elements) /\ values # <<>>
    <3>1. \A i \in 1 .. n : next + i - 1 \in Elements
      BY <1>4 DEF Elements
    <3>2. values \in Seq(Elements) /\ Len(values) = n
      BY <3>1, <1>4
    <3> QED BY <3>2, <1>4
  <2> HIDE DEF d, values
  <2>3. d[k].list \in Seq(Elements) /\ d[k].ttl \in Ttls
    BY <1>2, EntryFacts DEF Map
  <2>4. entry \in LiveEntry
    BY <2>2, <2>3, PushedType, ListEntryLive
  <2> HIDE DEF entry
  <2>5. db' \in Map
    BY <2>1, <2>4, <1>2 DEF Map
  <2>6. next' \in 1 .. MaxElements + 1
    BY <2>1, <1>4
  <2> QED BY <2>1, <2>5, <2>6, <1>3, SyncStep
<1> QED BY <1>5, <1>6

\* LPOP and RPOP fill nothing.
LEMMA PopKeeps ==
    ASSUME IInv, NEW k \in Keys, NEW end \in Ends, NEW n \in Nat, Pop(k, end, n)
    PROVE  IInv'
<1> DEFINE d == Purge(db, {k})
           keeps == AfterPop(d[k].list, end, n)
<1>1. db \in Map /\ RestOK
  BY SplitType DEF IInv
<1>2. d \in Map /\ \A x \in Keys : Poppable(d, x) => Poppable(db, x)
  BY <1>1, PurgeFacts
<1>3. Sync /\ Quiet /\ removed' \subseteq Elements /\ next' \in 1 .. MaxElements + 1
  BY <1>1 DEF Pop, RestOK
<1>4. CASE d[k].kind # "list"
  <2>1. db' = d /\ popped' \subseteq Elements
    BY <1>1, <1>4 DEF Pop, RestOK
  <2> QED BY <2>1, <1>2, <1>3, SyncStep
<1>5. CASE d[k].kind = "list"
  <2>1. db' = [d EXCEPT ![k] = WithList(@, keeps)]
        /\ popped' = popped \cup (Range(d[k].list) \ Range(keeps))
    BY <1>5 DEF Pop
  <2> HIDE DEF d
  <2>2. d[k].list \in Seq(Elements)
    BY <1>2, EntryFacts DEF Map
  <2>3. keeps \in Seq(Elements)
    BY <2>2, AfterPopType
  <2> HIDE DEF keeps
  <2>4. db' \in Map /\ \A x \in Keys : Poppable(db', x) => Poppable(d, x)
    BY <2>1, <2>3, <1>2, <1>5, RewriteFacts
  <2>5. popped' \subseteq Elements
    BY <2>1, <2>2, <1>1, RangeOfSeq DEF RestOK
  <2> QED BY <2>4, <2>5, <1>2, <1>3, SyncStep
<1> QED BY <1>4, <1>5

\* LREM, LTRIM, LSET and LINSERT: nothing becomes poppable.
LEMMA RewriteKeeps ==
    ASSUME IInv, NEW k \in Keys, NEW list, Rewrite(k, list),
           Purge(db, {k})[k].kind = "list" => list \in Seq(Elements)
    PROVE  /\ db' \in Map
           /\ removed' \subseteq Elements
           /\ \A x \in Keys : Poppable(db', x) => Poppable(db, x)
<1> DEFINE d == Purge(db, {k})
<1>1. db \in Map /\ RestOK
  BY SplitType DEF IInv
<1>2. d \in Map /\ \A x \in Keys : Poppable(d, x) => Poppable(db, x)
  BY <1>1, PurgeFacts
<1>3. CASE d[k].kind # "list"
  BY <1>1, <1>2, <1>3 DEF Rewrite, RestOK
<1>4. CASE d[k].kind = "list"
  <2>1. db' = [d EXCEPT ![k] = WithList(@, list)]
        /\ removed' = removed \cup (Range(d[k].list) \ Range(list))
    BY <1>4 DEF Rewrite
  <2>2. list \in Seq(Elements)
    BY <1>4
  <2> HIDE DEF d
  <2>3. d[k].list \in Seq(Elements)
    BY <1>2, EntryFacts DEF Map
  <2>4. db' \in Map /\ \A x \in Keys : Poppable(db', x) => Poppable(d, x)
    BY <2>1, <2>2, <1>2, <1>4, RewriteFacts
  <2>5. removed' \subseteq Elements
    BY <2>1, <2>3, <1>1, RangeOfSeq DEF RestOK
  <2> QED BY <2>4, <2>5, <1>2
<1> QED BY <1>3, <1>4

\* LREM fills nothing and removes an emptied list.
LEMMA LRemoveKeeps ==
    ASSUME IInv, NEW k \in Keys, NEW count, NEW v, LRemove(k, count, v)
    PROVE  IInv'
<1>1. db \in Map /\ RestOK
  BY SplitType DEF IInv
<1>2. db[k].list \in Seq(Elements)
  BY <1>1, EntryFacts DEF Map
<1>3. LRem(db[k].list, count, v) \in Seq(Elements)
  BY <1>2, LRemType
<1>4. /\ Sync /\ Quiet /\ Rewrite(k, LRem(db[k].list, count, v))
      /\ popped' = popped /\ next' = next
  BY DEF LRemove
<1>5. db' \in Map /\ removed' \subseteq Elements
      /\ \A x \in Keys : Poppable(db', x) => Poppable(db, x)
  BY <1>3, <1>4, RewriteKeeps
<1> QED BY <1>1, <1>4, <1>5, SyncStep DEF RestOK

\* LTRIM fills nothing and removes an emptied list.
LEMMA LTrimKeeps ==
    ASSUME IInv, NEW k \in Keys, NEW i \in Int, NEW j \in Int, LTrim(k, i, j)
    PROVE  IInv'
<1>1. db \in Map /\ RestOK
  BY SplitType DEF IInv
<1>2. db[k].list \in Seq(Elements)
  BY <1>1, EntryFacts DEF Map
<1>3. Slice(db[k].list, i, j) \in Seq(Elements)
  BY <1>2, SliceType
<1>4. /\ Sync /\ Quiet /\ Rewrite(k, Slice(db[k].list, i, j))
      /\ popped' = popped /\ next' = next
  BY DEF LTrim
<1>5. db' \in Map /\ removed' \subseteq Elements
      /\ \A x \in Keys : Poppable(db', x) => Poppable(db, x)
  BY <1>3, <1>4, RewriteKeeps
<1> QED BY <1>1, <1>4, <1>5, SyncStep DEF RestOK

\* LSET fills nothing.
LEMMA LSetKeeps ==
    ASSUME IInv, NEW k \in Keys, NEW i \in Int, LSet(k, i)
    PROVE  IInv'
<1> DEFINE list == Purge(db, {k})[k].list
           new  == IF InBounds(list, i) THEN SetAt(list, i, next) ELSE list
<1>1. db \in Map /\ RestOK /\ MaxElements \in Nat
  BY SplitType, ConstantsAssumption DEF IInv
<1>2. Purge(db, {k}) \in Map
  BY <1>1, PurgeFacts
<1>3. list \in Seq(Elements)
  BY <1>2, EntryFacts DEF Map
<1>4. /\ Sync /\ Quiet /\ Rewrite(k, new) /\ popped' = popped
      /\ next <= MaxElements /\ next' \in {next, next + 1}
  BY DEF LSet
<1>5. next \in Elements /\ next' \in 1 .. MaxElements + 1
  BY <1>1, <1>4 DEF RestOK, Elements
<1>6. new \in Seq(Elements)
  <2> HIDE DEF list
  <2> QED BY <1>3, <1>5, SetAtType
<1> HIDE DEF new
<1>7. db' \in Map /\ removed' \subseteq Elements
      /\ \A x \in Keys : Poppable(db', x) => Poppable(db, x)
  BY <1>4, <1>6, RewriteKeeps
<1> QED BY <1>1, <1>4, <1>5, <1>7, SyncStep DEF RestOK

\* LINSERT does not notify, but only a list that held its pivot grows.
LEMMA LInsertKeeps ==
    ASSUME IInv, NEW k \in Keys, NEW where, NEW v, LInsert(k, where, v)
    PROVE  IInv'
<1> DEFINE list == Purge(db, {k})[k].list
           new  == IF v \in Range(list) THEN InsertNextTo(list, where, v, next) ELSE list
<1>1. db \in Map /\ RestOK /\ MaxElements \in Nat
  BY SplitType, ConstantsAssumption DEF IInv
<1>2. Purge(db, {k}) \in Map
  BY <1>1, PurgeFacts
<1>3. list \in Seq(Elements)
  BY <1>2, EntryFacts DEF Map
<1>4. /\ Sync /\ Rewrite(k, new) /\ popped' = popped
      /\ next <= MaxElements /\ next' \in {next, next + 1}
  BY DEF LInsert
<1>5. Grew \/ Quiet
  BY <1>1 DEF LInsert, Grew, Quiet, Sync, RestOK
<1>6. next \in Elements /\ next' \in 1 .. MaxElements + 1
  BY <1>1, <1>4 DEF RestOK, Elements
<1>7. new \in Seq(Elements)
  <2> HIDE DEF list
  <2> QED BY <1>3, <1>6, InsertNextToType
<1> HIDE DEF new
<1>8. db' \in Map /\ removed' \subseteq Elements
      /\ \A x \in Keys : Poppable(db', x) => Poppable(db, x)
  BY <1>4, <1>7, RewriteKeeps
<1> QED BY <1>1, <1>4, <1>5, <1>6, <1>8, SyncStep DEF RestOK

\* LMOVE and RPOPLPUSH may fill the destination, and then notify.
LEMMA LMoveKeeps ==
    ASSUME IInv, NEW src \in Keys, NEW dst \in Keys, NEW from \in Ends, NEW to \in Ends,
           LMove(src, dst, from, to)
    PROVE  IInv'
<1> DEFINE d == Purge(db, {src, dst})
<1>1. db \in Map /\ RestOK
  BY SplitType DEF IInv
<1>2. d \in Map /\ \A x \in Keys : Poppable(d, x) => Poppable(db, x)
  BY <1>1, PurgeFacts
<1>3. /\ Sync /\ popped' \subseteq Elements /\ removed' \subseteq Elements
      /\ next' \in 1 .. MaxElements + 1
  BY <1>1 DEF LMove, RestOK
<1>4. CASE MoveBlocked(d, src, dst)
  <2>1. db' = d /\ Quiet
    BY <1>4 DEF LMove
  <2> QED BY <2>1, <1>2, <1>3, SyncStep
<1>5. CASE ~MoveBlocked(d, src, dst)
  <2>1. db' = Moved(d, src, dst, from, to) /\ Grew
    BY <1>5 DEF LMove
  <2> HIDE DEF d
  <2>2. db' \in Map
    BY <2>1, <1>2, <1>5, MovedFacts
  <2> QED BY <2>1, <2>2, <1>3, SyncStep
<1> QED BY <1>4, <1>5

\* DEL fills nothing.
LEMMA DelKeeps ==
    ASSUME IInv, NEW k \in Keys, Del(k)
    PROVE  IInv'
<1>1. db \in Map /\ RestOK
  BY SplitType DEF IInv
<1>2. /\ Sync /\ Quiet /\ db' = [db EXCEPT ![k] = Absent]
      /\ removed' = removed \cup Range(db[k].list) /\ popped' = popped /\ next' = next
  BY DEF Del
<1>3. db' \in Map /\ \A x \in Keys : Poppable(db', x) => Poppable(db, x)
  BY <1>1, <1>2, AbsentLive DEF Map, Poppable, Absent
<1>4. removed' \subseteq Elements
  <2>1. db[k].list \in Seq(Elements)
    BY <1>1, EntryFacts DEF Map
  <2> QED BY <2>1, <1>1, <1>2, RangeOfSeq DEF RestOK
<1> QED BY <1>1, <1>2, <1>3, <1>4, SyncStep DEF RestOK

\* SET leaves a string, which holds no elements.
LEMMA SetKeeps ==
    ASSUME IInv, NEW k \in Keys, NEW mode, NEW ttl \in Ttls, Set(k, mode, ttl)
    PROVE  IInv'
<1> DEFINE entry == [kind |-> "string", list |-> <<>>, ttl |-> ttl]
<1>1. db \in Map /\ RestOK
  BY SplitType DEF IInv
<1>2. /\ Sync /\ Quiet /\ db' = [db EXCEPT ![k] = entry]
      /\ removed' = removed \cup Range(db[k].list) /\ popped' = popped /\ next' = next
  BY DEF Set
<1>3. entry \in LiveEntry /\ entry.kind = "string"
  BY DEF LiveEntry
<1> HIDE DEF entry
<1>4. db' \in Map /\ \A x \in Keys : Poppable(db', x) => Poppable(db, x)
  BY <1>1, <1>2, <1>3 DEF Map, Poppable
<1>5. removed' \subseteq Elements
  <2>1. db[k].list \in Seq(Elements)
    BY <1>1, EntryFacts DEF Map
  <2> QED BY <2>1, <1>1, <1>2, RangeOfSeq DEF RestOK
<1> QED BY <1>1, <1>2, <1>4, <1>5, SyncStep DEF RestOK

\* Another TTL on an entry that is there.
LEMMA RetimedLive ==
    ASSUME NEW d \in Map, NEW k \in Keys, d[k].kind # "absent", NEW ttl \in Ttls
    PROVE  [d EXCEPT ![k].ttl = ttl] \in Map
<1>1. d[k] \in LiveEntry \ {Absent}
  BY DEF Map, Absent
<1>2. CASE d[k] \in [kind : {"string"}, list : {<<>>}, ttl : Ttls]
  BY <1>2 DEF Map, LiveEntry
<1>3. CASE d[k] \in [kind : {"list"}, list : Seq(Elements) \ {<<>>}, ttl : Ttls]
  BY <1>3 DEF Map, LiveEntry
<1> QED BY <1>1, <1>2, <1>3 DEF LiveEntry

\* EXPIRE changes no list.
LEMMA ExpireKeeps ==
    ASSUME IInv, NEW k \in Keys, Expire(k)
    PROVE  IInv'
<1> DEFINE d == Purge(db, {k})
<1>1. db \in Map /\ RestOK
  BY SplitType DEF IInv
<1>2. /\ d \in Map
      /\ \A x \in Keys : Poppable(d, x) => Poppable(db, x)
      /\ d[k].ttl # "past"
  BY <1>1, PurgeFacts
<1>3. /\ Sync /\ Quiet /\ removed' = removed /\ popped' = popped /\ next' = next
      /\ db' = IF d[k].kind = "absent" THEN d ELSE [d EXCEPT ![k].ttl = "running"]
  BY DEF Expire
<1> HIDE DEF d
<1>4. db' \in Map
  BY <1>2, <1>3, RetimedLive DEF Ttls
<1>5. \A x \in Keys : Poppable(db', x) => Poppable(d, x)
  BY <1>2, <1>3 DEF Poppable, Map
<1> QED BY <1>1, <1>2, <1>3, <1>4, <1>5, SyncStep DEF RestOK

\* Passive expiration only removes keys.
LEMMA TouchKeeps ==
    ASSUME IInv, NEW k \in Keys, Touch(k)
    PROVE  IInv'
<1>1. db \in Map /\ RestOK
  BY SplitType DEF IInv
<1>2. /\ Sync /\ Quiet /\ removed' = removed /\ popped' = popped /\ next' = next
      /\ db' = Purge(db, {k})
  BY DEF Touch
<1>3. db' \in Map /\ \A x \in Keys : Poppable(db', x) => Poppable(db, x)
  BY <1>1, <1>2, PurgeFacts
<1> QED BY <1>1, <1>2, <1>3, SyncStep DEF RestOK

\* Every synchronous command, native or in a script, keeps the invariant.
LEMMA CommandKeeps == IInv /\ Command => IInv'
<1> SUFFICES ASSUME IInv, NEW k \in Keys,
        \/ \E end \in Ends, n \in Batches : Push(k, end, n)
        \/ \E end \in Ends, n \in Ints \cap Nat : Pop(k, end, n)
        \/ \E v \in Elements, n \in Ints : LRemove(k, n, v)
        \/ \E i, j \in Ints : LTrim(k, i, j)
        \/ \E i \in Ints : LSet(k, i)
        \/ \E where \in {"BEFORE", "AFTER"}, v \in Elements : LInsert(k, where, v)
        \/ \E dst \in Keys, from, to \in Ends : LMove(k, dst, from, to)
        \/ \E mode \in {"any", "NX", "XX"}, ttl \in {"none", "running"} : Set(k, mode, ttl)
        \/ Del(k)
        \/ Expire(k)
        \/ Touch(k)
             PROVE  IInv'
  BY DEF Command
<1>0. Ints \subseteq Int
  BY ConstantsAssumption
<1>1. CASE \E end \in Ends, n \in Batches : Push(k, end, n)
  BY <1>1, PushKeeps
<1>2. CASE \E end \in Ends, n \in Ints \cap Nat : Pop(k, end, n)
  BY <1>2, PopKeeps
<1>3. CASE \E v \in Elements, n \in Ints : LRemove(k, n, v)
  BY <1>3, LRemoveKeeps
<1>4. CASE \E i, j \in Ints : LTrim(k, i, j)
  BY <1>0, <1>4, LTrimKeeps
<1>5. CASE \E i \in Ints : LSet(k, i)
  BY <1>0, <1>5, LSetKeeps
<1>6. CASE \E where \in {"BEFORE", "AFTER"}, v \in Elements : LInsert(k, where, v)
  BY <1>6, LInsertKeeps
<1>7. CASE \E dst \in Keys, from, to \in Ends : LMove(k, dst, from, to)
  BY <1>7, LMoveKeeps
<1>8. CASE \E mode \in {"any", "NX", "XX"}, ttl \in {"none", "running"} : Set(k, mode, ttl)
  <2>1. {"none", "running"} \subseteq Ttls
    BY DEF Ttls
  <2> QED BY <1>8, <2>1, SetKeeps
<1> QED BY <1>1, <1>2, <1>3, <1>4, <1>5, <1>6, <1>7, <1>8, DelKeeps, ExpireKeeps, TouchKeeps

-----------------------------------------------------------------------------
(* The sweeper and the clock, scripts and shutdown *)

\* A step that only takes lists away keeps the invariant.
LEMMA BackgroundStep ==
    ASSUME IInv, db' \in Map, \A k \in Keys : Poppable(db', k) => Poppable(db, k),
           UNCHANGED <<next, popped, removed, control, client>>
    PROVE  IInv'
<1>1. RestOK' /\ ClientOK' /\ FlagOK'
  BY SplitType DEF IInv, RestOK, ClientOK, FlagOK, control, client
<1>2. NoLostWakeup'
  BY WakeupKeptByShrinking DEF control, client, Parked
<1> QED BY <1>1, <1>2, JoinTypePrime DEF IInv

\* The background sweep only takes keys away.
LEMMA SweepKeeps ==
    ASSUME IInv, NEW ks, Sweep(ks)
    PROVE  IInv'
<1>1. db \in Map
  BY SplitType DEF IInv
<1>2. db' \in Map /\ \A k \in Keys : Poppable(db', k) => Poppable(db, k)
  BY <1>1, PurgeFacts DEF Sweep
<1> QED BY <1>2, BackgroundStep DEF Sweep

\* A TTL that runs out only takes a key away.
LEMMA TimePassesKeeps ==
    ASSUME IInv, NEW k \in Keys, TimePasses(k)
    PROVE  IInv'
<1>1. db \in Map
  BY SplitType DEF IInv
<1>2. db[k].kind # "absent" /\ db' = [db EXCEPT ![k].ttl = "past"]
  <2>1. db[k] \in LiveEntry /\ db[k].ttl = "running"
    BY <1>1 DEF TimePasses, Map
  <2>2. db[k] # Absent
    BY <2>1 DEF Absent
  <2> QED BY <2>1, <2>2, EntryFacts DEF TimePasses
<1>3. db' \in Map
  BY <1>1, <1>2, RetimedLive DEF Ttls
<1>4. \A x \in Keys : Poppable(db', x) => Poppable(db, x)
  BY <1>1, <1>2 DEF Poppable, Map
<1> QED BY <1>3, <1>4, BackgroundStep DEF TimePasses

\* Scripts and shutdown leave the map alone and only ever notify.
LEMMA ControlKeeps ==
    ASSUME IInv,
           ScriptBegins \/ ScriptEnds \/ ScriptNotifies \/ Shutdown \/ ShutdownNotifies
    PROVE  IInv'
<1>1. db \in Map /\ RestOK
  BY SplitType DEF IInv
<1>2. db' \in Map
  BY <1>1 DEF ScriptBegins, ScriptEnds, ScriptNotifies, Shutdown, ShutdownNotifies, store
<1>3. CASE ScriptBegins \/ ScriptEnds \/ Shutdown
  <2>1. UNCHANGED <<db, next, popped, removed, grown, pc, waiter, call, late, reply>>
    BY <1>3 DEF ScriptBegins, ScriptEnds, Shutdown, store, client
  <2>2. RestOK' /\ ClientOK'
    BY <1>1, <1>3, <2>1 DEF ScriptBegins, ScriptEnds, Shutdown, RestOK, IInv, ClientOK
  <2>3. FlagOK'
    BY <1>1, <1>3, <2>1 DEF ScriptBegins, ScriptEnds, Shutdown, IInv, FlagOK, RestOK
  <2>4. NoLostWakeup'
    BY <2>1, WakeupKeptByShrinking DEF Parked
  <2> QED BY <1>2, <2>2, <2>3, <2>4, JoinTypePrime DEF IInv
<1>4. CASE ScriptNotifies \/ ShutdownNotifies
  <2>1. /\ waiter' = Notified(waiter)
        /\ UNCHANGED <<db, next, popped, removed, shutdown, pc, call, late, reply>>
        /\ gil' = "free" /\ grown' = FALSE
    BY <1>4 DEF ScriptNotifies, ShutdownNotifies, store, IInv, FlagOK, TypeOK
  <2>2. RestOK' /\ ClientOK' /\ FlagOK'
    BY <1>1, <2>1, NotifiedFacts DEF RestOK, IInv, ClientOK, FlagOK
  <2>3. NoLostWakeup'
    BY <2>1, WakeupKeptByNotifying DEF Parked
  <2> QED BY <1>2, <2>2, <2>3, JoinTypePrime DEF IInv
<1> QED BY <1>3, <1>4

-----------------------------------------------------------------------------
(* The steps of a blocking call *)

\* The keys of a running call are keys of the store.
LEMMA CallFacts ==
    ASSUME IInv, NEW c \in Clients, pc[c] # "idle"
    PROVE  /\ call[c] \in CallType
           /\ call[c].keys \in Seq(Keys) /\ call[c].keys # <<>>
           /\ \A i \in DOMAIN call[c].keys : call[c].keys[i] \in Keys
           /\ call[c].end \in Ends /\ call[c].to \in Ends /\ call[c].dst \in Keys
           /\ call[c].op = "move" => Len(call[c].keys) = 1
<1>1. call[c] \in CallType /\ (call[c].op = "move" => Len(call[c].keys) = 1)
  BY ConstantsAssumption DEF IInv, ClientOK
<1>2. call[c].keys \in Seq(Keys) /\ call[c].keys # <<>>
  BY <1>1 DEF CallType
<1>3. call[c].end \in Ends /\ call[c].to \in Ends /\ call[c].dst \in Keys
  BY <1>1 DEF CallType
<1> QED BY <1>1, <1>2, <1>3

\* A poll that found nothing parks the call: none of its keys is poppable then.
LEMMA PollParks ==
    ASSUME IInv, NEW c \in Clients, pc[c] \in {"first", "poll"},
           pc' = [pc EXCEPT ![c] = "loop"],
           \A k \in Keys : Poppable(db', k) => Poppable(db, k),
           \A i \in DOMAIN call[c].keys : ~Poppable(db', call[c].keys[i]),
           UNCHANGED <<waiter, grown, call>>
    PROVE  NoLostWakeup'
<1> SUFFICES ASSUME NEW b \in Clients, Parked(b)', waiter'[b] # "notified", ~grown',
                    NEW i \in DOMAIN call'[b].keys
             PROVE  ~Poppable(db', call'[b].keys[i])
  BY DEF NoLostWakeup
<1>1. CASE b = c
  BY <1>1
<1>2. CASE b # c
  <2>1. Parked(b) /\ pc[b] # "idle"
    BY <1>2 DEF Parked, IInv, TypeOK
  <2>2. ~Poppable(db, call[b].keys[i])
    BY <2>1 DEF IInv, NoLostWakeup
  <2>3. call[b].keys[i] \in Keys
    BY <2>1, CallFacts
  <2> QED BY <2>2, <2>3
<1> QED BY <1>1, <1>2

\* A poll that resolves the call.
LEMMA PollResolves ==
    ASSUME IInv, NEW c \in Clients, NEW value \in Elements \cup {Nil, WrongType},
           Resolve(c, value), db' \in Map, popped' \subseteq Elements,
           UNCHANGED <<next, removed, control, call, late>>,
           \/ /\ UNCHANGED waiter
              /\ \A k \in Keys : Poppable(db', k) => Poppable(db, k)
           \/ waiter' = Notified(waiter),
           pc[c] # "idle"
    PROVE  IInv'
<1>0. /\ pc' \in [Clients -> {"idle", "first", "loop", "select", "rearm", "poll", "reply"}]
      /\ reply' \in [Clients -> Elements \cup {Nil, WrongType}]
      /\ pc' = [pc EXCEPT ![c] = "reply"]
  BY DEF Resolve, IInv, TypeOK
<1>1. waiter' \in [Clients -> {"off", "armed", "notified"}]
      /\ \A b \in Clients : waiter'[b] = "off" <=> waiter[b] = "off"
  BY NotifiedFacts DEF IInv, TypeOK
<1>2. RestOK'
  BY <1>0, <1>1 DEF RestOK, IInv, TypeOK, control
<1>3. ClientOK' /\ FlagOK'
  BY <1>0, <1>1 DEF ClientOK, FlagOK, IInv, TypeOK, control
<1>4. \A b \in Clients : pc'[b] \in {"loop", "select"} => Parked(b)
  BY <1>0 DEF Parked, IInv, TypeOK
<1>5. NoLostWakeup'
  <2>1. CASE UNCHANGED waiter /\ \A k \in Keys : Poppable(db', k) => Poppable(db, k)
    BY <2>1, <1>4, WakeupKeptByShrinking DEF control
  <2>2. CASE waiter' = Notified(waiter)
    BY <2>2, <1>4, WakeupKeptByNotifying
  <2> QED BY <2>1, <2>2
<1> QED BY <1>2, <1>3, <1>5, JoinTypePrime DEF IInv

\* A poll of BLPOP or BRPOP goes to sleep only if none of its keys has an element.
LEMMA PollPopKeeps ==
    ASSUME IInv, NEW c \in Clients, pc[c] \in {"first", "poll"}, PollPop(c),
           UNCHANGED <<waiter, next, removed, control, call, late>>
    PROVE  IInv'
<1> DEFINE keys == call[c].keys
           d(i) == Purge(db, {keys[j] : j \in 1 .. i})
<1>1. db \in Map /\ RestOK
  BY SplitType DEF IInv
<1>2. /\ keys \in Seq(Keys) /\ keys # <<>> /\ call[c].end \in Ends
      /\ \A i \in DOMAIN keys : keys[i] \in Keys
  BY CallFacts
<1>3. \A i : d(i) \in Map /\ \A k \in Keys : Poppable(d(i), k) => Poppable(db, k)
  BY <1>1, PurgeFacts
<1>4. CASE /\ NoHit(d(Len(keys)), keys)
           /\ db' = d(Len(keys))
           /\ KeepsWaiting(c)
           /\ UNCHANGED popped
  <2>1. pc' = [pc EXCEPT ![c] = "loop"] /\ reply' = reply
    BY <1>4 DEF KeepsWaiting
  <2>2. \A i \in DOMAIN keys : ~Poppable(db', keys[i])
    BY <1>4 DEF NoHit, Stops, Poppable
  <2>3. db' \in Map /\ \A k \in Keys : Poppable(db', k) => Poppable(db, k)
    BY <1>3, <1>4
  <2> HIDE DEF d
  <2>4. NoLostWakeup'
    BY <2>1, <2>2, <2>3, PollParks DEF control
  <2>5. RestOK'
    BY <1>1, <1>4, <2>1 DEF RestOK, control
  <2>6. ClientOK' /\ FlagOK'
    BY <2>1 DEF ClientOK, FlagOK, IInv, TypeOK, control
  <2> QED BY <2>3, <2>4, <2>5, <2>6, JoinTypePrime DEF IInv
<1>5. ASSUME NEW i \in DOMAIN keys
      PROVE  /\ keys[i] \in Keys
             /\ d(i) \in Map
             /\ \A x \in Keys : Poppable(d(i), x) => Poppable(db, x)
             /\ d(i)[keys[i]].list \in Seq(Elements)
             /\ (d(i)[keys[i]].kind = "list") <=> (d(i)[keys[i]].list # <<>>)
  <2>1. keys[i] \in Keys /\ d(i) \in Map
    BY <1>2, <1>3
  <2> HIDE DEF d, keys
  <2>2. d(i)[keys[i]] \in LiveEntry
    BY <2>1 DEF Map
  <2> QED BY <2>1, <2>2, <1>3, EntryFacts
<1>6. ASSUME NEW i \in DOMAIN keys, d(i)[keys[i]].kind = "string", db' = d(i),
             Resolve(c, WrongType), UNCHANGED popped
      PROVE  IInv'
  <2> HIDE DEF d
  <2> QED BY <1>1, <1>5, <1>6, PollResolves DEF RestOK
<1>7. ASSUME NEW i \in DOMAIN keys, d(i)[keys[i]].kind = "list",
             db' = [d(i) EXCEPT ![keys[i]] = WithList(@, AfterPop(@.list, call[c].end, 1))],
             Resolve(c, EndOf(d(i)[keys[i]].list, call[c].end)),
             popped' = popped \cup {EndOf(d(i)[keys[i]].list, call[c].end)}
      PROVE  IInv'
  <2> DEFINE k == keys[i]
             m == d(i)
  <2>1. /\ k \in Keys /\ m \in Map
        /\ \A x \in Keys : Poppable(m, x) => Poppable(db, x)
        /\ m[k].kind = "list" /\ m[k].list \in Seq(Elements) /\ m[k].list # <<>>
    BY <1>5, <1>7
  <2>2. /\ db' = [m EXCEPT ![k] = WithList(@, AfterPop(@.list, call[c].end, 1))]
        /\ Resolve(c, EndOf(m[k].list, call[c].end))
        /\ popped' = popped \cup {EndOf(m[k].list, call[c].end)}
    BY <1>7
  <2> HIDE DEF k, m
  <2>3. EndOf(m[k].list, call[c].end) \in Elements
    BY <2>1, EndOfType
  <2>4. AfterPop(m[k].list, call[c].end, 1) \in Seq(Elements)
    BY <1>2, <2>1, AfterPopType
  <2>5. db' \in Map /\ \A x \in Keys : Poppable(db', x) => Poppable(m, x)
    BY <2>1, <2>2, <2>4, RewriteFacts
  <2>6. popped' \subseteq Elements
    BY <1>1, <2>2, <2>3 DEF RestOK
  <2>7. \A x \in Keys : Poppable(db', x) => Poppable(db, x)
    BY <2>1, <2>5
  <2> QED BY <2>2, <2>3, <2>5, <2>6, <2>7, PollResolves
<1> QED BY <1>4, <1>6, <1>7 DEF PollPop

\* A poll of BLMOVE does too, and notifies when it filled its destination.
LEMMA PollMoveKeeps ==
    ASSUME IInv, NEW c \in Clients, pc[c] \in {"first", "poll"},
           call[c].op = "move", PollMove(c),
           UNCHANGED <<next, removed, control, call, late>>
    PROVE  IInv'
<1> DEFINE src == call[c].keys[1]
           dst == call[c].dst
           d   == Purge(db, {src, dst})
<1>1. db \in Map /\ RestOK
  BY SplitType DEF IInv
<1>2. /\ src \in Keys /\ dst \in Keys /\ call[c].end \in Ends /\ call[c].to \in Ends
      /\ call[c].keys \in Seq(Keys) /\ 1 \in DOMAIN call[c].keys
  BY CallFacts
<1>3. d \in Map /\ \A k \in Keys : Poppable(d, k) => Poppable(db, k)
  BY <1>1, PurgeFacts
<1>4. popped' \subseteq Elements
  BY <1>1 DEF PollMove, RestOK
<1> HIDE DEF d
<1>5. CASE ~Stops(d, src) /\ db' = d /\ KeepsWaiting(c) /\ UNCHANGED waiter
  <2>1. pc' = [pc EXCEPT ![c] = "loop"] /\ reply' = reply
    BY <1>5 DEF KeepsWaiting
  <2>2. ~Poppable(db', src)
    BY <1>5 DEF Stops, Poppable
  <2>3. \A k \in Keys : Poppable(db', k) => Poppable(db, k)
    BY <1>3, <1>5
  <2>4. RestOK'
    BY <1>1, <1>4, <1>5, <2>1 DEF RestOK, control
  <2>5. ClientOK' /\ FlagOK'
    BY <1>5, <2>1 DEF ClientOK, FlagOK, IInv, TypeOK, control
  <2>6. \A i \in DOMAIN call[c].keys : call[c].keys[i] = src
    <3>1. DOMAIN call[c].keys = 1 .. 1
      BY CallFacts
    <3> QED BY <3>1
  <2>7. NoLostWakeup'
    BY <1>5, <2>1, <2>2, <2>3, <2>6, PollParks DEF control
  <2> QED BY <1>3, <1>5, <2>4, <2>5, <2>7, JoinTypePrime DEF IInv
<1>6. CASE MoveBlocked(d, src, dst) /\ db' = d /\ Resolve(c, WrongType) /\ UNCHANGED waiter
  BY <1>3, <1>4, <1>6, PollResolves
<1>7. CASE /\ ~MoveBlocked(d, src, dst)
           /\ db' = Moved(d, src, dst, call[c].end, call[c].to)
           /\ Resolve(c, EndOf(d[src].list, call[c].end))
           /\ waiter' = Notified(waiter)
  <2> HIDE DEF src, dst
  <2>1. db' \in Map /\ EndOf(d[src].list, call[c].end) \in Elements
    BY <1>2, <1>3, <1>7, MovedFacts
  <2> QED BY <1>4, <1>7, <2>1, PollResolves
<1> QED BY <1>5, <1>6, <1>7 DEF PollMove, d

\* Every poll keeps the invariant.
LEMMA PollKeeps ==
    ASSUME IInv, NEW c \in Clients, Poll(c)
    PROVE  IInv'
<1>1. CASE call[c].op = "pop" /\ PollPop(c) /\ UNCHANGED waiter
  BY <1>1, PollPopKeeps DEF Poll
<1>2. CASE call[c].op = "move" /\ PollMove(c)
  BY <1>2, PollMoveKeeps DEF Poll
<1> QED BY <1>1, <1>2 DEF Poll

\* The other steps of a call leave the store and the control state alone.  A
\* call that they park was parked, with the same waiter, or has none to wake.
LEMMA LocalStep ==
    ASSUME IInv, NEW c \in Clients, UNCHANGED <<store, control>>,
           \/ \E cl \in Calls : Call(c, cl)
           \/ LoopHead(c) \/ Wakes(c) \/ Rearms(c) \/ SleepEnds(c) \/ DeadlinePasses(c)
           \/ Delivers(c) \/ Cancelled(c)
    PROVE  IInv'
<1>1. db' \in Map /\ RestOK
  BY SplitType DEF IInv, store
<1>2. /\ pc' \in [Clients -> {"idle", "first", "loop", "select", "rearm", "poll", "reply"}]
      /\ waiter' \in [Clients -> {"off", "armed", "notified"}]
      /\ call' \in [Clients -> Calls \cup {NoCall}]
      /\ late' \in [Clients -> BOOLEAN]
      /\ reply' \in [Clients -> Elements \cup {Nil, WrongType}]
  <2>1. pc' \in [Clients -> {"idle", "first", "loop", "select", "rearm", "poll", "reply"}]
    BY <1>1 DEF Call, LoopHead, Wakes, Rearms, SleepEnds, DeadlinePasses, Delivers,
                Cancelled, Completes, Resolve, KeepsWaiting, RestOK
  <2>2. waiter' \in [Clients -> {"off", "armed", "notified"}]
    BY <1>1 DEF Call, LoopHead, Wakes, Rearms, SleepEnds, DeadlinePasses, Delivers,
                Cancelled, Completes, Resolve, KeepsWaiting, RestOK
  <2>3. call' \in [Clients -> Calls \cup {NoCall}]
    BY <1>1 DEF Call, LoopHead, Wakes, Rearms, SleepEnds, DeadlinePasses, Delivers,
                Cancelled, Completes, Resolve, KeepsWaiting, RestOK
  <2>4. late' \in [Clients -> BOOLEAN]
    <3>1. late' = late \/ late' = [late EXCEPT ![c] = TRUE]
                       \/ late' = [late EXCEPT ![c] = FALSE]
      BY DEF Call, LoopHead, Wakes, Rearms, SleepEnds, DeadlinePasses, Delivers,
                Cancelled, Completes, Resolve, KeepsWaiting, RestOK
    <3> QED BY <1>1, <3>1 DEF RestOK
  <2>5. reply' \in [Clients -> Elements \cup {Nil, WrongType}]
    BY <1>1 DEF Call, LoopHead, Wakes, Rearms, SleepEnds, DeadlinePasses, Delivers,
                Cancelled, Completes, Resolve, KeepsWaiting, RestOK
  <2> QED BY <2>1, <2>2, <2>3, <2>4, <2>5
<1>3. RestOK'
  BY <1>1, <1>2 DEF RestOK, store, control
<1>4. ClientOK' /\ FlagOK'
  BY <1>1 DEF Call, LoopHead, Wakes, Rearms, SleepEnds, DeadlinePasses, Delivers, Cancelled,
              Completes, Resolve, KeepsWaiting, RestOK, ClientOK, FlagOK, IInv, control
<1>5. \A b \in Clients :
         pc'[b] \in {"loop", "select"}
             => Parked(b) /\ waiter'[b] = waiter[b] /\ call'[b] = call[b]
  BY <1>1 DEF Call, LoopHead, Wakes, Rearms, SleepEnds, DeadlinePasses, Delivers, Cancelled,
              Completes, Resolve, KeepsWaiting, RestOK, Parked
<1>6. NoLostWakeup'
  BY <1>5, WakeupKeptByShrinking DEF store, control
<1> QED BY <1>1, <1>3, <1>4, <1>6, JoinTypePrime DEF IInv

\* Every step of a blocking call keeps the invariant.
LEMMA ClientStepKeeps ==
    ASSUME IInv, NEW c \in Clients, ClientStep(c)
    PROVE  IInv'
<1>1. CASE Poll(c)
  BY <1>1, PollKeeps
<1>2. CASE \/ \E cl \in Calls : Call(c, cl)
           \/ LoopHead(c) \/ Wakes(c) \/ Rearms(c) \/ SleepEnds(c) \/ DeadlinePasses(c)
           \/ Delivers(c) \/ Cancelled(c)
  <2>1. UNCHANGED <<store, control>>
    BY <1>2 DEF Call, LoopHead, Wakes, Rearms, SleepEnds, DeadlinePasses, Delivers,
                Cancelled, Completes
  <2> QED BY <1>2, <2>1, LocalStep
<1> QED BY <1>1, <1>2 DEF ClientStep

-----------------------------------------------------------------------------
(* The theorems *)

\* Every step keeps the invariant.
LEMMA NextIInv == IInv /\ [Next]_vars => IInv'
<1> SUFFICES ASSUME IInv, [Next]_vars PROVE IInv'
  OBVIOUS
<1>1. CASE Command
  BY <1>1, CommandKeeps
<1>2. CASE \E ks \in SUBSET Keys : Sweep(ks)
  BY <1>2, SweepKeeps
<1>3. CASE \E k \in Keys : TimePasses(k)
  BY <1>3, TimePassesKeeps
<1>4. CASE ScriptBegins \/ ScriptEnds \/ ScriptNotifies \/ Shutdown \/ ShutdownNotifies
  BY <1>4, ControlKeeps
<1>5. CASE \E c \in Clients : ClientStep(c)
  BY <1>5, ClientStepKeeps
<1>6. CASE UNCHANGED vars
  BY <1>6 DEF vars, IInv, TypeOK, EmptyListRemoved, ClientOK, FlagOK, NoLostWakeup, Parked,
              Poppable
<1> QED BY <1>1, <1>2, <1>3, <1>4, <1>5, <1>6 DEF Next

\* The inductive invariant holds in every reachable state of the lists and the
\* blocking calls.
THEOREM InductiveInvariant == Spec => []IInv
BY InitIInv, NextIInv, PTL DEF Spec

(* The variables keep their types, whatever the number of keys, clients and  *)
(* elements: what LREM, LTRIM, LSET, LINSERT and the moves of store.rs build *)
(* is again a list of elements.                                              *)
THEOREM TypeCorrect == Spec => []TypeOK
<1>1. IInv => TypeOK
  BY DEF IInv
<1> QED BY <1>1, InductiveInvariant, PTL

(* No blocking call of lib.rs sleeps, without a notification on its way, on  *)
(* a key that holds an element.                                              *)
THEOREM NoWakeupIsLost == Spec => []NoLostWakeup
<1>1. IInv => NoLostWakeup
  BY DEF IInv
<1> QED BY <1>1, InductiveInvariant, PTL

(* D-03 holds for every list mutator of store.rs and of the blocking calls.  *)
THEOREM EmptyListsAreRemoved == Spec => []EmptyListRemoved
<1>1. IInv => EmptyListRemoved
  BY DEF IInv
<1> QED BY <1>1, InductiveInvariant, PTL

-----------------------------------------------------------------------------
(***************************************************************************)
(* Where the elements are.  An element is told from every other one, so a  *)
(* list operation is known by the elements it keeps and by keeping them    *)
(* apart.  Every step but a move gives new elements to one key at most and *)
(* takes some from it; a move takes an element from one key to another.    *)
(***************************************************************************)

\* A list with no other elements than another one, and no duplicates if it has none.
Within(new, old) ==
    /\ Range(new) \subseteq Range(old)
    /\ IsInjective(old) => IsInjective(new)

\* An interval of a list.
LEMMA SubSeqWithin ==
    ASSUME NEW S, NEW list \in Seq(S), NEW m \in Int, NEW n \in Int, 1 <= m, n <= Len(list)
    PROVE  Within(SubSeq(list, m, n), list)
<1> DEFINE part == SubSeq(list, m, n)
<1>1. \A i \in m .. n : list[i] \in S
  OBVIOUS
<1>2. /\ part \in Seq(S)
      /\ DOMAIN part = 1 .. Len(part)
      /\ \A i \in DOMAIN part : m + i - 1 \in DOMAIN list /\ part[i] = list[m + i - 1]
  BY <1>1, SubSeqProperties
<1> HIDE DEF part
<1>3. Range(part) \subseteq Range(list)
  BY <1>2 DEF Range
<1>4. ASSUME IsInjective(list), NEW i \in DOMAIN part, NEW j \in DOMAIN part, part[i] = part[j]
      PROVE  i = j
  <2>1. m + i - 1 = m + j - 1
    BY <1>2, <1>4 DEF IsInjective
  <2> QED BY <2>1, <1>2
<1> QED BY <1>3, <1>4 DEF Within, IsInjective, part

\* Popping keeps some of the elements.
LEMMA AfterPopWithin ==
    ASSUME NEW S, NEW list \in Seq(S), NEW end \in Ends, NEW n \in Nat
    PROVE  Within(AfterPop(list, end, n), list)
<1> DEFINE taken == Min({n, Len(list)})
<1>1. taken \in Nat /\ taken <= Len(list) /\ Len(list) \in Nat
  <2>1. \E x \in {n, Len(list)} : \A y \in {n, Len(list)} : x <= y
    OBVIOUS
  <2> QED BY <2>1 DEF Min
<1> HIDE DEF taken
<1>2. Within(SubSeq(list, taken + 1, Len(list)), list)
  BY <1>1, SubSeqWithin
<1>3. Within(SubSeq(list, 1, Len(list) - taken), list)
  BY <1>1, SubSeqWithin
<1> QED BY <1>2, <1>3 DEF AfterPop, taken

\* Popping one element of a list without duplicates takes the end, and only it.
LEMMA PopOne ==
    ASSUME NEW S, NEW list \in Seq(S), list # <<>>, NEW end \in Ends, IsInjective(list)
    PROVE  /\ EndOf(list, end) \in Range(list)
           /\ Range(AfterPop(list, end, 1)) = Range(list) \ {EndOf(list, end)}
<1>1. Len(list) \in Nat \ {0}
  OBVIOUS
<1>2. Min({1, Len(list)}) = 1
  BY <1>1 DEF Min
<1>3. CASE end = "LEFT"
  <2> DEFINE rest == SubSeq(list, 2, Len(list))
  <2>1. AfterPop(list, end, 1) = rest /\ EndOf(list, end) = list[1]
    BY <1>2, <1>3, 1 + 1 = 2 DEF AfterPop, EndOf
  <2>2. \A i \in 2 .. Len(list) : list[i] \in S
    OBVIOUS
  <2>3. /\ DOMAIN rest = 1 .. Len(list) - 1
        /\ \A i \in 1 .. Len(list) - 1 : rest[i] = list[i + 1]
    BY <1>1, <2>2, SubSeqProperties
  <2> HIDE DEF rest
  <2>4. Range(rest) = {list[i] : i \in 2 .. Len(list)}
    <3>1. ASSUME NEW i \in 2 .. Len(list) PROVE list[i] \in Range(rest)
      <4>1. i - 1 \in 1 .. Len(list) - 1 /\ rest[i - 1] = list[i]
        BY <1>1, <2>3
      <4> QED BY <4>1, <2>3 DEF Range
    <3>2. ASSUME NEW i \in 1 .. Len(list) - 1 PROVE i + 1 \in 2 .. Len(list)
      BY <1>1
    <3> QED BY <2>3, <3>1, <3>2 DEF Range
  <2>5. /\ 1 \in DOMAIN list /\ 1 \notin 2 .. Len(list)
        /\ \A i \in DOMAIN list : i = 1 \/ i \in 2 .. Len(list)
        /\ 2 .. Len(list) \subseteq DOMAIN list
    BY <1>1
  <2>6. Range(list) \ {list[1]} = {list[i] : i \in 2 .. Len(list)}
    BY <2>5 DEF Range, IsInjective
  <2> QED BY <2>1, <2>4, <2>5, <2>6 DEF Range
<1>4. CASE end = "RIGHT"
  <2> DEFINE rest == SubSeq(list, 1, Len(list) - 1)
  <2>1. AfterPop(list, end, 1) = rest /\ EndOf(list, end) = list[Len(list)]
    BY <1>2, <1>4 DEF AfterPop, EndOf
  <2>2. \A i \in 1 .. Len(list) - 1 : list[i] \in S
    OBVIOUS
  <2>3. /\ DOMAIN rest = 1 .. Len(list) - 1
        /\ \A i \in 1 .. Len(list) - 1 : rest[i] = list[i]
    BY <1>1, <2>2, SubSeqProperties
  <2> HIDE DEF rest
  <2>4. Range(rest) = {list[i] : i \in 1 .. Len(list) - 1}
    BY <2>3 DEF Range
  <2>5. /\ Len(list) \in DOMAIN list /\ Len(list) \notin 1 .. Len(list) - 1
        /\ \A i \in DOMAIN list : i = Len(list) \/ i \in 1 .. Len(list) - 1
        /\ 1 .. Len(list) - 1 \subseteq DOMAIN list
    BY <1>1
  <2>6. Range(list) \ {list[Len(list)]} = {list[i] : i \in 1 .. Len(list) - 1}
    BY <2>5 DEF Range, IsInjective
  <2> QED BY <2>1, <2>4, <2>5, <2>6 DEF Range
<1> QED BY <1>3, <1>4 DEF Ends

\* LTRIM keeps some of the elements.
LEMMA SliceWithin ==
    ASSUME NEW S, NEW list \in Seq(S), NEW i \in Int, NEW j \in Int
    PROVE  Within(Slice(list, i, j), list)
<1>1. CASE NormalizeRange(i, j, Len(list)) = NoRange
  BY <1>1 DEF Slice, Within, Range, IsInjective
<1>2. CASE NormalizeRange(i, j, Len(list)) # NoRange
  <2> DEFINE from == IF i < 0 THEN Max({i + Len(list), 0}) ELSE i
             to   == IF j < 0 THEN j + Len(list) ELSE Min({j, Len(list) - 1})
  <2>1. from \in Int /\ from >= 0
    <3>1. \E x \in {i + Len(list), 0} : \A y \in {i + Len(list), 0} : x >= y
      OBVIOUS
    <3> QED BY <3>1 DEF Max
  <2>2. to \in Int /\ to <= Len(list) - 1
    <3>1. \E x \in {j, Len(list) - 1} : \A y \in {j, Len(list) - 1} : x <= y
      OBVIOUS
    <3>2. Min({j, Len(list) - 1}) \in {j, Len(list) - 1}
             /\ Min({j, Len(list) - 1}) <= Len(list) - 1
      BY <3>1 DEF Min
    <3> QED BY <3>2
  <2>3. NormalizeRange(i, j, Len(list)) = <<from, to>>
    BY <1>2 DEF NormalizeRange
  <2> HIDE DEF from, to
  <2>4. from + 1 \in Int /\ to + 1 \in Int /\ 1 <= from + 1 /\ to + 1 <= Len(list)
    BY <2>1, <2>2
  <2>5. Within(SubSeq(list, from + 1, to + 1), list)
    BY <2>4, SubSeqWithin
  <2> QED BY <2>3, <2>5, <1>2 DEF Slice
<1> QED BY <1>1, <1>2

\* LREM keeps some of the elements: the n-th kept index is another for every n.
LEMMA LRemWithin ==
    ASSUME NEW S, NEW list \in Seq(S), NEW count, NEW v
    PROVE  Within(LRem(list, count, v), list)
<1> DEFINE indices == LRemIndices(list, count, v)
           Kept == {i \in DOMAIN list : i \notin indices}
           IsNth(i, n) == Cardinality({j \in Kept : j <= i}) = n
           Nth(n) == CHOOSE i \in Kept : IsNth(i, n)
           some == [n \in 1 .. Cardinality(Kept) |-> list[Nth(n)]]
<1>1. Len(list) \in Nat /\ Kept \in SUBSET (1 .. Len(list)) /\ Kept \subseteq DOMAIN list
  OBVIOUS
<1> HIDE DEF Kept
<1>2. \A n \in 1 .. Cardinality(Kept) : Nth(n) \in Kept /\ IsNth(Nth(n), n)
  <2>1. \A n \in 1 .. Cardinality(Kept) : \E i \in Kept : IsNth(i, n)
    BY <1>1, NthExists
  <2> HIDE DEF IsNth
  <2> QED BY <2>1
<1> HIDE DEF Nth
<1>3. Range(some) \subseteq Range(list)
  BY <1>1, <1>2 DEF Range
<1>4. ASSUME IsInjective(list), NEW n \in 1 .. Cardinality(Kept), NEW m \in 1 .. Cardinality(Kept),
             list[Nth(n)] = list[Nth(m)]
      PROVE  n = m
  <2>1. Nth(n) = Nth(m)
    BY <1>1, <1>2, <1>4 DEF IsInjective
  <2> QED BY <1>2, <2>1
<1>5. Within(some, list)
  BY <1>3, <1>4 DEF Within, IsInjective
<1> QED BY <1>5 DEF LRem, Without, Kept, Nth

\* Two lists without duplicates that share nothing, one behind the other.
LEMMA ConcatApart ==
    ASSUME NEW S, NEW s \in Seq(S), NEW t \in Seq(S), IsInjective(s), IsInjective(t),
           Range(s) \cap Range(t) = {}
    PROVE  IsInjective(s \o t) /\ Range(s \o t) = Range(s) \cup Range(t)
<1> DEFINE both == s \o t
<1>1. Len(s) \in Nat /\ Len(t) \in Nat /\ DOMAIN s = 1 .. Len(s) /\ DOMAIN t = 1 .. Len(t)
  OBVIOUS
<1>2. /\ DOMAIN both = 1 .. Len(s) + Len(t)
      /\ \A i \in 1 .. Len(s) + Len(t) :
            both[i] = IF i <= Len(s) THEN s[i] ELSE t[i - Len(s)]
  BY ConcatProperties
<1> HIDE DEF both
<1>3. ASSUME NEW i \in DOMAIN both
      PROVE  \/ i \in DOMAIN s /\ both[i] = s[i] /\ both[i] \in Range(s)
             \/ /\ i - Len(s) \in DOMAIN t /\ i \notin DOMAIN s
                /\ both[i] = t[i - Len(s)] /\ both[i] \in Range(t)
  BY <1>1, <1>2 DEF Range
<1>4. ASSUME NEW i \in DOMAIN both, NEW j \in DOMAIN both, both[i] = both[j]
      PROVE  i = j
  <2>1. CASE i \in DOMAIN s /\ j \in DOMAIN s
    BY <1>3, <1>4, <2>1 DEF IsInjective
  <2>2. CASE i \notin DOMAIN s /\ j \notin DOMAIN s
    <3>1. i - Len(s) = j - Len(s)
      BY <1>3, <1>4, <2>2 DEF IsInjective
    <3> QED BY <1>1, <1>2, <3>1
  <2>3. CASE (i \in DOMAIN s) # (j \in DOMAIN s)
    BY <1>3, <1>4, <2>3
  <2> QED BY <2>1, <2>2, <2>3
<1> QED BY <1>4, RangeConcatenation DEF IsInjective, both

\* A list the other way round.
LEMMA ReverseApart ==
    ASSUME NEW S, NEW s \in Seq(S), IsInjective(s)
    PROVE  Reverse(s) \in Seq(S) /\ IsInjective(Reverse(s)) /\ Range(Reverse(s)) = Range(s)
<1>1. Len(s) \in Nat /\ DOMAIN s = 1 .. Len(s) /\ \A i \in DOMAIN s : s[i] \in S
  OBVIOUS
<1>2. DOMAIN Reverse(s) = DOMAIN s
      /\ \A i \in DOMAIN s : (Len(s) - i) + 1 \in DOMAIN s /\ Reverse(s)[i] = s[(Len(s) - i) + 1]
  BY <1>1 DEF Reverse
<1>3. Reverse(s) \in Seq(S)
  BY <1>1 DEF Reverse
<1> HIDE DEF Reverse
<1>4. ASSUME NEW i \in DOMAIN s, NEW j \in DOMAIN s, Reverse(s)[i] = Reverse(s)[j]
      PROVE  i = j
  <2>1. (Len(s) - i) + 1 = (Len(s) - j) + 1
    BY <1>2, <1>4 DEF IsInjective
  <2> QED BY <1>1, <2>1
<1>5. ASSUME NEW i \in DOMAIN s PROVE s[i] \in Range(Reverse(s))
  <2>1. (Len(s) - i) + 1 \in DOMAIN s /\ (Len(s) - ((Len(s) - i) + 1)) + 1 = i
    BY <1>1
  <2> QED BY <1>2, <2>1 DEF Range
<1>6. IsInjective(Reverse(s))
  BY <1>2, <1>4 DEF IsInjective
<1>7. Range(Reverse(s)) = Range(s)
  <2>1. \A y \in Range(s) : y \in Range(Reverse(s))
    BY <1>5 DEF Range
  <2>2. \A y \in Range(Reverse(s)) : y \in Range(s)
    BY <1>2 DEF Range
  <2> QED BY <2>1, <2>2
<1> QED BY <1>3, <1>6, <1>7

\* LPUSH and RPUSH add the new elements to the old ones.
LEMMA PushedApart ==
    ASSUME NEW S, NEW list \in Seq(S), NEW end, NEW values \in Seq(S),
           IsInjective(list), IsInjective(values), Range(list) \cap Range(values) = {}
    PROVE  /\ IsInjective(Pushed(list, end, values))
           /\ Range(Pushed(list, end, values)) = Range(list) \cup Range(values)
<1>1. IsInjective(list \o values) /\ Range(list \o values) = Range(list) \cup Range(values)
  BY ConcatApart
<1>2. /\ Reverse(values) \in Seq(S) /\ IsInjective(Reverse(values))
      /\ Range(Reverse(values)) = Range(values)
  BY ReverseApart
<1>3. /\ IsInjective(Reverse(values) \o list)
      /\ Range(Reverse(values) \o list) = Range(values) \cup Range(list)
  BY <1>2, ConcatApart
<1> QED BY <1>1, <1>3 DEF Pushed

\* A list of one element.
LEMMA SingleApart ==
    ASSUME NEW S, NEW v \in S
    PROVE  <<v>> \in Seq(S) /\ IsInjective(<<v>>) /\ Range(<<v>>) = {v}
BY DEF IsInjective, Range

\* Pushing one element adds it.
LEMMA Push1Apart ==
    ASSUME NEW S, NEW list \in Seq(S), NEW end, NEW v \in S,
           IsInjective(list), v \notin Range(list)
    PROVE  IsInjective(Push1(list, end, v)) /\ Range(Push1(list, end, v)) = Range(list) \cup {v}
<1> DEFINE one == <<v>>
<1>1. one \in Seq(S) /\ IsInjective(one) /\ Range(one) = {v}
  BY SingleApart
<1>2. Range(one) \cap Range(list) = {} /\ Range(list) \cap Range(one) = {}
  BY <1>1
<1> HIDE DEF one
<1>3. IsInjective(one \o list) /\ Range(one \o list) = {v} \cup Range(list)
  BY <1>1, <1>2, ConcatApart
<1>4. IsInjective(list \o one) /\ Range(list \o one) = Range(list) \cup {v}
  BY <1>1, <1>2, ConcatApart
<1> QED BY <1>3, <1>4 DEF Push1, one

\* LSET puts a new element in the place of an old one.
LEMMA SetAtApart ==
    ASSUME NEW S, NEW list \in Seq(S), NEW index \in Int, NEW v,
           InBounds(list, index), IsInjective(list), v \notin Range(list)
    PROVE  /\ IsInjective(SetAt(list, index, v))
           /\ Range(SetAt(list, index, v)) \subseteq Range(list) \cup {v}
<1> DEFINE at == ActualIndex(list, index) + 1
<1>1. at \in DOMAIN list
  BY DEF InBounds, ActualIndex
<1> HIDE DEF at
<1> QED BY <1>1 DEF SetAt, IsInjective, Range, at

\* LINSERT puts a new element between the old ones.
LEMMA InsertApart ==
    ASSUME NEW S, NEW list \in Seq(S), NEW where, NEW v \in S, NEW pivot \in Range(list),
           IsInjective(list), v \notin Range(list)
    PROVE  /\ IsInjective(InsertNextTo(list, where, pivot, v))
           /\ Range(InsertNextTo(list, where, pivot, v)) \subseteq Range(list) \cup {v}
<1> DEFINE I == {i \in 1 .. Len(list) : list[i] = pivot}
           pos == SelectInSeq(list, LAMBDA x : x = pivot)
<1>1. I # {} /\ I \in SUBSET Nat
  BY DEF Range
<1>2. pos = Min(I)
  BY <1>1 DEF SelectInSeq
<1>3. pos \in I
  <2> HIDE DEF I
  <2>1. \E m \in I : \A n \in I : m <= n
    BY <1>1, LeastNat
  <2> QED BY <2>1, <1>2 DEF Min
<1>4. pos \in 1 .. Len(list) /\ Len(list) \in Nat
  BY <1>3
<1> HIDE DEF pos
<1>5. ASSUME NEW at \in 1 .. Len(list) + 1
      PROVE  /\ IsInjective(InsertAt(list, at, v))
             /\ Range(InsertAt(list, at, v)) \subseteq Range(list) \cup {v}
  <2> DEFINE front == SubSeq(list, 1, at - 1)
             back  == SubSeq(list, at, Len(list))
  <2>1. (\A i \in 1 .. at - 1 : list[i] \in S) /\ \A i \in at .. Len(list) : list[i] \in S
    OBVIOUS
  <2>2. front \in Seq(S) /\ back \in Seq(S)
    BY <2>1, SubSeqProperties
  <2>3. Within(front, list) /\ Within(back, list)
    BY <1>4, SubSeqWithin
  <2>4. Range(front) \cap Range(back) = {}
    <3>1. /\ DOMAIN front = 1 .. at - 1
          /\ \A i \in 1 .. at - 1 : front[i] = list[i] /\ i \in DOMAIN list
      BY <1>4, <2>1, SubSeqProperties
    <3>2. /\ DOMAIN back = 1 .. Len(list) - at + 1
          /\ \A i \in 1 .. Len(list) - at + 1 :
                /\ back[i] = list[at + i - 1] /\ at + i - 1 \in DOMAIN list
                /\ \A j \in 1 .. at - 1 : j # at + i - 1
      BY <1>4, <2>1, SubSeqProperties
    <3> HIDE DEF front, back
    <3> QED BY <3>1, <3>2 DEF Range, IsInjective
  <2> HIDE DEF front, back
  <2> DEFINE one  == <<v>>
             head == front \o one
  <2>5. one \in Seq(S) /\ IsInjective(one) /\ Range(one) = {v}
    BY SingleApart
  <2> HIDE DEF one
  <2>6. head \in Seq(S) /\ IsInjective(head) /\ Range(head) = Range(front) \cup {v}
    <3>1. Range(front) \cap Range(one) = {} /\ IsInjective(front)
      BY <2>3, <2>5 DEF Within
    <3>2. IsInjective(head) /\ Range(head) = Range(front) \cup Range(one)
      BY <2>2, <2>5, <3>1, ConcatApart
    <3> QED BY <2>2, <2>5, <3>2
  <2> HIDE DEF head
  <2>7. IsInjective(head \o back) /\ Range(head \o back) = Range(head) \cup Range(back)
    <3>1. Range(head) \cap Range(back) = {} /\ IsInjective(back)
      BY <2>3, <2>4, <2>6 DEF Within
    <3> QED BY <2>2, <2>6, <3>1, ConcatApart
  <2>8. InsertAt(list, at, v) = head \o back
    BY DEF InsertAt, head, one, front, back
  <2> QED BY <2>3, <2>6, <2>7, <2>8 DEF Within
<1>6. (IF where = "BEFORE" THEN pos ELSE pos + 1) \in 1 .. Len(list) + 1
  BY <1>4
<1> QED BY <1>5, <1>6 DEF InsertNextTo, pos

-----------------------------------------------------------------------------
(* The invariant of the places, and what a step does to them *)

\* No element is twice in a list or in two lists.
Apart(d) ==
    /\ \A k \in Keys : IsInjective(d[k].list)
    /\ \A k, l \in Keys : k # l => Range(d[k].list) \cap Range(d[l].list) = {}

\* A call that is about to be answered with an element that it popped.
Answered(c) == pc[c] = "reply" /\ call[c].op = "pop" /\ reply[c] \in Elements

\* Its element has been popped, for this call alone.
AnswersApart ==
    /\ \A c \in Clients : Answered(c) => reply[c] \in popped
    /\ \A b, c \in Clients : Answered(b) /\ Answered(c) /\ reply[b] = reply[c] => b = c

\* Elements that are stored or popped were pushed.
Counted == Stored \cup popped \subseteq 1 .. next - 1

PlaceInv == Apart(db) /\ popped \cap Stored = {} /\ Counted /\ AnswersApart

\* A step that gives the elements of g to the key K, and to no other: new ones, or
\* one of a live list.  What it takes from live lists stays in the store or in
\* the history; an expired entry stays, or its elements are gone.
Handled(K, g) ==
    /\ \A k \in Keys : IsInjective(db'[k].list)
    /\ \A k \in Keys \ {K} : /\ Range(db'[k].list) \subseteq Range(db[k].list)
                             /\ Range(db'[k].list) \cap g = {}
    /\ K \in Keys => Range(db'[K].list) \subseteq Range(db[K].list) \cup g
    /\ g \subseteq LiveElements \cup (next .. next' - 1)
    /\ LiveElements \subseteq Stored' \cup popped' \cup removed'
    /\ \A k \in Keys : db[k].ttl = "past" =>
          db'[k] = db[k] \/ Range(db'[k].list) \subseteq g
    /\ \A k \in Keys : /\ db[k].ttl = "running"
                       /\ Range(db[k].list) \cap Range(db'[k].list) # {}
                       => db'[k].ttl # "none"
    /\ popped \subseteq popped'
    /\ popped' \subseteq popped \cup LiveElements
    /\ popped' \cap Stored' = {}
    /\ next <= next'

\* Membership in the sets of elements.
LEMMA StoredIs ==
    /\ \A x : x \in Stored <=> \E k \in Keys : x \in Range(db[k].list)
    /\ \A x : x \in Stored' <=> \E k \in Keys : x \in Range(db'[k].list)
    /\ \A x : x \in LiveElements <=> \E k \in Keys : db[k].ttl # "past" /\ x \in Range(db[k].list)
    /\ \A x : x \in LiveElements' <=>
              \E k \in Keys : db'[k].ttl # "past" /\ x \in Range(db'[k].list)
BY DEF Stored, LiveElements

\* The elements pushed before a step, and those it pushes.
LEMMA FreshFacts ==
    ASSUME NEW m \in Nat \ {0}, NEW n \in Nat, m <= n
    PROVE  /\ 1 .. m - 1 \subseteq 1 .. n - 1
           /\ m .. n - 1 \subseteq 1 .. n - 1
           /\ \A x \in 1 .. m - 1 : x \notin m .. n - 1
OBVIOUS

\* What was pushed before a step is not pushed by it.
LEMMA NotYet ==
    ASSUME NEW m \in Nat, NEW n \in Nat
    PROVE  \A x \in 1 .. m - 1 : x \notin m .. n - 1
OBVIOUS

\* The n elements that a push takes in turn.
LEMMA Numbered ==
    ASSUME NEW m \in Nat, NEW n \in Nat, NEW f, f = [i \in 1 .. n |-> m + i - 1]
    PROVE  IsInjective(f) /\ Range(f) = m .. (m + n) - 1
<1>1. \A i \in 1 .. n : f[i] = m + i - 1 /\ m + i - 1 \in m .. (m + n) - 1
  OBVIOUS
<1>2. ASSUME NEW x \in m .. (m + n) - 1 PROVE x \in Range(f)
  <2>1. x - m + 1 \in 1 .. n /\ x = m + (x - m + 1) - 1
    OBVIOUS
  <2> QED BY <2>1 DEF Range
<1>3. DOMAIN f = 1 .. n
  OBVIOUS
<1>4. IsInjective(f)
  BY <1>1, <1>3 DEF IsInjective
<1>5. Range(f) \subseteq m .. (m + n) - 1
  BY <1>1, <1>3 DEF Range
<1> QED BY <1>2, <1>4, <1>5

\* Such a step keeps the elements apart ...
LEMMA HandledKeeps ==
    ASSUME PlaceInv, NEW K, NEW g, Handled(K, g), next \in Nat \ {0}, next' \in Nat
    PROVE  Apart(db)' /\ (popped \cap Stored = {})' /\ Counted'
<1>1. g \subseteq 1 .. next' - 1 /\ 1 .. next - 1 \subseteq 1 .. next' - 1
  <2>1. LiveElements \subseteq 1 .. next - 1
    BY StoredIs DEF PlaceInv, Counted
  <2>2. next <= next' /\ g \subseteq LiveElements \cup (next .. next' - 1)
    BY DEF Handled
  <2> QED BY <2>1, <2>2, FreshFacts
<1>2. Counted'
  <2>1. ASSUME NEW x \in Stored' PROVE x \in Stored \cup g
    BY StoredIs DEF Handled
  <2>2. popped' \subseteq Stored \cup popped
    BY StoredIs DEF Handled
  <2> QED BY <1>1, <2>1, <2>2 DEF PlaceInv, Counted
<1>3. ASSUME NEW k \in Keys, NEW l \in Keys, k # l
      PROVE  Range(db'[k].list) \cap Range(db'[l].list) = {}
  <2>1. Range(db[k].list) \cap Range(db[l].list) = {}
    BY <1>3 DEF PlaceInv, Apart
  <2> QED BY <1>3, <2>1 DEF Handled
<1> QED BY <1>2, <1>3 DEF Apart, Handled

\* ... and is as the action properties say.
LEMMA HandledIsFair ==
    ASSUME PlaceInv, NEW K, NEW g, Handled(K, g), next \in Nat \ {0}, next' \in Nat
    PROVE  /\ LiveElements \subseteq Stored' \cup popped' \cup removed'
           /\ (Stored \ LiveElements) \cap (LiveElements' \cup popped') = {}
           /\ \A k \in Keys : /\ db[k].ttl = "running"
                              /\ Range(db[k].list) \cap Range(db'[k].list) # {}
                              => db'[k].ttl # "none"
<1>1. ASSUME NEW x \in Stored \ LiveElements PROVE x \notin LiveElements' \cup popped'
  <2>1. PICK k \in Keys : x \in Range(db[k].list)
    BY StoredIs
  <2>2. db[k].ttl = "past"
    BY <2>1, StoredIs
  <2>3. x \notin popped'
    BY DEF PlaceInv, Handled
  <2>4. x \notin g
    <3>1. x \in 1 .. next - 1
      BY DEF PlaceInv, Counted
    <3>2. x \notin next .. next' - 1
      BY <3>1, FreshFacts DEF Handled
    <3> QED BY <3>2 DEF Handled
  <2>5. ASSUME NEW l \in Keys, db'[l].ttl # "past", x \in Range(db'[l].list) PROVE FALSE
    <3>1. x \in Range(db[l].list)
      BY <2>4, <2>5 DEF Handled
    <3>2. l = k
      BY <2>1, <3>1 DEF PlaceInv, Apart
    <3> QED BY <2>2, <2>4, <2>5, <3>2 DEF Handled
  <2> QED BY <2>3, <2>5, StoredIs
<1> QED BY <1>1 DEF Handled

\* The list of a missing key.
LEMMA EmptyList == Range(<<>>) = {} /\ IsInjective(<<>>)
BY DEF Range, IsInjective

\* What the passive expiration does to an entry.
LEMMA PurgedEntry ==
    ASSUME NEW d \in Map, NEW ks, NEW k \in Keys
    PROVE  \/ Purge(d, ks)[k] = d[k]
           \/ /\ Purge(d, ks)[k] = Absent /\ d[k].ttl = "past" /\ k \in ks
              /\ Purge(d, ks)[k].list = <<>> /\ Range(Purge(d, ks)[k].list) = {}
              /\ IsInjective(Purge(d, ks)[k].list)
BY DEF Purge, Absent, Range, IsInjective

\* A step that only purges.
LEMMA PurgeHandled ==
    ASSUME PlaceInv, db \in Map, next <= next', NEW ks, db' = Purge(db, ks), popped' = popped
    PROVE  \A K : Handled(K, {})
<1>1. ASSUME NEW k \in Keys
      PROVE  db'[k] = db[k] \/ (db[k].ttl = "past" /\ Range(db'[k].list) = {} /\ IsInjective(db'[k].list))
  BY PurgedEntry
<1>2. \A k \in Keys : IsInjective(db'[k].list) /\ Range(db'[k].list) \subseteq Range(db[k].list)
  BY <1>1 DEF PlaceInv, Apart
<1>3. LiveElements \subseteq Stored' /\ Stored' \subseteq Stored
  BY <1>1, <1>2, StoredIs
<1> QED BY <1>1, <1>2, <1>3 DEF Handled, PlaceInv

\* A step that purges, and gives one key another entry.
LEMMA OneKeyHandled ==
    ASSUME PlaceInv, db \in Map, next \in Nat \ {0}, next' \in Nat, next <= next',
           NEW K \in Keys, NEW ks, NEW e, db' = [Purge(db, ks) EXCEPT ![K] = e],
           IsInjective(e.list),
           Range(e.list) \subseteq Range(db[K].list) \cup (next .. next' - 1),
           db[K].ttl # "past" => Range(db[K].list) \subseteq Range(e.list) \cup popped' \cup removed',
           db[K].ttl = "past" => e = db[K] \/ Range(e.list) \subseteq next .. next' - 1,
           db[K].ttl = "running" /\ Range(db[K].list) \cap Range(e.list) # {} => e.ttl # "none",
           popped \subseteq popped',
           \A x \in popped' \ popped :
               db[K].ttl # "past" /\ x \in Range(db[K].list) /\ x \notin Range(e.list)
    PROVE  Handled(K, next .. next' - 1)
<1> DEFINE g == next .. next' - 1
<1>1. db'[K] = e
  BY DEF Purge
<1>2. ASSUME NEW k \in Keys \ {K}
      PROVE  db'[k] = db[k] \/ (db[k].ttl = "past" /\ Range(db'[k].list) = {} /\ IsInjective(db'[k].list))
  <2>1. db'[k] = Purge(db, ks)[k]
    BY DEF Purge
  <2> QED BY <2>1, PurgedEntry
<1>3. \A k \in Keys : IsInjective(db'[k].list)
  BY <1>1, <1>2 DEF PlaceInv, Apart
<1>4. \A x \in Stored \cup popped : x \notin g
  BY FreshFacts DEF PlaceInv, Counted
<1> HIDE DEF g
<1>5. \A k \in Keys \ {K} : Range(db'[k].list) \subseteq Range(db[k].list)
                            /\ Range(db'[k].list) \cap g = {}
  BY <1>2, <1>4, StoredIs
<1>6. LiveElements \subseteq Stored' \cup popped' \cup removed'
  <2>1. ASSUME NEW k \in Keys, db[k].ttl # "past", NEW x \in Range(db[k].list)
        PROVE  x \in Stored' \cup popped' \cup removed'
    BY <1>1, <1>2, <2>1, StoredIs
  <2> QED BY <2>1, StoredIs
<1>7. popped' \subseteq popped \cup LiveElements
  BY StoredIs
<1>8. popped' \cap Stored' = {}
  <2>1. ASSUME NEW x \in popped', NEW k \in Keys, x \in Range(db'[k].list) PROVE FALSE
    <3>1. CASE k = K
      <4>1. x \in popped
        BY <1>1, <2>1, <3>1
      <4>2. x \in Range(db[K].list)
        BY <1>1, <1>4, <2>1, <3>1, <4>1 DEF g
      <4> QED BY <4>1, <4>2, StoredIs DEF PlaceInv
    <3>2. CASE k # K
      <4>1. x \in Range(db[k].list)
        BY <1>5, <2>1, <3>2
      <4>2. x \notin popped
        BY <4>1, StoredIs DEF PlaceInv
      <4> QED BY <3>2, <4>1, <4>2 DEF PlaceInv, Apart
    <3> QED BY <3>1, <3>2
  <2> QED BY <2>1, StoredIs
<1>9. \A k \in Keys : db[k].ttl = "past" => db'[k] = db[k] \/ Range(db'[k].list) \subseteq g
  BY <1>1, <1>2 DEF g
<1>10. \A k \in Keys : db[k].ttl = "running" /\ Range(db[k].list) \cap Range(db'[k].list) # {}
                       => db'[k].ttl # "none"
  BY <1>1, <1>2
<1>11. Handled(K, g)
  BY <1>1, <1>3, <1>5, <1>6, <1>7, <1>8, <1>9, <1>10 DEF Handled, g
<1> QED BY <1>11 DEF g

\* A move takes one element of a live list to the destination.
LEMMA MoveHandled ==
    ASSUME PlaceInv, db \in Map, next \in Nat \ {0}, NEW src \in Keys, NEW dst \in Keys,
           NEW from \in Ends, NEW to \in Ends,
           ~MoveBlocked(Purge(db, {src, dst}), src, dst),
           db' = Moved(Purge(db, {src, dst}), src, dst, from, to),
           UNCHANGED <<next, popped>>
    PROVE  Handled(dst, {EndOf(Purge(db, {src, dst})[src].list, from)})
<1> DEFINE d == Purge(db, {src, dst})
           x == EndOf(d[src].list, from)
           rest == AfterPop(d[src].list, from, 1)
<1>1. d \in Map
  BY PurgeFacts
<1>2. d[src] = db[src] /\ db[src].ttl # "past" /\ d[src].kind = "list"
  BY DEF MoveBlocked, Purge, Absent
<1>3. \/ d[dst] = db[dst]
      \/ /\ d[dst] = Absent /\ db[dst].ttl = "past"
         /\ d[dst].list = <<>> /\ Range(d[dst].list) = {} /\ IsInjective(d[dst].list)
  BY EmptyList DEF Purge, Absent
<1>4. \A k \in Keys \ {src, dst} : d[k] = db[k]
  BY DEF Purge
<1>5. db[src] \in LiveEntry /\ d[dst] \in LiveEntry
  BY <1>1 DEF Map
<1>6. /\ db[src].list \in Seq(Elements) /\ db[src].list # <<>> /\ db[src].ttl \in Ttls
      /\ d[dst].list \in Seq(Elements)
  BY <1>2, <1>5, EntryFacts DEF MoveBlocked
<1>7. /\ x \in Range(db[src].list) /\ x \in Elements
      /\ Range(rest) = Range(db[src].list) \ {x}
      /\ rest \in Seq(Elements) /\ IsInjective(rest)
  <2>1. IsInjective(db[src].list)
    BY DEF PlaceInv, Apart
  <2>2. rest \in Seq(Elements) /\ Within(rest, db[src].list) /\ x \in Elements
    BY <1>2, <1>6, AfterPopType, AfterPopWithin, EndOfType
  <2> QED BY <1>2, <1>6, <2>1, <2>2, PopOne DEF Within
<1> DEFINE taken == [d EXCEPT ![src] = IF src = dst THEN ListEntry(rest, @.ttl)
                                                    ELSE WithList(@, rest)]
<1>8. db' = [taken EXCEPT ![dst] = ListEntry(Push1(taken[dst].list, to, x), taken[dst].ttl)]
  BY DEF Moved
<1>9. DOMAIN d = Keys
  BY DEF Purge
<1> HIDE DEF d, x, rest
<1>10. /\ \A k \in Keys \ {src, dst} : db'[k] = db[k]
       /\ db'[dst] = ListEntry(Push1(taken[dst].list, to, x), taken[dst].ttl)
       /\ dst # src => db'[src] = WithList(db[src], rest) /\ taken[dst] = d[dst]
       /\ dst = src => taken[dst] = ListEntry(rest, db[src].ttl)
  BY <1>2, <1>4, <1>8, <1>9
<1> HIDE DEF taken
<1>11. /\ IsInjective(db'[dst].list)
       /\ x \in Range(db'[dst].list)
       /\ Range(db'[dst].list) \subseteq Range(db[dst].list) \cup {x}
       /\ db[dst].ttl # "past" =>
             Range(db[dst].list) \subseteq Range(db'[dst].list) /\ db'[dst].ttl = db[dst].ttl
       /\ db[dst].ttl = "past" => Range(db'[dst].list) = {x}
  <2>1. CASE dst = src
    <3>1. taken[dst].list = rest /\ taken[dst].ttl = db[src].ttl
      BY <1>10, <2>1 DEF ListEntry
    <3>2. db'[dst].list = Push1(rest, to, x) /\ db'[dst].ttl = db[src].ttl
      BY <1>10, <3>1 DEF ListEntry
    <3>3. IsInjective(Push1(rest, to, x)) /\ Range(Push1(rest, to, x)) = Range(rest) \cup {x}
      BY <1>7, Push1Apart
    <3> QED BY <1>2, <1>7, <2>1, <3>2, <3>3
  <2>2. CASE dst # src
    <3>1. db'[dst].list = Push1(d[dst].list, to, x) /\ db'[dst].ttl = d[dst].ttl
      BY <1>10, <2>2 DEF ListEntry
    <3>2. IsInjective(d[dst].list) /\ x \notin Range(d[dst].list)
      BY <1>3, <1>7, <2>2 DEF PlaceInv, Apart
    <3>3. /\ IsInjective(Push1(d[dst].list, to, x))
          /\ Range(Push1(d[dst].list, to, x)) = Range(d[dst].list) \cup {x}
      BY <1>6, <1>7, <3>2, Push1Apart
    <3>4. db[dst].ttl = "past" => Range(d[dst].list) = {}
      BY <1>3 DEF d, Purge, Absent, Range
    <3> QED BY <1>3, <3>1, <3>3, <3>4
  <2> QED BY <2>1, <2>2
<1>12. dst # src => /\ db'[src].list = rest
                    /\ db'[src].list # <<>> => db'[src].ttl = db[src].ttl
  BY <1>10 DEF WithList, ListEntry, Absent
<1>13. \A k \in Keys \ {dst} : /\ IsInjective(db'[k].list)
                               /\ Range(db'[k].list) \subseteq Range(db[k].list)
                               /\ x \notin Range(db'[k].list)
  <2> TAKE k \in Keys \ {dst}
  <2>1. CASE k = src
    BY <1>7, <1>12, <2>1
  <2>2. CASE k # src
    <3>1. db'[k] = db[k]
      BY <1>10, <2>2
    <3>2. IsInjective(db[k].list) /\ Range(db[k].list) \cap Range(db[src].list) = {}
      BY <2>2 DEF PlaceInv, Apart
    <3> QED BY <1>7, <3>1, <3>2
  <2> QED BY <2>1, <2>2
<1>14. x \in LiveElements /\ x \in Stored
  BY <1>2, <1>7, StoredIs
<1>15. LiveElements \subseteq Stored'
  <2>1. ASSUME NEW k \in Keys, db[k].ttl # "past", NEW y \in Range(db[k].list)
        PROVE  y \in Stored'
    BY <1>7, <1>10, <1>11, <1>12, <2>1, StoredIs
  <2> QED BY <2>1, StoredIs
<1>16. popped' \cap Stored' = {}
  <2>1. ASSUME NEW k \in Keys, NEW y \in Range(db'[k].list) PROVE y \in Stored
    <3>1. y = x \/ y \in Range(db[k].list)
      <4>1. CASE k = dst
        <5>1. y \in Range(db'[dst].list)
          BY <4>1
        <5> QED BY <1>11, <4>1, <5>1
      <4>2. CASE k # dst
        BY <1>13, <4>2
      <4> QED BY <4>1, <4>2
    <3> QED BY <1>14, <3>1, StoredIs
  <2>2. Stored' \subseteq Stored
    BY <2>1, StoredIs
  <2> QED BY <2>2 DEF PlaceInv
<1>17. \A k \in Keys : db[k].ttl = "past" => db'[k] = db[k] \/ Range(db'[k].list) \subseteq {x}
  BY <1>2, <1>10, <1>11
<1>18. ASSUME NEW k \in Keys, db[k].ttl = "running",
              Range(db[k].list) \cap Range(db'[k].list) # {}
       PROVE  db'[k].ttl # "none"
  <2>1. db'[k].list # <<>>
    BY <1>18, EmptyList
  <2> QED BY <1>10, <1>11, <1>12, <1>18, <2>1
<1>19. next <= next'
  OBVIOUS
<1>20. Handled(dst, {x})
  BY <1>11, <1>13, <1>14, <1>15, <1>16, <1>17, <1>18, <1>19 DEF Handled
<1> QED BY <1>20 DEF x, d

-----------------------------------------------------------------------------
(* Every step handles elements that way *)

Handles == \E K, g : Handled(K, g)

\* What the invariants say of the store before a step.
LEMMA Before ==
    ASSUME IInv, IInv', PlaceInv
    PROVE  /\ db \in Map /\ next \in Nat \ {0} /\ next' \in Nat
           /\ \A k \in Keys : /\ db[k] \in LiveEntry
                              /\ db[k].list \in Seq(Elements)
                              /\ IsInjective(db[k].list)
           /\ \A k \in Keys : Range(db[k].list) \cap (next .. next' - 1) = {}
<1>1. db \in Map /\ next \in Nat \ {0} /\ next' \in Nat
  <2>1. next \in 1 .. MaxElements + 1 /\ next' \in 1 .. MaxElements + 1
    BY DEF IInv, TypeOK
  <2> QED BY <2>1, SplitType DEF IInv
<1>2. \A k \in Keys : db[k] \in LiveEntry /\ db[k].list \in Seq(Elements)
  BY <1>1, EntryFacts DEF Map
<1>3. \A x \in 1 .. next - 1 : x \notin next .. next' - 1
  BY <1>1, NotYet
<1>4. ASSUME NEW k \in Keys, NEW x \in Range(db[k].list) PROVE x \notin next .. next' - 1
  BY <1>3, StoredIs DEF PlaceInv, Counted
<1> QED BY <1>1, <1>2, <1>4 DEF PlaceInv, Apart

\* LREM, LTRIM, LSET and LINSERT.
LEMMA RewriteHandled ==
    ASSUME IInv, IInv', PlaceInv, NEW k \in Keys, NEW list, Rewrite(k, list),
           popped' = popped, next <= next',
           Purge(db, {k})[k].kind = "list" =>
               /\ IsInjective(list)
               /\ Range(list) \subseteq Range(db[k].list) \cup (next .. next' - 1)
    PROVE  Handles
<1> DEFINE d == Purge(db, {k})
<1>1. CASE d[k].kind # "list"
  <2>1. db' = d
    BY <1>1 DEF Rewrite
  <2>2. \A K : Handled(K, {})
    BY <2>1, Before, PurgeHandled
  <2> QED BY <2>2 DEF Handles
<1>2. CASE d[k].kind = "list"
  <2> DEFINE e == WithList(d[k], list)
  <2>1. d[k] = db[k] /\ db[k].ttl # "past"
    BY <1>2 DEF Purge, Absent
  <2>2. db' = [d EXCEPT ![k] = e] /\ removed' = removed \cup (Range(db[k].list) \ Range(list))
    BY <1>2, <2>1 DEF Rewrite
  <2>3. e.list = list /\ (list # <<>> => e.ttl = db[k].ttl)
    BY <2>1 DEF WithList, ListEntry, Absent
  <2>4. db[k].ttl = "running" /\ Range(db[k].list) \cap Range(e.list) # {} => e.ttl # "none"
    BY <2>3, EmptyList
  <2> HIDE DEF e
  <2>5. Handled(k, next .. next' - 1)
    BY <1>2, <2>1, <2>2, <2>3, <2>4, Before, OneKeyHandled
  <2> QED BY <2>5 DEF Handles
<1> QED BY <1>1, <1>2

\* LPUSH and RPUSH of new elements.
LEMMA PushHandled ==
    ASSUME IInv, IInv', PlaceInv, NEW k \in Keys, NEW end \in Ends, NEW n \in Batches,
           Push(k, end, n)
    PROVE  Handles
<1> DEFINE d == Purge(db, {k})
<1>0. n \in Nat \ {0} /\ popped' = popped
  BY ConstantsAssumption DEF Push
<1>1. CASE d[k].kind = "string"
  <2>1. db' = d /\ next <= next'
    BY <1>1, Before DEF Push
  <2>2. \A K : Handled(K, {})
    BY <1>0, <2>1, Before, PurgeHandled
  <2> QED BY <2>2 DEF Handles
<1>2. CASE d[k].kind # "string"
  <2> DEFINE values == [i \in 1 .. n |-> next + i - 1]
             e == ListEntry(Pushed(d[k].list, end, values), d[k].ttl)
  <2>1. db' = [d EXCEPT ![k] = e] /\ next' = next + n
    BY <1>2 DEF Push
  <2>2. next + n - 1 <= MaxElements /\ MaxElements \in Nat
    BY ConstantsAssumption DEF Push
  <2>3. /\ values \in Seq(Elements)
        /\ IsInjective(values)
        /\ Range(values) = next .. next' - 1
    <3>1. \A i \in 1 .. n : next + i - 1 \in Elements
      BY <1>0, <2>2, Before DEF Elements
    <3>2. values \in Seq(Elements) /\ DOMAIN values = 1 .. n
      BY <1>0, <3>1
    <3>3. IsInjective(values) /\ Range(values) = next .. (next + n) - 1
      BY <1>0, Before, Numbered
    <3> QED BY <2>1, <3>2, <3>3
  <2> HIDE DEF values
  <2>4. \/ d[k] = db[k]
        \/ /\ d[k] = Absent /\ db[k].ttl = "past"
           /\ d[k].list = <<>> /\ Range(d[k].list) = {} /\ IsInjective(d[k].list)
    BY EmptyList DEF Purge, Absent
  <2> DEFINE old == d[k].list
  <2>5. /\ old \in Seq(Elements) /\ IsInjective(old)
        /\ Range(old) \cap Range(values) = {}
    <3>1. CASE d[k] = db[k]
      BY <2>3, <3>1, Before
    <3>2. CASE old = <<>>
      <4>1. <<>> \in Seq(Elements)
        OBVIOUS
      <4> HIDE DEF old
      <4> QED BY <3>2, <4>1, EmptyList
    <3> QED BY <2>4, <3>1, <3>2
  <2>6. e.list = Pushed(old, end, values) /\ e.ttl = d[k].ttl
    BY DEF ListEntry
  <2>7. IsInjective(e.list) /\ Range(e.list) = Range(old) \cup (next .. next' - 1)
    <3> HIDE DEF old, e
    <3>1. /\ IsInjective(Pushed(old, end, values))
          /\ Range(Pushed(old, end, values)) = Range(old) \cup Range(values)
      <4>1. values \in Seq(Elements) /\ IsInjective(values)
        BY <2>3
      <4> QED BY <2>5, <4>1, PushedApart
    <3> QED BY <2>3, <2>6, <3>1
  <2>8. next <= next'
    BY <1>0, <2>1, Before
  <2>9. db[k].ttl = "past" => Range(d[k].list) = {}
    BY EmptyList DEF Purge, Absent
  <2> HIDE DEF e
  <2>10. Handled(k, next .. next' - 1)
    BY <1>0, <2>1, <2>4, <2>6, <2>7, <2>8, <2>9, Before, OneKeyHandled
  <2> QED BY <2>10 DEF Handles
<1> QED BY <1>1, <1>2

\* LPOP and RPOP.
LEMMA PopHandled ==
    ASSUME IInv, IInv', PlaceInv, NEW k \in Keys, NEW end \in Ends, NEW n \in Nat,
           Pop(k, end, n)
    PROVE  Handles
<1> DEFINE d == Purge(db, {k})
<1>0. next' = next /\ next <= next'
  BY Before DEF Pop
<1>1. CASE d[k].kind # "list"
  <2>1. db' = d /\ popped' = popped
    BY <1>1 DEF Pop
  <2>2. \A K : Handled(K, {})
    BY <1>0, <2>1, Before, PurgeHandled
  <2> QED BY <2>2 DEF Handles
<1>2. CASE d[k].kind = "list"
  <2> DEFINE keeps == AfterPop(db[k].list, end, n)
             e == WithList(d[k], keeps)
  <2>1. d[k] = db[k] /\ db[k].ttl # "past"
    BY <1>2 DEF Purge, Absent
  <2>2. db' = [d EXCEPT ![k] = e] /\ popped' = popped \cup (Range(db[k].list) \ Range(keeps))
    BY <1>2, <2>1 DEF Pop
  <2>3. Range(keeps) \subseteq Range(db[k].list) /\ IsInjective(keeps)
    BY Before, AfterPopWithin DEF Within
  <2> HIDE DEF keeps
  <2>4. e.list = keeps /\ (keeps # <<>> => e.ttl = db[k].ttl)
    BY <2>1 DEF WithList, ListEntry, Absent
  <2>5. db[k].ttl = "running" /\ Range(db[k].list) \cap Range(e.list) # {} => e.ttl # "none"
    BY <2>4, EmptyList
  <2> HIDE DEF e
  <2>6. Handled(k, next .. next' - 1)
    BY <1>0, <2>1, <2>2, <2>3, <2>4, <2>5, Before, OneKeyHandled
  <2> QED BY <2>6 DEF Handles
<1> QED BY <1>1, <1>2

\* LREM and LTRIM keep some of the elements.
LEMMA TrimHandled ==
    ASSUME IInv, IInv', PlaceInv, NEW k \in Keys,
           \/ \E n \in Ints, v \in Elements : LRemove(k, n, v)
           \/ \E i, j \in Ints : LTrim(k, i, j)
    PROVE  Handles
<1>0. popped' = popped /\ next <= next'
  BY Before DEF LRemove, LTrim
<1>1. ASSUME NEW n, NEW v, LRemove(k, n, v) PROVE Handles
  <2>1. Within(LRem(db[k].list, n, v), db[k].list)
    BY Before, LRemWithin
  <2>2. Rewrite(k, LRem(db[k].list, n, v))
    BY <1>1 DEF LRemove
  <2> QED BY <1>0, <2>1, <2>2, Before, RewriteHandled DEF Within
<1>2. ASSUME NEW i \in Int, NEW j \in Int, LTrim(k, i, j) PROVE Handles
  <2>1. Within(Slice(db[k].list, i, j), db[k].list)
    BY Before, SliceWithin
  <2>2. Rewrite(k, Slice(db[k].list, i, j))
    BY <1>2 DEF LTrim
  <2> QED BY <1>0, <2>1, <2>2, Before, RewriteHandled DEF Within
<1> QED BY <1>1, <1>2, ConstantsAssumption

\* LSET and LINSERT add one new element.
LEMMA InsertHandled ==
    ASSUME IInv, IInv', PlaceInv, NEW k \in Keys,
           \/ \E i \in Ints : LSet(k, i)
           \/ \E where \in {"BEFORE", "AFTER"}, v \in Elements : LInsert(k, where, v)
    PROVE  Handles
<1> DEFINE list == Purge(db, {k})[k].list
<1>0. /\ popped' = popped /\ next' \in {next, next + 1} /\ next <= MaxElements
      /\ next \in Nat \ {0} /\ next <= next'
  BY Before DEF LSet, LInsert
<1>1. list \in Seq(Elements) /\ IsInjective(list) /\ Range(list) \subseteq Range(db[k].list)
  <2>1. CASE Purge(db, {k})[k] = db[k]
    BY <2>1, Before
  <2>2. CASE list = <<>>
    <3>1. <<>> \in Seq(Elements)
      OBVIOUS
    <3> HIDE DEF list
    <3> QED BY <2>2, <3>1, EmptyList
  <2> QED BY <2>1, <2>2 DEF Purge, Absent
<1>2. next \in Elements /\ next \notin Range(list) /\ (next' = next + 1 => next \in next .. next' - 1)
  <2>1. next \notin Range(db[k].list)
    <3>1. next \notin 1 .. next - 1
      BY <1>0
    <3> QED BY <3>1, StoredIs DEF PlaceInv, Counted
  <2>2. MaxElements \in Nat
    BY ConstantsAssumption
  <2>3. next \in Elements
    BY <1>0, <2>2 DEF Elements
  <2>4. next' = next + 1 => next \in next .. next' - 1
    BY <1>0
  <2> QED BY <1>1, <2>1, <2>3, <2>4
<1>3. ASSUME NEW i \in Int, LSet(k, i) PROVE Handles
  <2> DEFINE new == IF InBounds(list, i) THEN SetAt(list, i, next) ELSE list
  <2>1. Rewrite(k, new) /\ next' = IF InBounds(list, i) THEN next + 1 ELSE next
    BY <1>3 DEF LSet
  <2> HIDE DEF list
  <2>2. IsInjective(new) /\ Range(new) \subseteq Range(db[k].list) \cup (next .. next' - 1)
    <3>1. CASE InBounds(list, i)
      <4>1. IsInjective(SetAt(list, i, next)) /\ Range(SetAt(list, i, next)) \subseteq Range(list) \cup {next}
        BY <1>1, <1>2, <3>1, SetAtApart
      <4> QED BY <1>1, <1>2, <2>1, <3>1, <4>1
    <3>2. CASE ~InBounds(list, i)
      BY <1>1, <3>2
    <3> QED BY <3>1, <3>2
  <2> HIDE DEF new
  <2> QED BY <1>0, <2>1, <2>2, RewriteHandled
<1>4. ASSUME NEW where, NEW v, LInsert(k, where, v) PROVE Handles
  <2> DEFINE new == IF v \in Range(list) THEN InsertNextTo(list, where, v, next) ELSE list
  <2>1. Rewrite(k, new) /\ next' = IF v \in Range(list) THEN next + 1 ELSE next
    BY <1>4 DEF LInsert
  <2> HIDE DEF list
  <2>2. IsInjective(new) /\ Range(new) \subseteq Range(db[k].list) \cup (next .. next' - 1)
    <3>1. CASE v \in Range(list)
      <4>1. /\ IsInjective(InsertNextTo(list, where, v, next))
            /\ Range(InsertNextTo(list, where, v, next)) \subseteq Range(list) \cup {next}
        BY <1>1, <1>2, <3>1, InsertApart
      <4> QED BY <1>1, <1>2, <2>1, <3>1, <4>1
    <3>2. CASE v \notin Range(list)
      BY <1>1, <3>2
    <3> QED BY <3>1, <3>2
  <2> HIDE DEF new
  <2> QED BY <1>0, <2>1, <2>2, RewriteHandled
<1> QED BY <1>3, <1>4, ConstantsAssumption

\* LMOVE and BLMOVE's poll: the move, or the passive expiration alone.
LEMMA MovesHandled ==
    ASSUME IInv, IInv', PlaceInv, NEW src \in Keys, NEW dst \in Keys,
           NEW from \in Ends, NEW to \in Ends, UNCHANGED <<next, popped>>,
           \/ db' = Purge(db, {src, dst})
           \/ /\ ~MoveBlocked(Purge(db, {src, dst}), src, dst)
              /\ db' = Moved(Purge(db, {src, dst}), src, dst, from, to)
    PROVE  Handles
<1>1. CASE db' = Purge(db, {src, dst})
  <2>1. next <= next'
    BY Before
  <2>2. \A K : Handled(K, {})
    BY <1>1, <2>1, Before, PurgeHandled
  <2> QED BY <2>2 DEF Handles
<1>2. CASE /\ ~MoveBlocked(Purge(db, {src, dst}), src, dst)
           /\ db' = Moved(Purge(db, {src, dst}), src, dst, from, to)
  <2>1. \E g : Handled(dst, g)
    BY <1>2, Before, MoveHandled
  <2> QED BY <2>1 DEF Handles
<1> QED BY <1>1, <1>2

\* An entry is emptied, or keeps its list.
LEMMA EntryHandled ==
    ASSUME IInv, IInv', PlaceInv, NEW k \in Keys, NEW ks, NEW e,
           db' = [Purge(db, ks) EXCEPT ![k] = e], UNCHANGED <<next, popped>>,
           \/ e.list = <<>> /\ (db[k].ttl # "past" => Range(db[k].list) \subseteq removed')
           \/ e.list = db[k].list /\ e.ttl # "none" /\ db[k].ttl # "past"
    PROVE  Handles
<1>1. next <= next'
  BY Before
<1>2. /\ IsInjective(e.list)
      /\ Range(e.list) \subseteq Range(db[k].list)
      /\ e.list = <<>> => Range(e.list) = {}
  BY Before, EmptyList
<1>3. Handled(k, next .. next' - 1)
  BY <1>1, <1>2, Before, OneKeyHandled
<1> QED BY <1>3 DEF Handles

\* Another TTL leaves the list as it is.
LEMMA LiveFields ==
    ASSUME NEW e \in LiveEntry, NEW t
    PROVE  [e EXCEPT !.ttl = t].list = e.list /\ [e EXCEPT !.ttl = t].ttl = t
<1>1. e = [kind |-> e.kind, list |-> e.list, ttl |-> e.ttl]
  BY DEF LiveEntry, Absent
<1> QED BY <1>1

\* DEL, SET, EXPIRE, the reads, the sweep, and time.
LEMMA KeyHandled ==
    ASSUME IInv, IInv', PlaceInv, NEW k \in Keys,
           \/ Del(k) \/ Expire(k) \/ Touch(k) \/ TimePasses(k)
           \/ \E mode \in {"any", "NX", "XX"}, ttl \in {"none", "running"} : Set(k, mode, ttl)
           \/ \E ks \in SUBSET Keys : Sweep(ks)
    PROVE  Handles
<1>1. Purge(db, {}) = db
  BY Before DEF Purge, Map
<1>2. CASE Del(k)
  <2>1. db' = [Purge(db, {}) EXCEPT ![k] = Absent] /\ Absent.list = <<>>
    BY <1>1, <1>2 DEF Del, Absent
  <2> QED BY <1>2, <2>1, EntryHandled DEF Del
<1>3. ASSUME NEW mode, NEW ttl, Set(k, mode, ttl) PROVE Handles
  <2> DEFINE e == [kind |-> "string", list |-> <<>>, ttl |-> ttl]
  <2>1. db' = [Purge(db, {}) EXCEPT ![k] = e] /\ e.list = <<>>
    BY <1>1, <1>3 DEF Set
  <2>2. Range(db[k].list) \subseteq removed' /\ UNCHANGED <<next, popped>>
    BY <1>3 DEF Set
  <2> HIDE DEF e
  <2> QED BY <2>1, <2>2, EntryHandled
<1>4. ASSUME NEW ks, db' = Purge(db, ks), UNCHANGED <<next, popped>> PROVE Handles
  <2>1. next <= next'
    BY <1>4, Before
  <2>2. \A K : Handled(K, {})
    BY <1>4, <2>1, Before, PurgeHandled
  <2> QED BY <2>2 DEF Handles
<1>5. CASE Touch(k) \/ \E ks \in SUBSET Keys : Sweep(ks)
  BY <1>4, <1>5 DEF Touch, Sweep
<1>6. CASE Expire(k)
  <2> DEFINE d == Purge(db, {k})
  <2>1. CASE d[k].kind = "absent"
    BY <1>4, <1>6, <2>1 DEF Expire
  <2>2. CASE d[k].kind # "absent"
    <3> DEFINE e == [db[k] EXCEPT !.ttl = "running"]
    <3>1. d[k] = db[k] /\ db[k].ttl # "past"
      BY <2>2 DEF Purge, Absent
    <3>2. db' = [d EXCEPT ![k] = e]
      BY <1>6, <2>2, <3>1 DEF Expire
    <3>3. e.list = db[k].list /\ e.ttl = "running"
      BY Before, EntryFacts, LiveFields
    <3>4. UNCHANGED <<next, popped>>
      BY <1>6 DEF Expire
    <3>5. e.ttl # "none"
      BY <3>3
    <3> HIDE DEF e
    <3> QED BY <3>1, <3>2, <3>3, <3>4, <3>5, EntryHandled
  <2> QED BY <2>1, <2>2
<1>7. CASE TimePasses(k)
  <2> DEFINE e == [db[k] EXCEPT !.ttl = "past"]
  <2>1. db' = [Purge(db, {}) EXCEPT ![k] = e] /\ db[k].ttl = "running"
    BY <1>1, <1>7 DEF TimePasses
  <2>2. e.list = db[k].list /\ e.ttl = "past"
    BY Before, EntryFacts, LiveFields
  <2>3. UNCHANGED <<next, popped>>
    BY <1>7 DEF TimePasses
  <2> HIDE DEF e
  <2>4. e.ttl # "none" /\ db[k].ttl # "past"
    BY <2>1, <2>2
  <2> QED BY <2>1, <2>2, <2>3, <2>4, EntryHandled
<1> QED BY <1>2, <1>3, <1>5, <1>6, <1>7

\* Every command.
LEMMA CommandHandled ==
    ASSUME IInv, IInv', PlaceInv, Command
    PROVE  Handles
<1> SUFFICES ASSUME NEW k \in Keys,
        \/ \E end \in Ends, n \in Batches : Push(k, end, n)
        \/ \E end \in Ends, n \in Ints \cap Nat : Pop(k, end, n)
        \/ \E v \in Elements, n \in Ints : LRemove(k, n, v)
        \/ \E i, j \in Ints : LTrim(k, i, j)
        \/ \E i \in Ints : LSet(k, i)
        \/ \E where \in {"BEFORE", "AFTER"}, v \in Elements : LInsert(k, where, v)
        \/ \E dst \in Keys, from, to \in Ends : LMove(k, dst, from, to)
        \/ \E mode \in {"any", "NX", "XX"}, ttl \in {"none", "running"} : Set(k, mode, ttl)
        \/ Del(k)
        \/ Expire(k)
        \/ Touch(k)
             PROVE  Handles
  BY DEF Command
<1>1. CASE \E end \in Ends, n \in Batches : Push(k, end, n)
  BY <1>1, PushHandled
<1>2. CASE \E end \in Ends, n \in Ints \cap Nat : Pop(k, end, n)
  BY <1>2, PopHandled
<1>3. CASE \/ \E v \in Elements, n \in Ints : LRemove(k, n, v)
           \/ \E i, j \in Ints : LTrim(k, i, j)
  BY <1>3, TrimHandled
<1>4. CASE \/ \E i \in Ints : LSet(k, i)
           \/ \E where \in {"BEFORE", "AFTER"}, v \in Elements : LInsert(k, where, v)
  BY <1>4, InsertHandled
<1>5. ASSUME NEW dst \in Keys, NEW from \in Ends, NEW to \in Ends, LMove(k, dst, from, to)
      PROVE  Handles
  <2>1. /\ UNCHANGED <<next, popped>>
        /\ \/ db' = Purge(db, {k, dst})
           \/ /\ ~MoveBlocked(Purge(db, {k, dst}), k, dst)
              /\ db' = Moved(Purge(db, {k, dst}), k, dst, from, to)
    BY <1>5 DEF LMove
  <2> QED BY <2>1, MovesHandled
<1>6. CASE \/ \E mode \in {"any", "NX", "XX"}, ttl \in {"none", "running"} : Set(k, mode, ttl)
           \/ Del(k) \/ Expire(k) \/ Touch(k)
  BY <1>6, KeyHandled
<1> QED BY <1>1, <1>2, <1>3, <1>4, <1>5, <1>6

\* The answers stay apart when no call pops.
LEMMA AnswersKept ==
    ASSUME IInv, PlaceInv, popped \subseteq popped',
           \A c \in Clients : Answered(c)' => Answered(c) /\ reply'[c] = reply[c]
    PROVE  AnswersApart'
<1>1. \A c \in Clients : Answered(c)' => reply'[c] \in popped'
  BY DEF PlaceInv, AnswersApart
<1>2. ASSUME NEW b \in Clients, NEW c \in Clients, Answered(b)', Answered(c)', reply'[b] = reply'[c]
      PROVE  b = c
  BY <1>2 DEF PlaceInv, AnswersApart
<1> QED BY <1>1, <1>2 DEF AnswersApart

\* A call that pops an element of a list answers with what nobody else popped.
LEMMA AnswersNew ==
    ASSUME IInv, PlaceInv, NEW c \in Clients, NEW e, e \notin popped, popped' = popped \cup {e},
           Resolve(c, e), call' = call
    PROVE  AnswersApart'
<1>1. /\ \A b \in Clients \ {c} : pc'[b] = pc[b] /\ reply'[b] = reply[b]
      /\ reply'[c] = e
  BY DEF Resolve, IInv, TypeOK
<1>2. \A b \in Clients \ {c} : Answered(b)' => Answered(b) /\ reply'[b] \in popped
  BY <1>1 DEF Answered, PlaceInv, AnswersApart
<1>3. \A b \in Clients : Answered(b)' => reply'[b] \in popped'
  BY <1>1, <1>2
<1>4. ASSUME NEW a \in Clients, NEW b \in Clients, Answered(a)', Answered(b)', reply'[a] = reply'[b]
      PROVE  a = b
  BY <1>1, <1>2, <1>4 DEF PlaceInv, AnswersApart
<1> QED BY <1>3, <1>4 DEF AnswersApart

\* A poll that parks or fails pops nothing and answers with no element.
LEMMA NoAnswer ==
    ASSUME IInv, NEW c \in Clients, KeepsWaiting(c) \/ Resolve(c, WrongType), call' = call
    PROVE  \A b \in Clients : Answered(b)' => Answered(b) /\ reply'[b] = reply[b]
<1>1. WrongType \notin Elements
  BY DEF WrongType, Elements
<1> QED BY <1>1 DEF KeepsWaiting, Resolve, Answered, IInv, TypeOK

\* A poll.
LEMMA PollHandled ==
    ASSUME IInv, IInv', PlaceInv, NEW c \in Clients, Poll(c)
    PROVE  Handles /\ AnswersApart'
<1>0. pc[c] # "idle" /\ next' = next /\ next <= next' /\ call' = call
  BY Before DEF Poll
<1>1. CASE call[c].op = "pop" /\ PollPop(c)
  <2> DEFINE keys == call[c].keys
             ks(i) == {keys[j] : j \in 1 .. i}
             d(i) == Purge(db, ks(i))
  <2>1. call[c].end \in Ends /\ \A i \in DOMAIN keys : keys[i] \in Keys
    BY <1>0, CallFacts
  <2>2. ASSUME NEW i, db' = d(i), popped' = popped, KeepsWaiting(c) \/ Resolve(c, WrongType)
        PROVE  Handles /\ AnswersApart'
    <3> HIDE DEF ks
    <3>1. \A K : Handled(K, {})
      BY <1>0, <2>2, Before, PurgeHandled
    <3> QED BY <1>0, <2>2, <3>1, AnswersKept, NoAnswer DEF Handles
  <2>3. ASSUME NEW i \in DOMAIN keys, d(i)[keys[i]].kind = "list",
               db' = [d(i) EXCEPT ![keys[i]] = WithList(@, AfterPop(@.list, call[c].end, 1))],
               Resolve(c, EndOf(d(i)[keys[i]].list, call[c].end)),
               popped' = popped \cup {EndOf(d(i)[keys[i]].list, call[c].end)}
        PROVE  Handles /\ AnswersApart'
    <3> DEFINE k == keys[i]
               list == db[k].list
               x == EndOf(list, call[c].end)
               rest == AfterPop(list, call[c].end, 1)
               e == WithList(db[k], rest)
    <3>1. k \in Keys
      BY <2>1
    <3>2. d(i)[k] = db[k] /\ db[k].ttl # "past"
      <4>1. Purge(db, ks(i))[k].kind = "list"
        BY <2>3
      <4>2. k \in ks(i)
        <5>1. keys \in Seq(Keys)
          BY <1>0, CallFacts
        <5>2. i \in 1 .. i
          BY <5>1
        <5> QED BY <5>2
      <4> HIDE DEF k, ks
      <4> QED BY <3>1, <4>1, <4>2 DEF Purge, Absent
    <3>3. db' = [Purge(db, ks(i)) EXCEPT ![k] = e] /\ Resolve(c, x) /\ popped' = popped \cup {x}
      BY <2>3, <3>2
    <3>4. list \in Seq(Elements) /\ IsInjective(list) /\ list # <<>>
      <4>1. db[k].kind = "list"
        BY <2>3, <3>2
      <4> HIDE DEF k
      <4> QED BY <3>1, <4>1, Before, EntryFacts
    <3> HIDE DEF k, ks
    <3>5. /\ x \in Range(list) /\ x \notin Range(rest) /\ IsInjective(rest)
          /\ Range(rest) \subseteq Range(list) /\ Range(list) \subseteq Range(rest) \cup {x}
      <4> HIDE DEF list
      <4>1. Within(rest, list)
        BY <2>1, <3>4, AfterPopWithin
      <4>2. x \in Range(list) /\ Range(rest) = Range(list) \ {x}
        BY <2>1, <3>4, PopOne
      <4> QED BY <3>4, <4>1, <4>2 DEF Within
    <3>6. x \notin popped
      BY <3>1, <3>5, StoredIs DEF PlaceInv
    <3> HIDE DEF x, rest
    <3>7. e.list = rest /\ (rest # <<>> => e.ttl = db[k].ttl)
      BY DEF WithList, ListEntry, Absent
    <3>8. db[k].ttl = "running" /\ Range(db[k].list) \cap Range(e.list) # {} => e.ttl # "none"
      BY <3>7, EmptyList
    <3> HIDE DEF e
    <3>9. Handled(k, next .. next' - 1)
      BY <1>0, <3>1, <3>2, <3>3, <3>5, <3>6, <3>7, <3>8, Before, OneKeyHandled
    <3> QED BY <1>0, <3>3, <3>6, <3>9, AnswersNew DEF Handles
  <2> QED BY <1>1, <2>2, <2>3 DEF PollPop
<1>2. CASE call[c].op = "move" /\ PollMove(c)
  <2> DEFINE src == call[c].keys[1]
             dst == call[c].dst
  <2>1. /\ src \in Keys /\ dst \in Keys /\ call[c].end \in Ends /\ call[c].to \in Ends
    BY <1>0, CallFacts
  <2>2. /\ popped' = popped
        /\ \/ db' = Purge(db, {src, dst})
           \/ /\ ~MoveBlocked(Purge(db, {src, dst}), src, dst)
              /\ db' = Moved(Purge(db, {src, dst}), src, dst, call[c].end, call[c].to)
    BY <1>2 DEF PollMove
  <2>3. Handles
    <3> HIDE DEF src, dst
    <3> QED BY <1>0, <2>1, <2>2, MovesHandled
  <2>4. ASSUME NEW b \in Clients, Answered(b)' PROVE Answered(b) /\ reply'[b] = reply[b]
    <3>1. b # c
      BY <1>0, <1>2, <2>4 DEF Answered
    <3>2. pc'[b] = pc[b] /\ reply'[b] = reply[b]
      BY <1>2, <3>1 DEF PollMove, Resolve, KeepsWaiting, IInv, TypeOK
    <3> QED BY <1>0, <2>4, <3>2 DEF Answered
  <2> QED BY <2>2, <2>3, <2>4, AnswersKept
<1> QED BY <1>1, <1>2 DEF Poll

\* A command touches no blocking call but its waiter.
LEMMA CommandsAreSync == Command => Sync
<1>1. \A k \in Keys, end \in Ends, n \in Batches : Push(k, end, n) => Sync
  BY DEF Push
<1>2. \A k \in Keys, end \in Ends, n \in Ints : Pop(k, end, n) => Sync
  BY DEF Pop
<1>3. \A k \in Keys, v \in Elements, n \in Ints : LRemove(k, n, v) => Sync
  BY DEF LRemove
<1>4. \A k \in Keys, i, j \in Ints : LTrim(k, i, j) => Sync
  BY DEF LTrim
<1>5. \A k \in Keys, i \in Ints : LSet(k, i) => Sync
  BY DEF LSet
<1>6. \A k \in Keys, where \in {"BEFORE", "AFTER"}, v \in Elements : LInsert(k, where, v) => Sync
  BY DEF LInsert
<1>7. \A k, dst \in Keys, from, to \in Ends : LMove(k, dst, from, to) => Sync
  BY DEF LMove
<1>8. \A k \in Keys, mode \in {"any", "NX", "XX"}, ttl \in {"none", "running"} :
        Set(k, mode, ttl) => Sync
  BY DEF Set
<1>9. \A k \in Keys : Del(k) \/ Expire(k) \/ Touch(k) => Sync
  BY DEF Del, Expire, Touch
<1> QED BY <1>1, <1>2, <1>3, <1>4, <1>5, <1>6, <1>7, <1>8, <1>9 DEF Command

\* Every step handles the elements so, and keeps the answers apart.
LEMMA NextHandled ==
    ASSUME IInv, IInv', PlaceInv, [Next]_vars
    PROVE  Handles /\ AnswersApart'
<1>1. ASSUME Handles, UNCHANGED <<pc, call, reply>> PROVE Handles /\ AnswersApart'
  <2>1. popped \subseteq popped'
    BY <1>1 DEF Handles, Handled
  <2>2. \A c \in Clients : Answered(c)' => Answered(c) /\ reply'[c] = reply[c]
    BY <1>1 DEF Answered
  <2> QED BY <1>1, <2>1, <2>2, AnswersKept
<1>2. ASSUME UNCHANGED store PROVE Handles
  <2>1. db' = Purge(db, {}) /\ popped' = popped /\ next <= next'
    BY <1>2, Before DEF store, Purge, Map
  <2>2. \A K : Handled(K, {})
    BY <2>1, Before, PurgeHandled
  <2> QED BY <2>2 DEF Handles
<1>3. CASE Command
  <2>1. UNCHANGED <<pc, call, reply>>
    BY <1>3, CommandsAreSync DEF Sync
  <2> QED BY <1>1, <1>3, <2>1, CommandHandled
<1>4. CASE (\E ks \in SUBSET Keys : Sweep(ks)) \/ \E k \in Keys : TimePasses(k)
  <2>1. UNCHANGED <<pc, call, reply>>
    BY <1>4 DEF Sweep, TimePasses, client
  <2>2. CASE \E k \in Keys : TimePasses(k)
    BY <1>1, <2>1, <2>2, KeyHandled
  <2>3. ASSUME NEW ks \in SUBSET Keys, Sweep(ks) PROVE Handles
    <3>1. db' = Purge(db, ks) /\ popped' = popped /\ next <= next'
      BY <2>3, Before DEF Sweep
    <3>2. \A K : Handled(K, {})
      BY <3>1, Before, PurgeHandled
    <3> QED BY <3>2 DEF Handles
  <2> QED BY <1>1, <1>4, <2>1, <2>2, <2>3
<1>5. CASE ScriptBegins \/ ScriptEnds \/ ScriptNotifies \/ Shutdown \/ ShutdownNotifies
  <2>1. UNCHANGED store /\ UNCHANGED <<pc, call, reply>>
    BY <1>5 DEF ScriptBegins, ScriptEnds, ScriptNotifies, Shutdown, ShutdownNotifies, client
  <2> QED BY <1>1, <1>2, <2>1
<1>6. ASSUME NEW c \in Clients, ClientStep(c) PROVE Handles /\ AnswersApart'
  <2>1. CASE Poll(c)
    BY <2>1, PollHandled
  <2>2. CASE ~Poll(c)
    <3>1. UNCHANGED store /\ popped \subseteq popped'
      BY <1>6, <2>2 DEF ClientStep, Call, LoopHead, Wakes, Rearms, SleepEnds, DeadlinePasses,
                        Delivers, Cancelled, Completes, store
    <3>2. Nil \notin Elements
      BY DEF Nil, Elements
    <3>3. ASSUME NEW b \in Clients, Answered(b)' PROVE Answered(b) /\ reply'[b] = reply[b]
      BY <1>6, <2>2, <3>2, <3>3
         DEF ClientStep, Call, LoopHead, Wakes, Rearms, SleepEnds, DeadlinePasses,
             Delivers, Cancelled, Completes, Resolve, KeepsWaiting, Answered, IInv, TypeOK
    <3> QED BY <1>2, <3>1, <3>3, AnswersKept
  <2> QED BY <2>1, <2>2
<1>7. CASE UNCHANGED vars
  BY <1>1, <1>2, <1>7 DEF vars, store
<1> QED BY <1>3, <1>4, <1>5, <1>6, <1>7 DEF Next

\* The places stay in order, and the step is fair to every element.
LEMMA PlaceStep ==
    ASSUME IInv, PlaceInv, [Next]_vars
    PROVE  /\ PlaceInv'
           /\ LiveElements \subseteq Stored' \cup popped' \cup removed'
           /\ (Stored \ LiveElements) \cap (LiveElements' \cup popped') = {}
           /\ \A k \in Keys : /\ db[k].ttl = "running"
                              /\ Range(db[k].list) \cap Range(db'[k].list) # {}
                              => db'[k].ttl # "none"
<1>1. IInv'
  BY NextIInv
<1>2. AnswersApart' /\ \E K, g : Handled(K, g)
  BY <1>1, NextHandled DEF Handles
<1>3. PICK K, g : Handled(K, g)
  BY <1>2
<1>4. next \in Nat \ {0} /\ next' \in Nat
  BY <1>1, Before
<1>5. Apart(db)' /\ (popped \cap Stored = {})' /\ Counted'
  BY <1>3, <1>4, HandledKeeps
<1> QED BY <1>2, <1>3, <1>4, <1>5, HandledIsFair DEF PlaceInv

\* Nothing is stored, popped or answered at first.
LEMMA PlaceInit == Init => PlaceInv
<1> SUFFICES ASSUME Init PROVE PlaceInv
  OBVIOUS
<1>1. \A k \in Keys : db[k].list = <<>>
  BY DEF Init, Absent
<1>2. \A k \in Keys : Range(db[k].list) = {} /\ IsInjective(db[k].list)
  BY <1>1, EmptyList
<1>3. Stored = {}
  BY <1>2, StoredIs
<1> QED BY <1>2, <1>3 DEF Init, PlaceInv, Apart, Counted, AnswersApart, Answered

\* The places of the elements stay in order.
THEOREM PlaceInvariant == Spec => [](IInv /\ PlaceInv)
<1>1. IInv /\ PlaceInv /\ [Next]_vars => (IInv /\ PlaceInv)'
  BY NextIInv, PlaceStep
<1> QED BY <1>1, InitIInv, PlaceInit, PTL DEF Spec

(* An element is in one place: no list has it twice, no two lists have it,   *)
(* no popped element is in a list, and no two calls of BLPOP and BRPOP are   *)
(* answered with the same one, for any number of keys, clients and elements. *)
THEOREM ElementsInOnePlace == Spec => []InOnePlace
<1>1. PlaceInv => InOnePlace
  <2> SUFFICES ASSUME PlaceInv PROVE InOnePlace
    OBVIOUS
  <2>1. ASSUME NEW k \in Keys, NEW l \in Keys, NEW i \in DOMAIN db[k].list,
               NEW j \in DOMAIN db[l].list, db[k].list[i] = db[l].list[j]
        PROVE  k = l /\ i = j
    <3>1. db[k].list[i] \in Range(db[k].list) /\ db[l].list[j] \in Range(db[l].list)
      BY DEF Range
    <3>2. k = l
      BY <2>1, <3>1 DEF PlaceInv, Apart
    <3> QED BY <2>1, <3>2 DEF PlaceInv, Apart, IsInjective
  <2>2. \A b, c \in Clients :
          /\ pc[b] = "reply" /\ call[b].op = "pop" /\ reply[b] \in Elements
          /\ pc[c] = "reply" /\ call[c].op = "pop" /\ reply[b] = reply[c]
          => b = c
    BY DEF PlaceInv, AnswersApart, Answered
  <2> QED BY <2>1, <2>2 DEF InOnePlace, PlaceInv
<1> QED BY <1>1, PlaceInvariant, PTL

(* A step loses no element of a live list: neither a move that its           *)
(* destination refuses nor a time-out, a wake-up, a cancellation or a sweep. *)
THEOREM NothingIsLost == Spec => NothingVanishes
<1>1. IInv /\ PlaceInv /\ [Next]_vars =>
         [LiveElements \subseteq (Stored' \cup popped' \cup removed')]_vars
  BY PlaceStep
<1> QED BY <1>1, PlaceInvariant, PTL DEF Spec, NothingVanishes

(* No step serves, moves or revives what has expired.                        *)
THEOREM TheExpiredStayDead == Spec => ExpiredStaysDead
<1>1. IInv /\ PlaceInv /\ [Next]_vars =>
         [(Stored \ LiveElements) \cap (LiveElements' \cup popped') = {}]_vars
  BY PlaceStep
<1> QED BY <1>1, PlaceInvariant, PTL DEF Spec, ExpiredStaysDead

(* A list that keeps one of its elements keeps its TTL, in a rotation of a   *)
(* list of one element too.                                                  *)
THEOREM TtlsSurvive == Spec => TtlSurvives
<1>1. IInv /\ PlaceInv /\ [Next]_vars =>
         [\A k \in Keys :
             /\ db[k].ttl = "running"
             /\ Range(db[k].list) \cap Range(db'[k].list) # {}
             => db'[k].ttl # "none"]_vars
  BY PlaceStep
<1> QED BY <1>1, PlaceInvariant, PTL DEF Spec, TtlSurvives

=============================================================================
