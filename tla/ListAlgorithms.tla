--------------------------- MODULE ListAlgorithms ---------------------------
(***************************************************************************)
(* The list algorithms of ListOps against reference definitions, over      *)
(* every list a sequence of pushes can build.                              *)
(***************************************************************************)
EXTENDS ListOps

CONSTANTS Values, MaxLen

ASSUME AlgorithmsAssumption == MaxLen \in Nat \ {0} /\ Values # {}

\* Indices and counts past both ends of the longest list.
Args == -(MaxLen + 2) .. MaxLen + 2

VARIABLES
    items,
    first, second   \* the arguments it is looked at with

ListInit ==
    /\ items = <<>>
    /\ first \in Args
    /\ second \in Args

ListNext ==
    /\ Len(items) < MaxLen
    /\ \E end \in Ends, v \in Values : items' = Push1(items, end, v)
    /\ UNCHANGED <<first, second>>

-----------------------------------------------------------------------------

\* The reference for a range: count negative indices from the end, and keep
\* the positions that lie between the two bounds.
Position(index) == IF index < 0 THEN index + Len(items) ELSE index
Window == {i \in 0 .. Len(items) - 1 : Position(first) <= i /\ i <= Position(second)}

\* LRANGE and LTRIM (through normalize_range_indices) select exactly the
\* positions between the bounds, for bounds on either side of the list, and
\* ZRANGE, which spells the normalisation out again, selects the same ones.
RangesAreTheWindow ==
    /\ Slice(items, first, second) = Without(items, {i \in DOMAIN items : i - 1 \notin Window})
    /\ ZRangeWindow(first, second, Len(items)) = NormalizeRange(first, second, Len(items))

\* The list after removing the first occurrence of a value n times.
Removing(l, value, n) ==
    LET Step[k \in 0 .. n] == IF k = 0 THEN l ELSE RemoveFirst(Step[k - 1], value)
    IN  Step[n]

\* LREM with a positive count removes the first matches one by one; with a
\* negative count it is the mirror image; with 0 it removes as long as there can
\* be another match.
LRemRemovesInOrder ==
    \A value \in Values :
        LRem(items, first, value) =
            CASE first > 0 -> Removing(items, value, first)
              [] first < 0 -> Reverse(Removing(Reverse(items), value, -first))
              [] first = 0 -> Removing(items, value, Len(items))

=============================================================================
