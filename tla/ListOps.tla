------------------------------ MODULE ListOps ------------------------------
(***************************************************************************)
(* The list algorithms of src/commands/lists.rs and of the list section of *)
(* src/store.rs as operators on sequences.  Indices are the 0-based,       *)
(* possibly negative indices a caller passes; the head of the list (the    *)
(* front of the VecDeque) is element 1 of the sequence.                    *)
(***************************************************************************)
EXTENDS Integers, Sequences, FiniteSets, SequencesExt

Ends == {"LEFT", "RIGHT"}                                   \* enum ListEnd

NoRange == <<>>

\* The plausible slip the comment in normalize_range_indices warns about.
NormalizeRangeClampsStart(start, stop, len) ==
    LET from == IF start < 0 THEN Max({start + len, 0}) ELSE Min({start, len - 1})
        to   == IF stop < 0 THEN stop + len ELSE Min({stop, len - 1})
    IN  IF len = 0 \/ to < 0 \/ from > to THEN NoRange ELSE <<from, to>>

\* normalize_range_indices: only negative starts are clamped to 0 and only
\* positive stops to len - 1, so that a start past the end gives no range.
NormalizeRange(start, stop, len) ==
    LET from == IF start < 0 THEN Max({start + len, 0}) ELSE start
        to   == IF stop < 0 THEN stop + len ELSE Min({stop, len - 1})
    IN  IF len = 0 \/ from >= len \/ to < 0 \/ from > to
        THEN NoRange ELSE <<from, to>>

\* The same normalisation as Store::zrange spells it out for sorted sets.
ZRangeWindow(start, stop, len) ==
    LET rawStart == IF start < 0 THEN len + start ELSE start
        rawStop  == IF stop < 0 THEN len + stop ELSE stop
        from     == IF rawStart < 0 THEN 0 ELSE rawStart
        to       == IF rawStop >= len THEN len - 1 ELSE rawStop
    IN  IF len = 0 \/ from > to \/ from >= len THEN NoRange ELSE <<from, to>>

\* skip(s).take(e - s + 1): what LRANGE returns and LTRIM keeps.
Slice(list, start, stop) ==
    LET range == NormalizeRange(start, stop, Len(list))
    IN  IF range = NoRange THEN <<>> ELSE SubSeq(list, range[1] + 1, range[2] + 1)

\* LINDEX and LSET: a negative index counts from the tail.
ActualIndex(list, index) == IF index < 0 THEN index + Len(list) ELSE index
InBounds(list, index) == ActualIndex(list, index) \in 0 .. Len(list) - 1

SetAt(list, index, value) ==
    [list EXCEPT ![ActualIndex(list, index) + 1] = value]

\* LINSERT: next to the first occurrence of the pivot (which the list holds).
InsertNextTo(list, where, pivot, value) ==
    LET pos == SelectInSeq(list, LAMBDA v : v = pivot)
    IN  InsertAt(list, IF where = "BEFORE" THEN pos ELSE pos + 1, value)

Matches(list, value) == {i \in DOMAIN list : list[i] = value}

\* The sequence without the elements at the given indices.
Without(list, indices) ==
    LET Kept == {i \in DOMAIN list : i \notin indices}
        Nth(n) == CHOOSE i \in Kept : Cardinality({j \in Kept : j <= i}) = n
    IN  [n \in 1 .. Cardinality(Kept) |-> list[Nth(n)]]

\* A tail walk that forgets to go backwards.
LRemIndicesTailFromHead(list, count, value) ==
    LET target == IF count < 0 THEN -count ELSE count
    IN  {i \in Matches(list, value) :
            \/ count = 0
            \/ Cardinality({j \in Matches(list, value) : j < i}) < target}

\* The indices LREM removes: parse_lrem_count takes the sign of count as the
\* direction, the head walk stops counting after `target` matches, the tail
\* walk takes the last `target` matches, and 0 takes every match.
LRemIndices(list, count, value) ==
    CASE count > 0 -> {i \in Matches(list, value) :
                          Cardinality({j \in Matches(list, value) : j < i}) < count}
      [] count < 0 -> {i \in Matches(list, value) :
                          Cardinality({j \in Matches(list, value) : j > i}) < -count}
      [] OTHER     -> Matches(list, value)

LRem(list, count, value) == Without(list, LRemIndices(list, count, value))

\* pop_front / pop_back of up to n elements: what stays.
AfterPop(list, end, n) ==
    LET taken == Min({n, Len(list)})
    IN  IF end = "LEFT" THEN SubSeq(list, taken + 1, Len(list))
                        ELSE SubSeq(list, 1, Len(list) - taken)

EndOf(list, end) == IF end = "LEFT" THEN list[1] ELSE list[Len(list)]

\* push_front / push_back of one element.
Push1(list, end, value) ==
    IF end = "LEFT" THEN <<value>> \o list ELSE list \o <<value>>

\* LPUSH and RPUSH of several values, one after the other.
Pushed(list, end, values) ==
    IF end = "LEFT" THEN Reverse(values) \o list ELSE list \o values

=============================================================================
