-------------------------- MODULE MCStreamBlocking --------------------------
(* Instances of StreamBlocking for TLC. *)
EXTENDS StreamBlocking, TLC

CONSTANTS k1, k2, c1, c2

\* XREAD, XREADGROUP of every key in `keys` from the same kind of id.
ReadOf(keys, id, wait) ==
    [op |-> "read", keys |-> keys, from |-> [k \in Keys |-> id],
     count |-> 1, wait |-> wait]

GroupReadOf(keys, id, wait) ==
    [op |-> "group", keys |-> keys, from |-> [k \in Keys |-> id],
     count |-> 1, wait |-> wait]

\* Two clients that read one group, or wait at "$".
SharedCalls ==
    {GroupReadOf(<<k1>>, New, "some"), ReadOf(<<k1>>, Latest, "zero")}

\* One key: a reader of a group with a deadline, readers from "$" and from an id the
\* stream may have yet to reach without one, a page of the caller's pending entries.
WaitingCalls ==
    {GroupReadOf(<<k1>>, New, "some"), ReadOf(<<k1>>, Latest, "zero"),
     ReadOf(<<k1>>, 1, "zero"), GroupReadOf(<<k1>>, 0, "no")}

\* Two keys: a call that can fail at its second key, one that does not wait, a read
\* of both.
KeysCalls ==
    {GroupReadOf(<<k1, k2>>, New, "some"), GroupReadOf(<<k1>>, New, "zero"),
     ReadOf(<<k2, k1>>, 0, "no")}

ClientSymmetry == Permutations({c1, c2})
=============================================================================
