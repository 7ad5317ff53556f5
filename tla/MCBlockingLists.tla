-------------------------- MODULE MCBlockingLists --------------------------
(***************************************************************************)
(* A small instance of BlockingLists for TLC.                              *)
(***************************************************************************)
EXTENDS BlockingLists

CONSTANTS k1, k2, c1

BPop(keys, end, forever) ==
    [op |-> "pop", keys |-> keys, end |-> end, dst |-> k1, to |-> "LEFT",
     forever |-> forever]

BMove(src, dst, from, to, forever) ==
    [op |-> "move", keys |-> <<src>>, end |-> from, dst |-> dst, to |-> to,
     forever |-> forever]

\* BLPOP k1 k2 with a deadline and BLMOVE k1 k2 without one.
MCCalls == {BPop(<<k1, k2>>, "LEFT", FALSE),
            BMove(k1, k2, "LEFT", "RIGHT", TRUE)}

MCInts == {-1, 0}

=============================================================================
