---------------------------- MODULE MCAlgorithms ----------------------------
(* The pure algorithms for TLC: a behaviour builds a list or matches a pattern. *)
EXTENDS ListAlgorithms, GlobMatch

\* The elements over the letters a and b, with "[a-b]", "[^b-a]" and "[!a-]".
ElementsOfAB ==
    {[kind |-> "star"], [kind |-> "any"],
     [kind |-> "byte", byte |-> 97], [kind |-> "byte", byte |-> 98],
     [kind |-> "escape", byte |-> Star]}
    \cup
    {[kind |-> "class", mark |-> c[1], items |-> c[2]] :
        c \in {<< <<>>, << <<97, Dash, 98>> >> >>,
              << <<Caret>>, << <<98, Dash, 97>> >> >>,
              << <<Bang>>, << <<97>>, <<Dash>> >> >>}}

TornEnds == {[kind |-> "slash"], [kind |-> "open", body |-> <<97>>]}

Init ==
    \/ ListInit /\ GlobAtRest
    \/ GlobInit /\ items = <<>> /\ first = 0 /\ second = 0

Next ==
    \/ ListNext /\ result = "idle" /\ UNCHANGED glob
    \/ GlobNext /\ UNCHANGED <<items, first, second>>

Spec == Init /\ [][Next]_<<items, first, second, glob>>

=============================================================================
