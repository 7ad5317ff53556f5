----------------------------- MODULE GlobMatch -----------------------------
(***************************************************************************)
(* glob_match of src/commands/pubsub.rs: the matcher of PSUBSCRIBE         *)
(* patterns, a loop with one backtrack point instead of a recursion.  One  *)
(* step is one turn of its loop.  The pattern is the bytes of a sequence   *)
(* of elements, so that what it means can be said without the matcher.     *)
(* Indices count from 1, so an index past the end is Len + 1.              *)
(***************************************************************************)
EXTENDS Integers, Sequences, SequencesExt

CONSTANTS
    Alphabet,   \* the bytes strings are made of
    Pieces,     \* the elements patterns are made of
    Torn,       \* what a pattern may end with besides
    MaxTokens,  \* bound: elements of a pattern
    MaxLength   \* bound: length of a string

Byte == 0 .. 255

\* Bytes with a meaning, and a hyphen.
Star  == 42
Mark  == 63
Open  == 91
Slash == 92
Close == 93
Caret == 94
Bang  == 33
Dash  == 45

-----------------------------------------------------------------------------
(* The elements of patterns *)

\* An item of a class: one byte, or the bytes from the first to the third.
IsItem(item) ==
    /\ item \in Seq(Byte \ {Close})
    /\ Len(item) = 1 \/ (Len(item) = 3 /\ item[2] = Dash)

Covers(item, c) ==
    IF Len(item) = 1 THEN c = item[1] ELSE item[1] <= c /\ c <= item[3]

\* The items of a class as they are read: what follows "[" is no negation unless
\* the class is negated, and a hyphen between two bytes makes a range of them.
ReadAsItems(mark, items) ==
    /\ mark \in {<<>>, <<Caret>>, <<Bang>>}
    /\ \A k \in DOMAIN items : IsItem(items[k])
    /\ mark = <<>> /\ items # <<>> => items[1][1] \notin {Caret, Bang}
    /\ \A k \in DOMAIN items \ {1} :
          Len(items[k - 1]) = 1 /\ items[k][1] = Dash => k = Len(items) /\ items[k] = <<Dash>>

\* "*", "?", a byte, an escaped byte, a class ...
IsElement(x) ==
    \/ x = [kind |-> "star"]
    \/ x = [kind |-> "any"]
    \/ \E c \in Byte \ {Star, Mark, Open, Slash} : x = [kind |-> "byte", byte |-> c]
    \/ \E c \in Byte : x = [kind |-> "escape", byte |-> c]
    \/ x.kind = "class" /\ x.items \in Seq(Seq(Byte)) /\ ReadAsItems(x.mark, x.items)

\* ... and, at the end of a pattern only, an escape of nothing and a class that is
\* not closed.
IsTorn(x) ==
    \/ x = [kind |-> "slash"]
    \/ x.kind = "open" /\ x.body \in Seq(Byte \ {Close})

ASSUME GlobAssumption ==
    /\ Alphabet \subseteq Byte
    /\ \A x \in Pieces : IsElement(x)
    /\ \A x \in Torn : IsTorn(x)
    /\ MaxTokens \in Nat /\ MaxLength \in Nat

\* How an element is written.
BytesOf(x) ==
    CASE x.kind = "star"   -> <<Star>>
      [] x.kind = "any"    -> <<Mark>>
      [] x.kind = "byte"   -> <<x.byte>>
      [] x.kind = "escape" -> <<Slash, x.byte>>
      [] x.kind = "class"  -> <<Open>> \o x.mark \o FlattenSeq(x.items) \o <<Close>>
      [] x.kind = "slash"  -> <<Slash>>
      [] x.kind = "open"   -> <<Open>> \o x.body

\* Whether an element that is no star takes a byte: what is torn takes none.
Takes(x, c) ==
    CASE x.kind = "any"               -> TRUE
      [] x.kind \in {"byte", "escape"} -> c = x.byte
      [] x.kind = "class"             -> (\E k \in DOMAIN x.items : Covers(x.items[k], c))
                                            # (x.mark # <<>>)
      [] OTHER                        -> FALSE

-----------------------------------------------------------------------------
(* The matcher *)

VARIABLES
    tokens,     \* the pattern as elements: not looked at by the matcher
    pattern,    \* the pattern's bytes
    string,     \* the string's bytes
    pi, si,     \* where the matcher is in each
    starPi,     \* star_pi: the byte after the last '*', 0 for None
    starSi,     \* star_si: where in the string the last '*' ends for now
    result,     \* "running", or what was returned; "idle" at rest
    turns       \* history: how many turns the loop took

input == <<tokens, pattern, string>>
glob  == <<tokens, pattern, string, pi, si, starPi, starSi, result, turns>>

\* A byte of the pattern, or that there is none.
At(i) == IF i <= Len(pattern) THEN pattern[i] ELSE -1

\* The bytes of a class from byte i to its ']' or the end of the pattern: whether
\* c was found, and where it ends.
Scan(c) ==
    LET to[i \in 1 .. Len(pattern) + 3] ==
            IF i > Len(pattern) \/ At(i) = Close
            THEN [found |-> FALSE, end |-> i]
            ELSE IF i + 2 <= Len(pattern) /\ At(i + 1) = Dash /\ At(i + 2) # Close
            THEN [to[i + 3] EXCEPT !.found = @ \/ (At(i) <= c /\ c <= At(i + 2))]
            ELSE [to[i + 1] EXCEPT !.found = @ \/ At(i) = c]
    IN  to

\* Whether the class that opens at byte i takes c, and the byte after it.
Class(i, c) ==
    LET negated == At(i + 1) \in {Caret, Bang}
        scan    == Scan(c)[IF negated THEN i + 2 ELSE i + 1]
    IN  [matches |-> At(scan.end) = Close /\ (scan.found # negated),
         next |-> scan.end + 1]

\* The first byte from i on that is not a star.
AfterStars(i) == CHOOSE j \in i .. Len(pattern) + 1 :
    At(j) # Star /\ \A k \in i .. j - 1 : At(k) = Star

\* The byte of the pattern after the one element at pi, if that takes string[si].
Taken ==
    CASE At(pi) = Slash -> IF At(pi + 1) = string[si] THEN pi + 2 ELSE 0
      [] At(pi) = Mark  -> pi + 1
      [] At(pi) = Open  -> LET class == Class(pi, string[si])
                           IN  IF class.matches THEN class.next ELSE 0
      [] OTHER          -> IF At(pi) = string[si] THEN pi + 1 ELSE 0

Running == result = "running" /\ si <= Len(string)

\* A star: the rest matches if it is the last byte, else a backtrack point.
MeetStar ==
    /\ Running
    /\ At(pi) = Star
    /\ turns' = turns + 1
    /\ pi' = AfterStars(pi)
    /\ \/ /\ pi' > Len(pattern)
          /\ result' = "match"
          /\ UNCHANGED <<starPi, starSi>>
       \/ /\ pi' <= Len(pattern)
          /\ starPi' = pi'
          /\ starSi' = si
          /\ UNCHANGED result
    /\ UNCHANGED <<input, si>>

Advance ==
    /\ Running
    /\ At(pi) # Star
    /\ Taken # 0
    /\ turns' = turns + 1
    /\ pi' = Taken
    /\ si' = si + 1
    /\ UNCHANGED <<input, starPi, starSi, result>>

\* Nothing takes the byte: the last star takes one more, if there is one.
Backtrack ==
    /\ Running
    /\ At(pi) # Star
    /\ Taken = 0
    /\ turns' = turns + 1
    /\ \/ /\ starPi = 0
          /\ result' = "mismatch"
          /\ UNCHANGED <<pi, si, starSi>>
       \/ /\ starPi # 0
          /\ pi' = starPi
          /\ starSi' = starSi + 1
          /\ si' = starSi + 1
          /\ UNCHANGED result
    /\ UNCHANGED <<input, starPi>>

\* The slip of an end that forgets the stars that may match nothing.
FinishAtEnd ==
    /\ result = "running"
    /\ si > Len(string)
    /\ pi' = pi
    /\ result' = IF pi' > Len(pattern) THEN "match" ELSE "mismatch"
    /\ UNCHANGED <<input, si, starPi, starSi, turns>>

\* The string is used up: only stars may be left.
Finish ==
    /\ result = "running"
    /\ si > Len(string)
    /\ pi' = AfterStars(pi)
    /\ result' = IF pi' > Len(pattern) THEN "match" ELSE "mismatch"
    /\ UNCHANGED <<input, si, starPi, starSi, turns>>

-----------------------------------------------------------------------------
(* What a pattern means *)

\* Where in the string the first n elements can end: a star goes on from where the
\* elements before it ended to anywhere, any other element takes one byte.
EndsOf(t, s) ==
    LET ends[n \in 0 .. Len(t)] ==
            IF n = 0 THEN {0}
            ELSE IF t[n].kind = "star"
            THEN {j \in 0 .. Len(s) : \E i \in ends[n - 1] : i <= j}
            ELSE {j \in 1 .. Len(s) : j - 1 \in ends[n - 1] /\ Takes(t[n], s[j])}
    IN  ends

\* All the elements together can end at the end.
Fits(t, s) == Len(s) \in EndsOf(t, s)[Len(t)]

-----------------------------------------------------------------------------

\* Every pattern of elements, with or without a torn end, and every string.
GlobInit ==
    /\ \E t \in BoundedSeq(Pieces, MaxTokens) : tokens \in {t} \cup {Append(t, x) : x \in Torn}
    /\ pattern = FlattenSeq([i \in DOMAIN tokens |-> BytesOf(tokens[i])])
    /\ string \in BoundedSeq(Alphabet, MaxLength)
    /\ pi = 1
    /\ si = 1
    /\ starPi = 0
    /\ starSi = 0
    /\ result = "running"
    /\ turns = 0

\* No pattern is being matched.
GlobAtRest ==
    /\ tokens = <<>> /\ pattern = <<>> /\ string = <<>>
    /\ pi = 1 /\ si = 1 /\ starPi = 0 /\ starSi = 0
    /\ result = "idle"
    /\ turns = 0

GlobNext == MeetStar \/ Advance \/ Backtrack \/ Finish

-----------------------------------------------------------------------------
(* Properties *)

\* The matcher is right on every pattern: it comes to an end ("Complexity is
\* O(m*n)": at each position of the string it meets each byte of the pattern at
\* most once), and its answer is what the pattern means: the one backtrack point
\* (the LAST star) loses no match, whatever mix of stars, classes and escapes.
AnswerIsMeaning ==
    /\ turns <= (Len(pattern) + 1) * (Len(string) + 1)
    /\ result \in {"match", "mismatch"} => (result = "match") = Fits(tokens, string)

=============================================================================
