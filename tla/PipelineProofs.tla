--------------------------- MODULE PipelineProofs ---------------------------
(***************************************************************************)
(* Proofs about Pipeline: every queued command is called once or dropped   *)
(* by a cancellation, and every result is at the place of its command, for *)
(* any number of tasks that share the object and of commands.              *)
(*                                                                         *)
(* The invariant gives every command its one place, without counting, and  *)
(* says of a suspended execute where it stands: its results belong to the  *)
(* commands before the one it awaits, and that one suspends.               *)
(***************************************************************************)
EXTENDS Pipeline, FiniteSetTheorems, WellFoundedInduction, TLAPS

Command == [id : Ids, kind : AllKinds]
Result  == [id : Ids, ok : BOOLEAN, waited : BOOLEAN]
Run     == [commands : Seq(Command), results : Seq(Result)]

TypeOK ==
    /\ buffer \in Seq(Command)
    /\ batch \in [Users -> Run]
    /\ queued \in Nat /\ queued <= MaxCommands
    /\ started \in [Ids -> Nat]
    /\ dropped \in SUBSET Ids
    /\ returned \in [Users -> Run]

Distinct(commands) ==
    \A m, n \in DOMAIN commands : commands[m].id = commands[n].id => m = n

Buffered(i) == \E n \in DOMAIN buffer : buffer[n].id = i

\* A command has one place, and its place is known from the time it is queued.
Placed(i) ==
    /\ started[i] \in {0, 1}
    /\ Buffered(i) =>
          started[i] = 0 /\ i \notin dropped /\ \A t \in Users : i \notin Left(t)
    /\ \A t \in Users : i \in Left(t) =>
          started[i] = 0 /\ i \notin dropped /\ \A u \in Users : i \in Left(u) => u = t
    /\ i \in dropped => started[i] = 0
    /\ (i <= queued) <=> \/ Buffered(i)
                         \/ \E t \in Users : i \in Left(t)
                         \/ started[i] = 1
                         \/ i \in dropped

\* The results of a run of commands are those of the first ones, in their places,
\* and exactly those of a command that suspends were waited for.
Matched(commands, results) ==
    /\ Len(results) <= Len(commands)
    /\ \A n \in DOMAIN results :
          /\ results[n].id = commands[n].id
          /\ commands[n].kind = "refused" => ~results[n].ok
          /\ results[n].waited <=> Suspends(commands[n])

\* A suspended execute awaits a command that suspends.
BatchOK(t) ==
    Executing(t) =>
        LET commands == batch[t].commands
            results  == batch[t].results
        IN  /\ Distinct(commands)
            /\ HasBlocking(commands)
            /\ Matched(commands, results)
            /\ Len(results) < Len(commands)
            /\ Suspends(commands[Len(results) + 1])

\* What ResultsInPlace says of one execute.
InPlace(run) ==
    /\ Len(run.results) = Len(run.commands)
    /\ \A n \in DOMAIN run.results :
          /\ run.results[n].id = run.commands[n].id
          /\ run.commands[n].kind = "refused" => ~run.results[n].ok
          /\ run.results[n].waited <=> Suspends(run.commands[n]) /\ HasBlocking(run.commands)

IInv ==
    /\ TypeOK
    /\ Distinct(buffer)
    /\ \A i \in Ids : Placed(i)
    /\ \A t \in Users : BatchOK(t)
    /\ \A t \in Users : InPlace(returned[t])

-----------------------------------------------------------------------------
(* Sequences of commands *)

\* A function on 1 .. n is a sequence of length n.
LEMMA FunctionIsSequence ==
    ASSUME NEW S, NEW n \in Nat, NEW f \in [1 .. n -> S]
    PROVE  f \in Seq(S) /\ Len(f) = n
OBVIOUS

\* A set of numbers has a least one.
LEMMA LeastNat ==
    ASSUME NEW T \in SUBSET Nat, T # {}
    PROVE  \E m \in T : \A n \in T : m <= n
<1> DEFINE Intervals == {1 .. n : n \in T}
           R == StrictSubsetOrdering(Nat)
<1>1. IsWellFoundedOn(R, FiniteSubsetsOf(Nat))
  BY FS_StrictSubsetOrderingWellFounded
<1>2. Intervals \subseteq FiniteSubsetsOf(Nat) /\ Intervals # {}
  <2>1. \A n \in T : IsFiniteSet(1 .. n)
    BY FS_Interval
  <2>2. \A n \in T : 1 .. n \in SUBSET Nat
    OBVIOUS
  <2>3. \A n \in T : 1 .. n \in FiniteSubsetsOf(Nat)
    BY <2>1, <2>2 DEF FiniteSubsetsOf
  <2> QED BY <2>3
<1> HIDE DEF Intervals, R
<1>3. PICK X \in Intervals : \A Y \in Intervals : ~(<<Y, X>> \in R)
  BY <1>1, <1>2, WFMin
<1>4. PICK m \in T : X = 1 .. m
  BY DEF Intervals
<1>5. ASSUME NEW n \in T PROVE m <= n
  <2>1. ~(<<1 .. n, 1 .. m>> \in R)
    BY <1>3, <1>4 DEF Intervals
  <2>2. 1 .. n \in SUBSET Nat /\ 1 .. m \in SUBSET Nat
    OBVIOUS
  <2>3. ~(1 .. n \subseteq 1 .. m /\ 1 .. n # 1 .. m)
    BY <2>1, <2>2 DEF R, StrictSubsetOrdering
  <2>4. CASE n < m
    <3>1. m \in 1 .. m /\ m \notin 1 .. n /\ 1 .. n \subseteq 1 .. m
      BY <2>4
    <3> QED BY <3>1, <2>3
  <2> QED BY <2>4
<1> QED BY <1>5

\* The loop stops at the next command that suspends, or behind the last one.
LEMMA StopAtNext ==
    ASSUME NEW commands \in Seq(Command), NEW from \in 1 .. Len(commands) + 1
    PROVE  LET s == StopAt(commands, from)
           IN  /\ s \in from .. Len(commands) + 1
               /\ s <= Len(commands) => Suspends(commands[s])
               /\ \A p \in from .. s - 1 : ~Suspends(commands[p])
<1> DEFINE T == {n \in from .. Len(commands) + 1 : n <= Len(commands) => Suspends(commands[n])}
<1>1. Len(commands) \in Nat /\ from \in Nat
  OBVIOUS
<1>2. T \in SUBSET Nat /\ Len(commands) + 1 \in T
  BY <1>1
<1>3. PICK m \in T : \A n \in T : m <= n
  BY <1>2, LeastNat
<1>4. ASSUME NEW p \in from .. m - 1 PROVE ~Suspends(commands[p])
  BY <1>1, <1>3
<1>5. \E n \in from .. Len(commands) + 1 :
          /\ n <= Len(commands) => Suspends(commands[n])
          /\ \A p \in from .. n - 1 : ~Suspends(commands[p])
  BY <1>3, <1>4
<1> HIDE DEF T
<1> QED BY <1>5 DEF StopAt

\* Of the commands from one place to another, at most one has the id i.
LEMMA CalledCount ==
    ASSUME NEW commands \in Seq(Command), Distinct(commands), NEW from \in Nat, NEW to \in Nat,
           from >= 1, to <= Len(commands), NEW i \in Ids
    PROVE  Cardinality({n \in from .. to : commands[n].id = i})
               = IF \E n \in from .. to : commands[n].id = i THEN 1 ELSE 0
<1> DEFINE S == {n \in from .. to : commands[n].id = i}
<1>1. CASE \E n \in from .. to : commands[n].id = i
  <2>1. PICK n \in from .. to : commands[n].id = i
    BY <1>1
  <2>2. \A m \in from .. to : m \in DOMAIN commands
    OBVIOUS
  <2>3. S = {n}
    BY <2>1, <2>2 DEF Distinct
  <2> QED BY <1>1, <2>3, FS_Singleton
<1>2. CASE ~\E n \in from .. to : commands[n].id = i
  <2>1. S = {}
    BY <1>2
  <2> QED BY <1>2, <2>1, FS_EmptySet
<1> QED BY <1>1, <1>2

\* The ids from a place on.
From(commands, m) == {commands[n].id : n \in m .. Len(commands)}

\* The commands that were called, and those that are left, are those there were.
LEMMA Parted ==
    ASSUME NEW commands \in Seq(Command), Distinct(commands), NEW m \in Nat, NEW e \in Nat,
           m >= 1, m <= e + 1, e <= Len(commands), NEW i
    PROVE  /\ i \in From(commands, m) <=>
                 \/ \E n \in m .. e : commands[n].id = i
                 \/ i \in From(commands, e + 1)
           /\ ~((\E n \in m .. e : commands[n].id = i) /\ i \in From(commands, e + 1))
<1>1. Len(commands) \in Nat
  OBVIOUS
<1>2. \A n \in Nat : /\ n \in m .. Len(commands) <=> n \in m .. e \/ n \in e + 1 .. Len(commands)
                     /\ ~(n \in m .. e /\ n \in e + 1 .. Len(commands))
  BY <1>1
<1>3. \A n \in m .. Len(commands) : n \in Nat /\ n \in DOMAIN commands
  BY <1>1
<1>4. \A n \in m .. e : n \in Nat /\ n \in DOMAIN commands
  BY <1>1
<1>5. \A n \in e + 1 .. Len(commands) : n \in Nat /\ n \in DOMAIN commands
  BY <1>1
<1> QED BY <1>2, <1>3, <1>4, <1>5 DEF From, Distinct

\* What the loop of the slow path does, entered with some results: it calls the
\* commands up to the last one, which is the one it then awaits unless it came to
\* the end, and has more results.
Ran(t, commands, results, last, more) ==
    /\ Len(results) <= last /\ last <= Len(commands)
    /\ Len(results) <= Len(more)
    /\ \A n \in 1 .. Len(results) : more[n] = results[n]
    /\ \A n \in Len(results) + 1 .. Len(more) :
          /\ more[n].id = commands[n].id /\ ~more[n].waited /\ ~Suspends(commands[n])
          /\ commands[n].kind = "refused" => ~more[n].ok
    /\ started' \in [Ids -> Nat]
    /\ \A i \in Ids : started'[i] = started[i] +
          IF \E n \in Len(results) + 1 .. last : commands[n].id = i THEN 1 ELSE 0
    /\ \/ /\ last = Len(commands) /\ Len(more) = Len(commands)
          /\ batch' = [batch EXCEPT ![t] = Nothing]
          /\ returned' = [returned EXCEPT ![t] =
                             [commands |-> commands, results |-> more]]
       \/ /\ last = Len(more) + 1 /\ Suspends(commands[last])
          /\ batch' = [batch EXCEPT ![t] = [commands |-> commands, results |-> more]]
          /\ returned' = [returned EXCEPT ![t] = Nothing]

\* The loop does that.
LEMMA LoopRuns ==
    ASSUME TypeOK, NEW t \in Users, NEW commands \in Seq(Command), NEW results \in Seq(Result),
           NEW fails \in SUBSET Ids, Len(results) <= Len(commands), Distinct(commands),
           Loop(t, commands, results, fails)
    PROVE  \E last \in Nat, more \in Seq(Result) : Ran(t, commands, results, last, more)
<1> DEFINE from == Len(results) + 1
           stop == StopAt(commands, from)
           tail == [n \in 1 .. stop - from |-> Answer(commands[from + n - 1], fails, FALSE)]
           more == results \o tail
           over == stop > Len(commands)
           last == IF over THEN stop - 1 ELSE stop
           now  == [commands |-> commands, results |-> more]
<1>1. Len(commands) \in Nat /\ Len(results) \in Nat /\ from \in 1 .. Len(commands) + 1
  OBVIOUS
<1>2. /\ stop \in from .. Len(commands) + 1
      /\ stop <= Len(commands) => Suspends(commands[stop])
      /\ \A p \in from .. stop - 1 : ~Suspends(commands[p])
  BY <1>1, StopAtNext
<1>3. /\ started' = Calls(commands, from, last)
      /\ batch' = [batch EXCEPT ![t] = IF over THEN Nothing ELSE now]
      /\ returned' = [returned EXCEPT ![t] = IF over THEN now ELSE Nothing]
  BY DEF Loop
<1> HIDE DEF stop
<1>4. stop \in Nat /\ stop - from \in Nat
  BY <1>1, <1>2
<1>5. ASSUME NEW n \in 1 .. stop - from
      PROVE  /\ from + n - 1 \in DOMAIN commands
             /\ from + n - 1 \in from .. stop - 1
             /\ Answer(commands[from + n - 1], fails, FALSE) \in Result
  <2>1. from + n - 1 \in 1 .. Len(commands) /\ from + n - 1 \in from .. stop - 1
    BY <1>1, <1>2, <1>4
  <2>2. commands[from + n - 1] \in Command
    BY <2>1
  <2> QED BY <2>1, <2>2 DEF Answer, Result, Command
<1>6. tail \in [1 .. stop - from -> Result]
  BY <1>5
<1>7. tail \in Seq(Result) /\ Len(tail) = stop - from
  <2> HIDE DEF tail, from
  <2> QED BY <1>4, <1>6, FunctionIsSequence
<1>8. \A n \in 1 .. stop - from : tail[n] = Answer(commands[from + n - 1], fails, FALSE)
  OBVIOUS
<1> HIDE DEF tail
<1>9. /\ more \in Seq(Result) /\ Len(more) = Len(results) + (stop - from)
      /\ \A n \in 1 .. Len(results) : more[n] = results[n]
      /\ \A n \in Len(results) + 1 .. Len(more) : more[n] = tail[n - Len(results)]
  BY <1>1, <1>4, <1>7
<1> HIDE DEF more
<1>10. Len(more) = stop - 1 /\ Len(results) <= Len(more)
  BY <1>1, <1>2, <1>9
<1>11. ASSUME NEW n \in Len(results) + 1 .. Len(more)
       PROVE  /\ more[n].id = commands[n].id /\ ~more[n].waited /\ ~Suspends(commands[n])
              /\ commands[n].kind = "refused" => ~more[n].ok
  <2>1. n - Len(results) \in 1 .. stop - from /\ from + (n - Len(results)) - 1 = n
    BY <1>1, <1>4, <1>9
  <2>2. more[n] = Answer(commands[n], fails, FALSE)
    BY <1>8, <1>9, <2>1
  <2>3. n \in from .. stop - 1
    BY <1>1, <1>4, <1>10
  <2>4. ~Suspends(commands[n])
    BY <1>2, <2>3
  <2> DEFINE answer == Answer(commands[n], fails, FALSE)
  <2>5. answer.id = commands[n].id /\ ~answer.waited
    BY DEF Answer
  <2>6. commands[n].kind = "refused" => ~answer.ok
    BY DEF Answer
  <2> HIDE DEF answer
  <2>7. more[n] = answer
    BY <2>2 DEF answer
  <2> QED BY <2>4, <2>5, <2>6, <2>7
<1>12. last \in Nat /\ Len(results) <= last /\ last <= Len(commands)
  BY <1>1, <1>2
<1>13. \A i \in Ids : started'[i] = started[i] +
          IF \E n \in from .. last : commands[n].id = i THEN 1 ELSE 0
  <2>1. \A i \in Ids : Cardinality({n \in from .. last : commands[n].id = i})
              = IF \E n \in from .. last : commands[n].id = i THEN 1 ELSE 0
    <3> HIDE DEF last
    <3>1. from \in Nat /\ from >= 1
      BY <1>1
    <3> HIDE DEF from
    <3> QED BY <1>12, <3>1, CalledCount
  <2>2. started' = [i \in Ids |-> started[i] +
                        Cardinality({n \in from .. last : commands[n].id = i})]
    BY <1>3 DEF Calls
  <2> QED BY <2>1, <2>2
<1>14. started' \in [Ids -> Nat]
  <2>1. started' = [i \in Ids |-> started[i] +
                        Cardinality({n \in from .. last : commands[n].id = i})]
    BY <1>3 DEF Calls
  <2>2. \A i \in Ids : started'[i] \in Nat
    BY <1>13 DEF TypeOK
  <2> HIDE DEF from, last
  <2> QED BY <2>1, <2>2
<1>15. CASE over
  <2>1. last = Len(commands) /\ Len(more) = Len(commands)
    BY <1>1, <1>2, <1>10, <1>15
  <2>2. batch' = [batch EXCEPT ![t] = Nothing] /\ returned' = [returned EXCEPT ![t] = now]
    BY <1>3, <1>15
  <2> HIDE DEF last
  <2> QED BY <1>9, <1>10, <1>11, <1>12, <1>13, <1>14, <2>1, <2>2 DEF Ran
<1>16. CASE ~over
  <2>1. last = Len(more) + 1 /\ Suspends(commands[last])
    BY <1>1, <1>2, <1>10, <1>16
  <2>2. batch' = [batch EXCEPT ![t] = now] /\ returned' = [returned EXCEPT ![t] = Nothing]
    BY <1>3, <1>16
  <2> HIDE DEF last
  <2> QED BY <1>9, <1>10, <1>11, <1>12, <1>13, <1>14, <2>1, <2>2 DEF Ran
<1> QED BY <1>15, <1>16

-----------------------------------------------------------------------------
(* The steps *)

\* A command is appended to the buffer with a new id.
LEMMA QueueStep ==
    ASSUME IInv, NEW kind \in Kinds, Queue(kind)
    PROVE  IInv'
<1> DEFINE new == queued + 1
           c   == [id |-> new, kind |-> kind]
<1>1. /\ queued < MaxCommands /\ queued' = new
      /\ buffer' = Append(buffer, c)
      /\ UNCHANGED <<batch, started, dropped, returned>>
  BY DEF Queue
<1>2. queued \in Nat /\ MaxCommands \in Nat /\ buffer \in Seq(Command)
  BY PipelineAssumption DEF IInv, TypeOK
<1>3. new \in Ids /\ queued' \in Nat /\ queued' <= MaxCommands
  BY <1>1, <1>2 DEF Ids
<1>4. c \in Command
  BY <1>3, PipelineAssumption DEF Command
<1>5. c.id = new
  OBVIOUS
<1> HIDE DEF c
<1>6. /\ buffer' \in Seq(Command)
      /\ DOMAIN buffer' = 1 .. Len(buffer) + 1
      /\ DOMAIN buffer = 1 .. Len(buffer)
      /\ Len(buffer) \in Nat
      /\ buffer'[Len(buffer) + 1] = c
      /\ \A n \in 1 .. Len(buffer) : buffer'[n] = buffer[n]
  BY <1>1, <1>2, <1>4
<1>7. TypeOK'
  BY <1>1, <1>3, <1>6 DEF IInv, TypeOK
<1>8. \A n \in DOMAIN buffer' : n \in DOMAIN buffer \/ n = Len(buffer) + 1
  BY <1>6
<1>9. \A i \in Ids : Buffered(i)' <=> Buffered(i) \/ i = new
  BY <1>5, <1>6, <1>8 DEF Buffered
<1>10. ~Buffered(new)
  BY <1>2, <1>3 DEF IInv, Placed
<1>11. Distinct(buffer')
  BY <1>5, <1>6, <1>8, <1>10 DEF IInv, Distinct, Buffered
<1>12. \A i \in Ids : i <= queued' <=> i <= queued \/ i = new
  BY <1>1, <1>2 DEF Ids
<1>13. \A t \in Users : Left(t)' = Left(t)
  BY <1>1 DEF Left
<1>14. ~(new <= queued)
  BY <1>2
<1>15. ASSUME NEW i \in Ids PROVE Placed(i)'
  <2>1. Placed(i)
    BY DEF IInv
  <2>2. i = new => started[i] = 0 /\ i \notin dropped /\ \A t \in Users : i \notin Left(t)
    BY <1>14, <2>1 DEF Placed
  <2> HIDE DEF new
  <2> QED BY <1>1, <1>9, <1>12, <1>13, <2>1, <2>2 DEF Placed
<1>16. \A t \in Users : BatchOK(t)'
  BY <1>1 DEF IInv, BatchOK, Executing
<1>17. \A t \in Users : InPlace(returned'[t])
  BY <1>1 DEF IInv
<1> QED BY <1>7, <1>11, <1>15, <1>16, <1>17 DEF IInv

\* No commands are left to an execute that is not going on.
LEMMA NothingLeft ==
    ASSUME TypeOK, NEW t \in Users, ~Executing(t)
    PROVE  Left(t) = {}
<1>1. batch[t].commands = <<>> /\ batch[t].results \in Seq(Result)
  BY DEF Executing, TypeOK, Run
<1>2. Len(batch[t].results) + 2 .. 0 = {}
  BY <1>1
<1> QED BY <1>1, <1>2 DEF Left

\* The fast path calls every command of the buffer.
LEMMA FastStep ==
    ASSUME IInv, NEW t \in Users, NEW fails \in SUBSET Ids, ExecuteFast(t, fails)
    PROVE  IInv'
<1> DEFINE answers == [n \in DOMAIN buffer |-> Answer(buffer[n], fails, FALSE)]
           last    == [commands |-> buffer, results |-> answers]
<1>1. /\ ~HasBlocking(buffer)
      /\ started' = Calls(buffer, 1, Len(buffer))
      /\ returned' = [returned EXCEPT ![t] = last]
      /\ buffer' = <<>>
      /\ UNCHANGED <<batch, queued, dropped>>
  BY DEF ExecuteFast
<1>2. /\ buffer \in Seq(Command) /\ Distinct(buffer) /\ TypeOK
      /\ Len(buffer) \in Nat /\ DOMAIN buffer = 1 .. Len(buffer)
  BY DEF IInv, TypeOK
<1>3. \A i \in Ids : started'[i] = started[i] + IF Buffered(i) THEN 1 ELSE 0
  <2>1. \A i \in Ids : Cardinality({n \in 1 .. Len(buffer) : buffer[n].id = i})
              = IF \E n \in 1 .. Len(buffer) : buffer[n].id = i THEN 1 ELSE 0
    BY <1>2, CalledCount
  <2> QED BY <1>1, <1>2, <2>1 DEF Calls, Buffered
<1>4. ASSUME NEW n \in DOMAIN buffer PROVE Answer(buffer[n], fails, FALSE) \in Result
  <2>1. buffer[n] \in Command
    BY <1>2
  <2> QED BY <2>1 DEF Answer, Result, Command
<1>5. answers \in [1 .. Len(buffer) -> Result]
  BY <1>2, <1>4
<1>6. \A n \in DOMAIN answers :
          /\ answers[n].id = buffer[n].id /\ ~answers[n].waited
          /\ buffer[n].kind = "refused" => ~answers[n].ok
  BY DEF Answer
<1> HIDE DEF answers
<1>7. answers \in Seq(Result) /\ Len(answers) = Len(buffer)
  BY <1>2, <1>5
<1>8. last \in Run
  BY <1>2, <1>7 DEF Run
<1>9. started' \in [Ids -> Nat]
  <2>1. \A i \in Ids : started'[i] \in Nat
    BY <1>2, <1>3 DEF TypeOK
  <2> QED BY <1>1, <2>1 DEF Calls
<1>10. last.commands = buffer /\ last.results = answers
  OBVIOUS
<1> HIDE DEF last
<1>11. TypeOK'
  BY <1>1, <1>2, <1>8, <1>9 DEF TypeOK
<1>12. Distinct(buffer') /\ \A i \in Ids : ~Buffered(i)'
  BY <1>1 DEF Distinct, Buffered
<1>13. \A u \in Users : Left(u)' = Left(u) /\ BatchOK(u)'
  BY <1>1 DEF Left, IInv, BatchOK, Executing
<1>14. ASSUME NEW i \in Ids PROVE Placed(i)'
  <2>1. Placed(i)
    BY DEF IInv
  <2> QED BY <1>1, <1>3, <1>12, <1>13, <2>1 DEF Placed
<1>15. /\ returned'[t] = last
       /\ \A u \in Users : u # t => returned'[u] = returned[u]
  BY <1>1, <1>2 DEF TypeOK
<1>16. \A u \in Users : InPlace(returned'[u])
  <2>1. ASSUME NEW u \in Users, u # t PROVE InPlace(returned'[u])
    BY <1>15, <2>1 DEF IInv
  <2>2. InPlace(last)
    BY <1>1, <1>6, <1>7, <1>10 DEF HasBlocking, InPlace
  <2> QED BY <1>15, <2>1, <2>2
<1> QED BY <1>11, <1>12, <1>13, <1>14, <1>16 DEF IInv

\* What the loop does to the commands it was entered with.  Their places before
\* are the buffer, or ahead in the batch of the task.
LEMMA LoopStep ==
    ASSUME IInv, NEW t \in Users, NEW commands \in Seq(Command), NEW results \in Seq(Result),
           NEW fails \in SUBSET Ids, Distinct(commands), HasBlocking(commands),
           Matched(commands, results), Loop(t, commands, results, fails),
           UNCHANGED <<queued, dropped>>, buffer' \in Seq(Command), Distinct(buffer'),
           \A i \in Ids : \/ /\ ~Buffered(i)' /\ i \notin Left(t)
                             /\ Buffered(i) <=> i \in From(commands, Len(results) + 1)
                          \/ /\ Buffered(i)' <=> Buffered(i)
                             /\ i \in Left(t) <=> i \in From(commands, Len(results) + 1)
    PROVE  IInv'
<1>1. TypeOK /\ Len(results) <= Len(commands) /\ Len(results) \in Nat /\ Len(commands) \in Nat
  BY DEF IInv, Matched
<1>2. PICK last \in Nat, more \in Seq(Result) : Ran(t, commands, results, last, more)
  BY <1>1, LoopRuns
<1> DEFINE now == [commands |-> commands, results |-> more]
           called(i) == \E n \in Len(results) + 1 .. last : commands[n].id = i
<1>3. now \in Run /\ Nothing \in Run /\ now.commands = commands /\ now.results = more
  BY DEF Run, Nothing
<1>4. Nothing.commands = <<>> /\ Nothing.results = <<>>
  BY DEF Nothing
<1>5. \/ /\ batch' = [batch EXCEPT ![t] = Nothing]
         /\ returned' = [returned EXCEPT ![t] = now]
         /\ last = Len(commands) /\ Len(more) = Len(commands)
      \/ /\ batch' = [batch EXCEPT ![t] = now]
         /\ returned' = [returned EXCEPT ![t] = Nothing]
         /\ last = Len(more) + 1 /\ Suspends(commands[last])
  BY <1>2 DEF Ran
<1>6. /\ Len(results) <= last /\ last <= Len(commands)
      /\ Len(results) <= Len(more)
      /\ \A n \in 1 .. Len(results) : more[n] = results[n]
      /\ \A n \in Len(results) + 1 .. Len(more) :
            /\ more[n].id = commands[n].id /\ ~more[n].waited /\ ~Suspends(commands[n])
            /\ commands[n].kind = "refused" => ~more[n].ok
      /\ started' \in [Ids -> Nat]
  BY <1>2 DEF Ran
<1> HIDE DEF now
<1>7. \/ /\ last = Len(commands) /\ Len(more) = Len(commands)
         /\ batch'[t] = Nothing /\ returned'[t] = now
      \/ /\ last = Len(more) + 1 /\ Suspends(commands[last])
         /\ batch'[t] = now /\ returned'[t] = Nothing
  BY <1>1, <1>5 DEF TypeOK
<1>8. \A u \in Users : u # t => batch'[u] = batch[u] /\ returned'[u] = returned[u]
  BY <1>1, <1>5 DEF TypeOK
<1>9. batch' \in [Users -> Run] /\ returned' \in [Users -> Run]
  BY <1>1, <1>5, <1>3 DEF TypeOK
<1>10. TypeOK'
  BY <1>1, <1>6, <1>9 DEF TypeOK
<1>11. Matched(commands, more) /\ Len(more) \in Nat
  <2>1. Len(more) \in Nat /\ DOMAIN more = 1 .. Len(more) /\ DOMAIN results = 1 .. Len(results)
    OBVIOUS
  <2>2. Len(more) <= Len(commands)
    BY <1>1, <1>6, <1>5, <2>1
  <2>3. ASSUME NEW n \in DOMAIN more
        PROVE  /\ more[n].id = commands[n].id /\ (more[n].waited <=> Suspends(commands[n]))
               /\ commands[n].kind = "refused" => ~more[n].ok
    <3>1. CASE n \in 1 .. Len(results)
      <4>1. /\ results[n].id = commands[n].id
            /\ commands[n].kind = "refused" => ~results[n].ok
            /\ results[n].waited <=> Suspends(commands[n])
        BY <2>1, <3>1 DEF Matched
      <4> QED BY <1>6, <3>1, <4>1
    <3>2. CASE n \in Len(results) + 1 .. Len(more)
      <4>1. /\ more[n].id = commands[n].id /\ ~more[n].waited /\ ~Suspends(commands[n])
            /\ commands[n].kind = "refused" => ~more[n].ok
        BY <1>6, <3>2
      <4> QED BY <4>1
    <3> QED BY <1>1, <2>1, <3>1, <3>2
  <2> QED BY <2>1, <2>2, <2>3 DEF Matched
<1>12. \A u \in Users : BatchOK(u)'
  <2>1. ASSUME NEW u \in Users, u # t PROVE BatchOK(u)'
    BY <1>8, <2>1 DEF IInv, BatchOK, Executing
  <2>2. CASE batch'[t] = Nothing
    <3>1. BatchOK(t)'
      BY <1>4, <2>2 DEF BatchOK, Executing
    <3> QED BY <2>1, <3>1
  <2>3. CASE batch'[t] # Nothing
    <3>1. batch'[t] = now /\ last = Len(more) + 1 /\ Suspends(commands[last])
      BY <1>7, <2>3
    <3>2. Len(more) < Len(commands)
      BY <1>6, <1>11, <3>1
    <3>3. BatchOK(t)'
      BY <1>3, <1>11, <3>1, <3>2 DEF BatchOK
    <3> QED BY <2>1, <3>3
  <2> QED BY <2>2, <2>3
<1>13. \A u \in Users : InPlace(returned'[u])
  <2>1. ASSUME NEW u \in Users, u # t PROVE InPlace(returned'[u])
    BY <1>8, <2>1 DEF IInv
  <2>2. InPlace(Nothing)
    BY <1>4 DEF InPlace
  <2>3. Len(more) = Len(commands) => InPlace(now)
    BY <1>3, <1>11 DEF InPlace, Matched
  <2> QED BY <1>7, <2>1, <2>2, <2>3
<1>14. Left(t)' = From(commands, last + 1)
  <2>1. CASE last = Len(commands) /\ batch'[t] = Nothing
    <3>1. last + 1 .. Len(commands) = {} /\ Len(<<>>) + 2 .. Len(<<>>) = {}
      BY <1>1, <2>1
    <3> QED BY <1>4, <2>1, <3>1 DEF Left, From
  <2>2. CASE last = Len(more) + 1 /\ batch'[t] = now
    <3>1. last + 1 = Len(more) + 2
      BY <1>11, <2>2
    <3> QED BY <1>3, <2>2, <3>1 DEF Left, From
  <2> QED BY <1>7, <2>1, <2>2
<1>15. \A u \in Users : u # t => Left(u)' = Left(u)
  BY <1>8 DEF Left
<1>16. ASSUME NEW i \in Ids PROVE Placed(i)'
  <2>1. Placed(i)
    BY DEF IInv
  <2>2. /\ i \in From(commands, Len(results) + 1) <=> called(i) \/ i \in Left(t)'
        /\ ~(called(i) /\ i \in Left(t)')
    <3>1. /\ i \in From(commands, Len(results) + 1) <=>
                called(i) \/ i \in From(commands, last + 1)
          /\ ~(called(i) /\ i \in From(commands, last + 1))
      <4> DEFINE m == Len(results) + 1
      <4>1. m \in Nat /\ m >= 1 /\ m <= last + 1 /\ last <= Len(commands)
        BY <1>1, <1>6
      <4> HIDE DEF m
      <4>2. /\ i \in From(commands, m) <=>
                  \/ \E n \in m .. last : commands[n].id = i
                  \/ i \in From(commands, last + 1)
            /\ ~((\E n \in m .. last : commands[n].id = i) /\ i \in From(commands, last + 1))
        BY <4>1, Parted
      <4> QED BY <4>2 DEF m
    <3> QED BY <1>14, <3>1
  <2>3. started'[i] = started[i] + IF called(i) THEN 1 ELSE 0
    BY <1>2 DEF Ran
  <2>4. \/ /\ ~Buffered(i)' /\ i \notin Left(t)
           /\ Buffered(i) <=> i \in From(commands, Len(results) + 1)
        \/ /\ Buffered(i)' <=> Buffered(i)
           /\ i \in Left(t) <=> i \in From(commands, Len(results) + 1)
    OBVIOUS
  <2> HIDE DEF called
  <2>5. /\ called(i) => started'[i] = started[i] + 1
        /\ ~called(i) => started'[i] = started[i]
    BY <2>1, <2>3 DEF Placed
  <2>6. CASE i \notin From(commands, Len(results) + 1)
    <3>1. (Buffered(i)' <=> Buffered(i)) /\ started'[i] = started[i]
      BY <2>2, <2>4, <2>5, <2>6
    <3>2. i \notin Left(t) /\ i \notin Left(t)'
      BY <2>2, <2>4, <2>6
    <3>3. \A u \in Users : i \in Left(u)' <=> i \in Left(u)
      BY <1>15, <3>2
    <3> QED BY <2>1, <3>1, <3>3 DEF Placed
  <2>7. CASE i \in From(commands, Len(results) + 1)
    <3>1. /\ started[i] = 0 /\ i \notin dropped /\ i <= queued
          /\ \A u \in Users : u # t => i \notin Left(u)
      BY <2>1, <2>4, <2>7 DEF Placed
    <3>2. ~Buffered(i)'
      BY <2>1, <2>4, <2>7 DEF Placed
    <3>3. \A u \in Users : u # t => i \notin Left(u)'
      BY <1>15, <3>1
    <3>4. CASE called(i)
      <4>1. started'[i] = 1 /\ i \notin Left(t)'
        BY <2>2, <2>5, <3>1, <3>4
      <4> QED BY <3>1, <3>2, <3>3, <4>1 DEF Placed
    <3>5. CASE ~called(i)
      <4>1. started'[i] = 0 /\ i \in Left(t)'
        BY <2>2, <2>5, <2>7, <3>1, <3>5
      <4> QED BY <3>1, <3>2, <3>3, <4>1 DEF Placed
    <3> QED BY <3>4, <3>5
  <2> QED BY <2>6, <2>7
<1> QED BY <1>10, <1>12, <1>13, <1>16 DEF IInv

\* The slow path takes all of the buffer.
LEMMA SlowStep ==
    ASSUME IInv, NEW t \in Users, NEW fails \in SUBSET Ids, ExecuteSlow(t, fails)
    PROVE  IInv'
<1>1. /\ ~Executing(t) /\ HasBlocking(buffer)
      /\ Loop(t, buffer, <<>>, fails)
      /\ buffer' = <<>> /\ UNCHANGED <<queued, dropped>>
  BY DEF ExecuteSlow
<1>2. buffer \in Seq(Command) /\ Distinct(buffer) /\ TypeOK
  BY DEF IInv, TypeOK
<1>3. Left(t) = {}
  BY <1>1, <1>2, NothingLeft
<1>4. Matched(buffer, <<>>)
  BY <1>2 DEF Matched
<1>5. buffer' \in Seq(Command) /\ Distinct(buffer') /\ \A i \in Ids : ~Buffered(i)'
  BY <1>1 DEF Distinct, Buffered
<1>6. \A i \in Ids : Buffered(i) <=> i \in From(buffer, Len(<<>>) + 1)
  BY <1>2 DEF Buffered, From
<1>7. <<>> \in Seq(Result)
  OBVIOUS
<1> QED BY <1>1, <1>2, <1>3, <1>4, <1>5, <1>6, <1>7, LoopStep

\* The awaited command has its answer, and the loop goes on behind it.
LEMMA AnswersStep ==
    ASSUME IInv, NEW t \in Users, NEW fails \in SUBSET Ids, Answers(t, fails)
    PROVE  IInv'
<1> DEFINE commands == batch[t].commands
           before   == batch[t].results
           answer   == Answer(Awaited(t), fails, TRUE)
           results  == Append(before, answer)
<1>1. /\ Executing(t) /\ Loop(t, commands, results, fails)
      /\ UNCHANGED <<buffer, queued, dropped>>
  BY DEF Answers
<1>2. TypeOK /\ BatchOK(t) /\ commands \in Seq(Command) /\ before \in Seq(Result)
  BY DEF IInv, TypeOK, Run
<1>3. /\ Distinct(commands) /\ HasBlocking(commands) /\ Matched(commands, before)
      /\ Len(before) < Len(commands) /\ Suspends(commands[Len(before) + 1])
  BY <1>1, <1>2 DEF BatchOK
<1>4. Len(before) \in Nat /\ Len(commands) \in Nat /\ Len(before) + 1 \in 1 .. Len(commands)
  BY <1>2, <1>3
<1>5. /\ answer \in Result /\ answer.waited = TRUE
      /\ answer.id = commands[Len(before) + 1].id
  <2>1. Awaited(t) \in Command
    BY <1>2, <1>4 DEF Awaited
  <2> QED BY <2>1 DEF Answer, Awaited, Result, Command
<1>6. Left(t) = From(commands, Len(before) + 2)
  BY DEF Left, From
<1>7. buffer \in Seq(Command) /\ Distinct(buffer)
  BY DEF IInv, TypeOK
<1>8. buffer' \in Seq(Command) /\ Distinct(buffer') /\ \A i \in Ids : Buffered(i)' <=> Buffered(i)
  BY <1>1, <1>7 DEF Buffered
<1> HIDE DEF commands, before, answer
<1>9. /\ results \in Seq(Result) /\ Len(results) = Len(before) + 1
      /\ DOMAIN results = 1 .. Len(before) + 1
      /\ DOMAIN before = 1 .. Len(before)
      /\ \A n \in 1 .. Len(before) : results[n] = before[n]
      /\ results[Len(before) + 1] = answer
  BY <1>2, <1>5
<1> HIDE DEF results
<1>10. Matched(commands, results)
  <2>1. Len(results) <= Len(commands)
    BY <1>4, <1>9
  <2>2. ASSUME NEW n \in DOMAIN results
        PROVE  /\ results[n].id = commands[n].id /\ (results[n].waited <=> Suspends(commands[n]))
               /\ commands[n].kind = "refused" => ~results[n].ok
    <3>1. CASE n = Len(before) + 1
      BY <1>3, <1>5, <1>9, <3>1 DEF Suspends
    <3>2. CASE n \in 1 .. Len(before)
      BY <1>3, <1>9, <3>2 DEF Matched
    <3> QED BY <1>4, <1>9, <3>1, <3>2
  <2> QED BY <2>1, <2>2 DEF Matched
<1>11. Len(results) + 1 = Len(before) + 2
  BY <1>4, <1>9
<1>12. \A i \in Ids : i \in Left(t) <=> i \in From(commands, Len(results) + 1)
  BY <1>6, <1>11
<1> QED BY <1>1, <1>2, <1>3, <1>8, <1>9, <1>10, <1>12, LoopStep

\* A cancelled execute drops what is ahead of it.
LEMMA CancelledStep ==
    ASSUME IInv, NEW t \in Users, ExecuteCancelled(t)
    PROVE  IInv'
<1>1. /\ dropped' = dropped \cup Left(t)
      /\ batch' = [batch EXCEPT ![t] = Nothing]
      /\ UNCHANGED <<buffer, queued, started, returned>>
  BY DEF ExecuteCancelled, Left
<1>2. TypeOK /\ Nothing \in Run /\ Nothing.commands = <<>> /\ Nothing.results = <<>>
  BY DEF IInv, Nothing, Run
<1>3. batch'[t] = Nothing /\ \A u \in Users : u # t => batch'[u] = batch[u]
  BY <1>1, <1>2 DEF TypeOK
<1>4. Left(t) \subseteq Ids
  <2>1. batch[t].commands \in Seq(Command) /\ batch[t].results \in Seq(Result)
    BY <1>2 DEF TypeOK, Run
  <2>2. \A n \in Len(batch[t].results) + 2 .. Len(batch[t].commands) :
            batch[t].commands[n] \in Command
    BY <2>1
  <2> QED BY <2>2 DEF Left, Command
<1>5. TypeOK'
  BY <1>1, <1>2, <1>4 DEF TypeOK
<1>6. Left(t)' = {}
  <2>1. Len(<<>>) + 2 .. Len(<<>>) = {}
    OBVIOUS
  <2> QED BY <1>2, <1>3, <2>1 DEF Left
<1>7. \A u \in Users : u # t => Left(u)' = Left(u)
  BY <1>3 DEF Left
<1>8. \A i \in Ids : Buffered(i)' <=> Buffered(i)
  BY <1>1 DEF Buffered
<1>9. ASSUME NEW i \in Ids PROVE Placed(i)'
  <2>1. Placed(i)
    BY DEF IInv
  <2> QED BY <1>1, <1>6, <1>7, <1>8, <2>1 DEF Placed
<1>10. ASSUME NEW u \in Users PROVE BatchOK(u)'
  BY <1>2, <1>3 DEF IInv, BatchOK, Executing
<1> QED BY <1>1, <1>5, <1>9, <1>10 DEF IInv

-----------------------------------------------------------------------------
(* The theorems *)

\* The invariant holds of every behaviour.
THEOREM PipelineInvariant == PipelineSpec => []IInv
<1>1. PipelineInit => IInv
  <2> SUFFICES ASSUME PipelineInit PROVE IInv
    OBVIOUS
  <2>1. Nothing \in Run /\ Nothing.commands = <<>> /\ Nothing.results = <<>>
    BY DEF Nothing, Run
  <2>2. TypeOK
    BY <2>1, PipelineAssumption DEF PipelineInit, TypeOK
  <2>3. \A t \in Users : ~Executing(t) /\ Left(t) = {}
    BY <2>1, <2>2, NothingLeft DEF PipelineInit, Executing
  <2>4. \A i \in Ids : i \in Nat /\ ~(i <= 0)
    BY DEF Ids
  <2>5. \A i \in Ids : Placed(i)
    BY <2>3, <2>4 DEF PipelineInit, Placed, Buffered
  <2>6. Distinct(buffer) /\ \A t \in Users : BatchOK(t) /\ InPlace(returned[t])
    BY <2>1, <2>3 DEF PipelineInit, Distinct, BatchOK, InPlace
  <2> QED BY <2>2, <2>5, <2>6 DEF IInv
<1>2. IInv /\ [PipelineNext]_pipeline => IInv'
  <2> SUFFICES ASSUME IInv, [PipelineNext]_pipeline PROVE IInv'
    OBVIOUS
  <2>1. CASE UNCHANGED pipeline
    <3>1. UNCHANGED <<buffer, batch, queued, started, dropped, returned>>
      BY <2>1 DEF pipeline
    <3>2. /\ \A t \in Users : Left(t)' = Left(t) /\ BatchOK(t)' = BatchOK(t)
          /\ \A i \in Ids : Buffered(i)' = Buffered(i)
      BY <3>1 DEF Left, BatchOK, Executing, Buffered
    <3>3. \A i \in Ids : Placed(i)'
      BY <3>1, <3>2 DEF IInv, Placed
    <3> QED BY <3>1, <3>2, <3>3 DEF IInv, TypeOK
  <2> QED BY <2>1, QueueStep, FastStep, SlowStep, AnswersStep, CancelledStep
          DEF PipelineNext, Step, Execute
<1> QED BY <1>1, <1>2, PTL DEF PipelineSpec

\* Every queued command is in the buffer, ahead in one batch, called once, or
\* dropped, and in no second place, however the tasks that share the pipeline
\* queue, execute and are cancelled while others are suspended in it.
THEOREM CommandsAreCalledOnce == PipelineSpec => []CalledOnce
<1>1. IInv => CalledOnce
  <2> SUFFICES ASSUME IInv, NEW i \in 1 .. queued
               PROVE  Cardinality({n \in DOMAIN buffer : buffer[n].id = i})
                        + Cardinality({t \in Users : i \in Left(t)})
                        + started[i]
                        + Cardinality(dropped \cap {i}) = 1
    BY DEF CalledOnce
  <2>1. i \in Ids /\ i <= queued
    BY PipelineAssumption DEF IInv, TypeOK, Ids
  <2>2. Placed(i) /\ buffer \in Seq(Command) /\ Distinct(buffer)
    BY <2>1 DEF IInv, TypeOK
  <2> DEFINE B == {n \in DOMAIN buffer : buffer[n].id = i}
             A == {t \in Users : i \in Left(t)}
             D == dropped \cap {i}
  <2>3. Cardinality(B) = IF Buffered(i) THEN 1 ELSE 0
    <3>1. DOMAIN buffer = 1 .. Len(buffer) /\ Len(buffer) \in Nat
      BY <2>2
    <3>2. 1 \in Nat /\ 1 >= 1 /\ Len(buffer) <= Len(buffer)
      BY <3>1
    <3>3. Cardinality({n \in 1 .. Len(buffer) : buffer[n].id = i})
             = IF \E n \in 1 .. Len(buffer) : buffer[n].id = i THEN 1 ELSE 0
      <4> HIDE DEF A, B, D
      <4> QED BY ONLY <2>1, <2>2, <3>1, <3>2, CalledCount
    <3> QED BY <3>1, <3>3 DEF Buffered
  <2>4. Cardinality(A) = IF \E t \in Users : i \in Left(t) THEN 1 ELSE 0
    <3>1. CASE A = {}
      BY <3>1, FS_EmptySet
    <3>2. ASSUME NEW t \in A PROVE A = {t} /\ Cardinality({t}) = 1
      BY <2>2, <3>2, FS_Singleton DEF Placed
    <3> QED BY <3>1, <3>2
  <2>5. Cardinality(D) = IF i \in dropped THEN 1 ELSE 0
    <3>1. D = IF i \in dropped THEN {i} ELSE {}
      OBVIOUS
    <3> QED BY <3>1, FS_EmptySet, FS_Singleton
  <2> HIDE DEF A, B, D
  <2>6. Cardinality(B) + Cardinality(A) + started[i] + Cardinality(D) = 1
    BY <2>1, <2>2, <2>3, <2>4, <2>5 DEF Placed
  <2> QED BY <2>6 DEF A, B, D
<1> QED BY <1>1, PipelineInvariant, PTL

\* An execute that comes to its end has one result for every command, at its place.
THEOREM ResultsAreInPlace == PipelineSpec => []ResultsInPlace
<1>1. IInv => ResultsInPlace
  BY DEF IInv, InPlace, HasBlocking, ResultsInPlace
<1> QED BY <1>1, PipelineInvariant, PTL
=============================================================================
