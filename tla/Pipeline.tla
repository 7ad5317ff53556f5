------------------------------ MODULE Pipeline ------------------------------
(* A Pipeline object (python/burner_redis/pipeline.py) used by several tasks:  *)
(* commands are queued, and execute() runs them by one call of                 *)
(* execute_pipeline (lib.rs), which does not suspend the task, or, when one of *)
(* them is BLPOP, BRPOP or BLMOVE, one by one, suspended in every command that *)
(* waits.  What a command does to the store is left to the other modules; the  *)
(* commands of one batch are not atomic for tokio tasks on either path.        *)
EXTENDS Sequences, Naturals, FiniteSets

CONSTANTS
    Users,          \* asyncio tasks that share the object
    Kinds,          \* the kinds of commands queued, a subset of AllKinds
    MaxCommands     \* bound on the commands ever queued

(* plain: answers at once.  stream: XREAD or XREADGROUP with BLOCK.  list:     *)
(* BLPOP, BRPOP or BLMOVE.  refused: one of those with arguments that raise    *)
(* before there is anything to wait for.                                       *)
AllKinds == {"plain", "stream", "list", "refused"}

Ids == 1..MaxCommands

ASSUME PipelineAssumption == Kinds \subseteq AllKinds /\ MaxCommands \in Nat

VARIABLES
    buffer,     \* self._commands
    batch,      \* batch[t]: the slow path of task t, <<>> when it is in none
    queued,     \* number of commands queued so far; the next id is queued + 1
    started,    \* started[i]: how often command i was called
    dropped,    \* commands a cancelled execute did not come to
    returned    \* returned[t]: commands and results of the last execute of t

pipeline == <<buffer, batch, queued, started, dropped, returned>>

Nothing == [commands |-> <<>>, results |-> <<>>]

PipelineInit ==
    /\ buffer = <<>>
    /\ batch = [t \in Users |-> Nothing]
    /\ queued = 0
    /\ started = [i \in Ids |-> 0]
    /\ dropped = {}
    /\ returned = [t \in Users |-> Nothing]

Executing(t) == batch[t].commands # <<>>

(* One of the methods that append to self._commands.                           *)
Queue(kind) ==
    /\ queued < MaxCommands
    /\ queued' = queued + 1
    /\ buffer' = Append(buffer, [id |-> queued + 1, kind |-> kind])
    /\ UNCHANGED <<batch, started, dropped, returned>>

HasBlocking(commands) ==
    \E i \in DOMAIN commands : commands[i].kind \in {"list", "refused"}

(* The command suspends the task that awaits it.                               *)
Suspends(command) == command.kind \in {"stream", "list"}

Answer(command, fails, waited) ==
    [id |-> command.id, ok |-> command.id \notin fails /\ command.kind # "refused",
     waited |-> waited]

Calls(commands, from, to) ==
    [i \in Ids |-> started[i] + Cardinality({n \in from..to : commands[n].id = i})]

ExecuteFastSkipsErrors(t, fails) ==
    /\ ~Executing(t)
    /\ buffer # <<>>
    /\ ~HasBlocking(buffer)
    /\ started' = Calls(buffer, 1, Len(buffer))
    /\ returned' = [returned EXCEPT ![t] =
         [commands |-> buffer,
          results |-> SelectSeq([n \in DOMAIN buffer |-> Answer(buffer[n], fails, FALSE)],
                                LAMBDA r : r.ok)]]
    /\ buffer' = <<>>
    /\ UNCHANGED <<batch, queued, dropped>>

(* The fast path: every command is called and answered, failed or not, before  *)
(* any other task runs; the block argument of a stream read is not looked at.  *)
ExecuteFast(t, fails) ==
    /\ ~Executing(t)
    /\ buffer # <<>>
    /\ ~HasBlocking(buffer)
    /\ started' = Calls(buffer, 1, Len(buffer))
    /\ returned' = [returned EXCEPT ![t] =
         [commands |-> buffer,
          results |-> [n \in DOMAIN buffer |-> Answer(buffer[n], fails, FALSE)]]]
    /\ buffer' = <<>>
    /\ UNCHANGED <<batch, queued, dropped>>

(* The loop of the slow path, entered with some results: it goes on to the     *)
(* next command that suspends, or to the end, whatever fails on the way.       *)
StopAt(commands, from) ==
    CHOOSE n \in from..Len(commands) + 1 :
        /\ n <= Len(commands) => Suspends(commands[n])
        /\ \A p \in from..n - 1 : ~Suspends(commands[p])

Loop(t, commands, results, fails) ==
    LET from == Len(results) + 1
        stop == StopAt(commands, from)
        more == results \o [n \in 1..stop - from |->
                    Answer(commands[from + n - 1], fails, FALSE)]
        over == stop > Len(commands)
        now  == [commands |-> commands, results |-> more]
    IN  /\ started' = Calls(commands, from, IF over THEN stop - 1 ELSE stop)
        /\ batch' = [batch EXCEPT ![t] = IF over THEN Nothing ELSE now]
        /\ returned' = [returned EXCEPT ![t] = IF over THEN now ELSE Nothing]

ExecuteSlowKeepsBuffer(t, fails) ==
    /\ ~Executing(t)
    /\ HasBlocking(buffer)
    /\ Loop(t, buffer, <<>>, fails)
    /\ UNCHANGED <<buffer, queued, dropped>>

(* The slow path takes the commands before it awaits the first one.            *)
ExecuteSlow(t, fails) ==
    /\ ~Executing(t)
    /\ HasBlocking(buffer)
    /\ Loop(t, buffer, <<>>, fails)
    /\ buffer' = <<>>
    /\ UNCHANGED <<queued, dropped>>

Awaited(t) == batch[t].commands[Len(batch[t].results) + 1]

(* The command that was awaited answers, with a value, nil or an error.        *)
Answers(t, fails) ==
    /\ Executing(t)
    /\ Loop(t, batch[t].commands,
            Append(batch[t].results, Answer(Awaited(t), fails, TRUE)), fails)
    /\ UNCHANGED <<buffer, queued, dropped>>

(* CancelledError is no Exception: it leaves the loop, and the commands that   *)
(* were not reached are gone with it.                                          *)
ExecuteCancelled(t) ==
    /\ Executing(t)
    /\ dropped' = dropped \cup
         {batch[t].commands[n].id : n \in Len(batch[t].results) + 2..Len(batch[t].commands)}
    /\ batch' = [batch EXCEPT ![t] = Nothing]
    /\ UNCHANGED <<buffer, queued, started, returned>>

Execute(t) == \E fails \in SUBSET Ids : ExecuteFast(t, fails) \/ ExecuteSlow(t, fails)

Step(t) == Execute(t) \/ (\E fails \in SUBSET Ids : Answers(t, fails)) \/ ExecuteCancelled(t)

PipelineNext ==
    \/ \E kind \in Kinds : Queue(kind)
    \/ \E t \in Users : Step(t)

PipelineSpec == PipelineInit /\ [][PipelineNext]_pipeline
-----------------------------------------------------------------------------
(* Commands that a suspended execute has not come to.                          *)
Left(t) ==
    {batch[t].commands[n].id : n \in Len(batch[t].results) + 2..Len(batch[t].commands)}

(* Every queued command is in one place, and only there: in the buffer, ahead  *)
(* in a batch, called once, or dropped by a cancellation, although tasks queue *)
(* and execute while others are suspended in the same object.                  *)
(* pipeline.py:46-111                                                          *)
CalledOnce ==
    \A i \in 1..queued :
        Cardinality({n \in DOMAIN buffer : buffer[n].id = i})
            + Cardinality({t \in Users : i \in Left(t)})
            + started[i]
            + Cardinality(dropped \cap {i}) = 1

(* An execute that comes to its end has one result for every command, at its   *)
(* place, an error for the one that was refused, whichever of them failed: "all commands execute regardless of        *)
(* individual failures" (pipeline.py:63).  BLPOP, BRPOP and BLMOVE were awaited *)
(* wherever they stood ("Blocking commands respect their per-command           *)
(* timeouts", pipeline.py:58); a stream read with BLOCK only next to one of    *)
(* those: the fast path never looks at block (lib.rs:3219, 3342).              *)
ResultsInPlace ==
    \A t \in Users :
        LET last == returned[t]
        IN  /\ Len(last.results) = Len(last.commands)
            /\ \A n \in DOMAIN last.results :
                   /\ last.results[n].id = last.commands[n].id
                   /\ last.commands[n].kind = "refused" => ~last.results[n].ok
                   /\ last.results[n].waited <=>
                         /\ Suspends(last.commands[n])
                         /\ \E m \in DOMAIN last.commands :
                                last.commands[m].kind \in {"list", "refused"}

=============================================================================
