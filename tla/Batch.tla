-------------------------------- MODULE Batch --------------------------------
(***************************************************************************)
(* Hub.batch (hub.py): operations run concurrently, each behind the        *)
(* batch's semaphore, an ordinary one on a thread of the event loop's      *)
(* default executor, one of an AsyncCapability on the loop itself.  With   *)
(* continue_on_error the batch gathers all of them; without it, it takes   *)
(* their results as they complete, up to the first failure, and leaves the *)
(* others to themselves.                                                   *)
(***************************************************************************)
EXTENDS Integers, FiniteSets, SequencesExt

CONSTANTS
    Total,           \* the operations are 1..Total, in the order given
    AsyncOps,        \* those on an AsyncCapability
    MaxConcurrent,   \* max_concurrent
    Workers,         \* threads of the default executor
    ResultClasses    \* the classes CommandResult may be, as in Command

ASSUME BatchAssumption ==
    /\ Total \in Nat
    /\ AsyncOps \subseteq 1..Total
    /\ MaxConcurrent \in Nat \ {0}
    /\ Workers \in Nat \ {0}
    /\ ResultClasses \subseteq {"complete", "imported"}

VARIABLES
    mode,       \* continue_on_error: "continue" or "stop"
    pc,         \* the batch
    at,         \* per operation: how far its task is
    permits,    \* the semaphore
    outcome,    \* per operation: what its task ends with
    completed,  \* the tasks that have ended, in this order
    results     \* the results list

vars == <<mode, pc, at, permits, outcome, completed, results>>

Ops == 1..Total
Places == {"waiting", "submitted", "running", "answered", "done"}

(* What a task ends with: a CommandResult; an exception, which the handler *)
(* could not make a CommandResult of; or whatever else the method returns, *)
(* as the read methods do.                                                 *)
Good == {"confirmed", "unconfirmed"}
CommandResults == Good \cup {"failed"}
Outcomes == CommandResults \cup {"exception", "plain"}

TypeOK ==
    /\ mode \in {"continue", "stop"}
    /\ pc \in {"running", "returned", "raised"}
    /\ at \in [Ops -> Places]
    /\ permits \in 0..MaxConcurrent
    /\ outcome \in [Ops -> Outcomes \cup {"none"}]
    /\ completed \in Seq(Ops)
    /\ results \in Seq(Outcomes)

Init ==
    /\ mode \in {"continue", "stop"}
    /\ pc = "running"
    /\ at = [o \in Ops |-> "waiting"]
    /\ permits = MaxConcurrent
    /\ outcome = [o \in Ops |-> "none"]
    /\ completed = <<>> /\ results = <<>>

AtPlace(place) == {o \in Ops : at[o] = place}
OnThread == AtPlace("running") \ AsyncOps
Holding == AtPlace("submitted") \cup AtPlace("running") \cup AtPlace("answered")

-----------------------------------------------------------------------------
MayPass(o) == TRUE  \* mutant: a semaphore of the operation's own
Permitted(o) == permits > 0

(* async with semaphore, and on to the executor or the coroutine. *)
Acquire(o) ==
    /\ at[o] = "waiting" /\ Permitted(o)
    /\ permits' = permits - 1
    /\ at' = [at EXCEPT ![o] = IF o \in AsyncOps THEN "running" ELSE "submitted"]
    /\ UNCHANGED <<mode, pc, outcome, completed, results>>

(* A free thread of the executor takes the call. *)
Work(o) ==
    /\ at[o] = "submitted"
    /\ Cardinality(OnThread) < Workers
    /\ at' = [at EXCEPT ![o] = "running"]
    /\ UNCHANGED <<mode, pc, permits, outcome, completed, results>>

(* The method has ended. *)
Answer(o, what) ==
    /\ at[o] = "running"
    /\ at' = [at EXCEPT ![o] = "answered"]
    /\ outcome' = [outcome EXCEPT ![o] = what]
    /\ UNCHANGED <<mode, pc, permits, completed, results>>

Returns(o) == \E what \in CommandResults \cup {"plain"} : Answer(o, what)

(* It has raised: the handler constructs a failed CommandResult, which the *)
(* class that is imported has not got all the fields for.                  *)
Raises(o) ==
    \/ "complete" \in ResultClasses /\ Answer(o, "failed")
    \/ "imported" \in ResultClasses /\ Answer(o, "exception")

KeepPermit(o) ==  \* mutant: the permit of a failed operation is not given back
    /\ at[o] = "answered"
    /\ at' = [at EXCEPT ![o] = "done"]
    /\ permits' = IF outcome[o] \in Good THEN permits + 1 ELSE permits
    /\ completed' = Append(completed, o)
    /\ UNCHANGED <<mode, pc, outcome, results>>

(* The task leaves the semaphore and ends. *)
Leave(o) ==
    /\ at[o] = "answered"
    /\ at' = [at EXCEPT ![o] = "done"]
    /\ permits' = permits + 1
    /\ completed' = Append(completed, o)
    /\ UNCHANGED <<mode, pc, outcome, results>>

-----------------------------------------------------------------------------
(* return_exceptions: an exception becomes a failed result. *)
Listed(what) == IF what = "exception" THEN "failed" ELSE what

Count(S) == Cardinality({i \in DOMAIN results : results[i] \in S})
successful == Count(Good)
failed == Len(results) - successful

(* The totals are taken of results that all have a success. *)
Summed(list) == IF "plain" \in ToSet(list) THEN "raised" ELSE "returned"

InOrder == [o \in Ops |-> Listed(outcome[o])]

(* gather: all the tasks have ended; the results are in the given order. *)
Gather ==
    /\ pc = "running" /\ mode = "continue"
    /\ \A o \in Ops : at[o] = "done"
    /\ results' = InOrder
    /\ pc' = Summed(results')
    /\ UNCHANGED <<mode, at, permits, outcome, completed>>

CollectOnwards ==  \* mutant: the loop is not broken
    LET next == Len(results) + 1
        what == outcome[completed[next]]
    IN  /\ pc = "running" /\ mode = "stop"
        /\ next \in DOMAIN completed
        /\ results' = IF what = "exception" THEN results ELSE Append(results, what)
        /\ pc' = IF what \in {"exception", "plain"} THEN "raised" ELSE "running"
        /\ UNCHANGED <<mode, at, permits, outcome, completed>>

(* as_completed: the next result; the first failure breaks the loop, an    *)
(* exception or a result without a success leaves batch.                   *)
Collect ==
    LET next == Len(results) + 1
        what == outcome[completed[next]]
    IN  /\ pc = "running" /\ mode = "stop"
        /\ next \in DOMAIN completed
        /\ results' = IF what = "exception" THEN results ELSE Append(results, what)
        /\ pc' = CASE what \in {"exception", "plain"} -> "raised"
                   [] what = "failed" -> "returned"
                   [] what \in Good -> "running"
        /\ UNCHANGED <<mode, at, permits, outcome, completed>>

(* There are no more. *)
Exhausted ==
    /\ pc = "running" /\ mode = "stop"
    /\ Len(results) = Total
    /\ pc' = "returned"
    /\ UNCHANGED <<mode, at, permits, outcome, completed, results>>

Task(o) == Acquire(o) \/ Work(o) \/ Returns(o) \/ Raises(o) \/ Leave(o)

Next == Gather \/ Collect \/ Exhausted \/ \E o \in Ops : Task(o)

(* The loop runs on, the executor's threads take what is submitted, and    *)
(* every method ends: what it calls has a timeout.                         *)
Spec == Init /\ [][Next]_vars /\ WF_vars(Next)

-----------------------------------------------------------------------------
(* "Max parallel operations": whatever tasks have ended or failed, and     *)
(* after the batch has left its others behind too, no more operations than *)
(* max_concurrent are under way, nor more threads at work than there are.  *)
WithinConcurrency ==
    /\ Cardinality(Holding) <= MaxConcurrent
    /\ Cardinality(OnThread) <= Workers

(* "Stop on first failure": a batch that stops has only its last result    *)
(* failed, and none failed only if every operation is reported.            *)
StopsAtFailure ==
    mode = "stop" /\ pc = "returned" =>
        /\ \A i \in 1..(Len(results) - 1) : results[i] \in Good
        /\ failed = 0 => Len(results) = Total

(* Every batch ends, even when operations raise, and so does every         *)
(* operation it left behind: each gets its permit and its thread.          *)
BatchEnds == <>(pc # "running" /\ \A o \in Ops : at[o] = "done")
=============================================================================
