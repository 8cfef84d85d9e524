----------------------- MODULE EventLoopProofs -----------------------
(***************************************************************************)
(* Proofs about what runs on the event loop: Batch, for any number of      *)
(* operations, ordinary and asynchronous, any max_concurrent and any number *)
(* of threads; and RuleEngine, for any number of rules, of actions and of  *)
(* tasks that start() creates.  The two are apart: no definition or lemma of *)
(* one is about the other.                                                 *)
(***************************************************************************)
EXTENDS Batch, RuleEngine, FiniteSetTheorems, SequenceTheorems, TLAPS

(* The tasks and the semaphore. *)
TaskTypes ==
    /\ at \in [Ops -> Places]
    /\ outcome \in [Ops -> Outcomes \cup {"none"}]
    /\ permits \in Nat
    /\ \A o \in Ops : at[o] \in {"answered", "done"} => outcome[o] # "none"

(* Each permit is in the semaphore or held, each thread at work or free. *)
Accounted ==
    /\ permits + Cardinality(Holding) = MaxConcurrent
    /\ Cardinality(OnThread) <= Workers

LEMMA FiniteOps ==
    /\ IsFiniteSet(Ops)
    /\ IsFiniteSet(Holding) /\ Cardinality(Holding) \in Nat
    /\ IsFiniteSet(OnThread) /\ Cardinality(OnThread) \in Nat
<1>1. IsFiniteSet(Ops)
  BY BatchAssumption, FS_Interval DEF Ops
<1>2. Holding \subseteq Ops /\ OnThread \subseteq Ops
  BY DEF Holding, OnThread, AtPlace
<1> QED
  BY <1>1, <1>2, FS_Subset, FS_CardinalityType

(* The steps of the batch itself leave the tasks alone. *)
LEMMA BatchLeavesTasks ==
    ASSUME Gather \/ Collect \/ Exhausted \/ UNCHANGED vars
    PROVE  UNCHANGED <<mode, at, permits, outcome, completed>>
  BY DEF Gather, Collect, Exhausted, vars

LEMMA TaskTypesStep ==
    ASSUME TaskTypes, Accounted, [Next]_vars
    PROVE  TaskTypes'
<1> USE DEF TaskTypes, Places
<1>1. CASE Gather \/ Collect \/ Exhausted \/ UNCHANGED vars
  BY <1>1, BatchLeavesTasks
<1>2. ASSUME NEW o \in Ops, Task(o) PROVE TaskTypes'
  <2>1. CASE Acquire(o)
    BY <2>1 DEF Acquire, Permitted
  <2>2. CASE Work(o)
    BY <2>2 DEF Work
  <2>3. ASSUME NEW what \in Outcomes, Answer(o, what) PROVE TaskTypes'
    BY <2>3 DEF Answer, Outcomes, CommandResults, Good
  <2>4. CASE Leave(o)
    BY <2>4 DEF Leave
  <2> QED
    BY <1>2, <2>1, <2>2, <2>3, <2>4 DEF Task, Returns, Raises, Outcomes, CommandResults
<1> QED
  BY <1>1, <1>2 DEF Next

LEMMA AccountedStep ==
    ASSUME TaskTypes, Accounted, [Next]_vars
    PROVE  Accounted'
<1>1. CASE Gather \/ Collect \/ Exhausted \/ UNCHANGED vars
  BY <1>1, BatchLeavesTasks DEF Accounted, Holding, OnThread, AtPlace
<1>2. ASSUME NEW o \in Ops, Task(o) PROVE Accounted'
  <2>1. CASE Acquire(o)
    <3>1. o \notin Holding /\ Holding' = Holding \cup {o}
      BY <2>1 DEF Acquire, TaskTypes, Holding, AtPlace
    <3>2. Cardinality(Holding') = Cardinality(Holding) + 1
      BY <3>1, FiniteOps, FS_AddElement
    <3>3. OnThread' = OnThread
      BY <2>1 DEF Acquire, TaskTypes, OnThread, AtPlace
    <3> QED
      BY <2>1, <3>2, <3>3, FiniteOps DEF Acquire, Accounted, TaskTypes
  <2>2. CASE Work(o)
    <3>1. Holding' = Holding
      BY <2>2 DEF Work, TaskTypes, Holding, AtPlace
    <3>2. OnThread' \subseteq OnThread \cup {o}
      BY <2>2 DEF Work, TaskTypes, OnThread, AtPlace
    <3>3. /\ IsFiniteSet(OnThread \cup {o})
          /\ Cardinality(OnThread \cup {o}) <= Cardinality(OnThread) + 1
      <4>1. /\ IsFiniteSet(OnThread \cup {o})
            /\ Cardinality(OnThread \cup {o}) \in
                 {Cardinality(OnThread), Cardinality(OnThread) + 1}
        BY FiniteOps, FS_AddElement
      <4> QED
        BY <4>1, FiniteOps
    <3>4. Cardinality(OnThread') <= Cardinality(OnThread \cup {o})
      BY <3>2, <3>3, FS_Subset
    <3>5. Cardinality(OnThread \cup {o}) \in Nat /\ Cardinality(OnThread') \in Nat
      BY <3>2, <3>3, FS_Subset, FS_CardinalityType
    <3> QED
      BY <2>2, <3>1, <3>3, <3>4, <3>5, FiniteOps, BatchAssumption
         DEF Work, Accounted, TaskTypes
  <2>3. ASSUME NEW what, Answer(o, what) PROVE Accounted'
    <3>1. Holding' = Holding /\ OnThread' \subseteq OnThread
      BY <2>3 DEF Answer, TaskTypes, Holding, OnThread, AtPlace
    <3>2. Cardinality(OnThread') <= Cardinality(OnThread) /\ Cardinality(OnThread') \in Nat
      BY <3>1, FiniteOps, FS_Subset, FS_CardinalityType
    <3> QED
      BY <2>3, <3>1, <3>2, FiniteOps, BatchAssumption DEF Answer, Accounted
  <2>4. CASE Leave(o)
    <3>1. o \in Holding /\ Holding' = Holding \ {o}
      BY <2>4 DEF Leave, TaskTypes, Holding, AtPlace
    <3>2. Cardinality(Holding') = Cardinality(Holding) - 1
      BY <3>1, FiniteOps, FS_RemoveElement
    <3>3. OnThread' = OnThread
      BY <2>4 DEF Leave, TaskTypes, OnThread, AtPlace
    <3> QED
      BY <2>4, <3>2, <3>3, FiniteOps DEF Leave, Accounted, TaskTypes
  <2> QED
    BY <1>2, <2>1, <2>2, <2>3, <2>4 DEF Task, Returns, Raises
<1> QED
  BY <1>1, <1>2 DEF Next

LEMMA TasksInvariant == Spec => [](TaskTypes /\ Accounted)
<1>1. Init => TaskTypes
  BY BatchAssumption DEF Init, TaskTypes, Places
<1>2. Init => Accounted
  <2>1. Init => Holding = {} /\ OnThread = {}
    BY DEF Init, Holding, OnThread, AtPlace
  <2>2. Cardinality({}) = 0
    BY FS_EmptySet
  <2>3. Init => permits = MaxConcurrent
    BY DEF Init
  <2> QED
    BY <2>1, <2>2, <2>3, BatchAssumption DEF Accounted
<1>3. TaskTypes /\ Accounted /\ [Next]_vars => (TaskTypes /\ Accounted)'
  BY TaskTypesStep, AccountedStep
<1> QED
  BY <1>1, <1>2, <1>3, PTL DEF Spec

(* Never more operations under way than max_concurrent, nor more calls at  *)
(* work than the executor has threads, whatever ends, fails or is left     *)
(* behind.                                                                 *)
THEOREM BatchWithinConcurrency == Spec => []WithinConcurrency
<1>1. TaskTypes /\ Accounted => WithinConcurrency
  BY FiniteOps, BatchAssumption DEF TaskTypes, Accounted, WithinConcurrency
<1> QED
  BY <1>1, TasksInvariant, PTL

-----------------------------------------------------------------------------
(* A batch that stops: the results so far, the last of a batch that has    *)
(* returned apart, are good ones; it has a bad one or all of them.         *)
Stopping ==
    /\ results \in Seq(Outcomes)
    /\ mode = "stop" /\ pc = "running" => \A i \in 1..Len(results) : results[i] \in Good
    /\ mode = "stop" /\ pc = "returned" =>
          /\ \A i \in 1..(Len(results) - 1) : results[i] \in Good
          /\ \/ \E i \in 1..Len(results) : results[i] \notin Good
             \/ Len(results) = Total

(* What has completed has ended. *)
CompletedEnded ==
    /\ completed \in Seq(Ops)
    /\ \A i \in 1..Len(completed) : at[completed[i]] = "done"

LEMMA CompletedEndedStep ==
    ASSUME TaskTypes, CompletedEnded, [Next]_vars
    PROVE  CompletedEnded'
<1>0. \A i \in 1..Len(completed) : completed[i] \in Ops
  BY ElementOfSeq DEF CompletedEnded
<1>1. CASE Gather \/ Collect \/ Exhausted \/ UNCHANGED vars
  BY <1>1, BatchLeavesTasks DEF CompletedEnded
<1>2. ASSUME NEW o \in Ops, Task(o) PROVE CompletedEnded'
  <2>1. CASE Leave(o)
    <3>1. /\ at' = [at EXCEPT ![o] = "done"]
          /\ completed' = Append(completed, o)
      BY <2>1 DEF Leave
    <3>2. /\ completed' \in Seq(Ops)
          /\ Len(completed) \in Nat /\ Len(completed') = Len(completed) + 1
          /\ \A i \in 1..Len(completed) : completed'[i] = completed[i]
          /\ completed'[Len(completed) + 1] = o
      BY <3>1, AppendProperties, LenProperties DEF CompletedEnded
    <3>3. \A i \in 1..Len(completed') : i \in 1..Len(completed) \/ i = Len(completed) + 1
      BY <3>2
    <3> QED
      BY <1>0, <3>1, <3>2, <3>3 DEF CompletedEnded, TaskTypes
  <2>2. CASE UNCHANGED completed /\ at[o] # "done" /\ \E p : at' = [at EXCEPT ![o] = p]
    BY <1>0, <2>2 DEF CompletedEnded, TaskTypes
  <2> QED
    BY <1>2, <2>1, <2>2 DEF Task, Acquire, Work, Returns, Raises, Answer
<1> QED
  BY <1>1, <1>2 DEF Next

LEMMA StoppingStep ==
    ASSUME TaskTypes, CompletedEnded, Stopping, [Next]_vars
    PROVE  Stopping'
<1>1. CASE Gather
  <2>1. \A o \in Ops : Listed(outcome[o]) \in Outcomes
    BY <1>1 DEF Gather, TaskTypes, Listed, Outcomes, CommandResults
  <2>2. InOrder \in Seq(Outcomes)
    BY <2>1, BatchAssumption, IsASeq DEF InOrder, Ops
  <2> QED
    BY <1>1, <2>2 DEF Gather, Stopping
<1>2. CASE Collect
  <2> DEFINE next == Len(results) + 1
             what == outcome[completed[next]]
  <2>1. next \in Nat /\ Len(results) \in Nat
    BY LenProperties DEF Stopping
  <2>2. what \in Outcomes
    <3>1. next \in 1..Len(completed)
      BY <1>2, LenProperties DEF Collect, CompletedEnded
    <3>2. completed[next] \in Ops /\ at[completed[next]] = "done"
      BY <3>1, ElementOfSeq DEF CompletedEnded
    <3> QED
      BY <3>2 DEF TaskTypes
  <2>3. UNCHANGED mode /\ mode = "stop" /\ pc = "running"
    BY <1>2 DEF Collect
  <2>4. CASE what = "exception"
    BY <1>2, <2>3, <2>4 DEF Collect, Stopping
  <2>5. CASE what # "exception"
    <3>1. results' = Append(results, what)
      BY <1>2, <2>5 DEF Collect
    <3>2. /\ results' \in Seq(Outcomes)
          /\ Len(results') = next
          /\ \A i \in 1..Len(results) : results'[i] = results[i]
          /\ results'[next] = what
      <4>1. PICK answer \in Outcomes : answer = what
        BY <2>2
      <4>2. results \in Seq(Outcomes) /\ results' = Append(results, answer)
        BY <3>1, <4>1 DEF Stopping
      <4> QED
        BY <4>1, <4>2, AppendProperties
    <3>3. \A i \in 1..(next - 1) : results'[i] \in Good
      BY <2>1, <2>3, <3>2 DEF Stopping
    <3>4. CASE what \in Good
      <4>1. pc' = "running"
        BY <1>2, <3>4 DEF Collect, Good
      <4> QED
        BY <2>1, <2>3, <3>2, <3>3, <3>4, <4>1 DEF Stopping
    <3>5. CASE what \notin Good
      <4>1. pc' \in {"returned", "raised"}
        BY <1>2, <2>2, <3>5 DEF Collect, Outcomes, CommandResults
      <4>2. next \in 1..Len(results') /\ results'[next] \notin Good
        BY <2>1, <3>2, <3>5
      <4> QED
        BY <2>3, <3>2, <3>3, <4>1, <4>2 DEF Stopping
    <3> QED
      BY <3>4, <3>5
  <2> QED
    BY <2>4, <2>5
<1>3. CASE Exhausted
  BY <1>3 DEF Exhausted, Stopping
<1>4. ASSUME NEW o \in Ops, Task(o) PROVE Stopping'
  <2>1. UNCHANGED <<mode, pc, results>>
    BY <1>4 DEF Task, Acquire, Work, Returns, Raises, Answer, Leave
  <2> QED
    BY <2>1 DEF Stopping
<1>5. CASE UNCHANGED vars
  BY <1>5 DEF vars, Stopping
<1> QED
  BY <1>1, <1>2, <1>3, <1>4, <1>5 DEF Next

LEMMA StoppingCounts ==
    ASSUME Stopping, mode = "stop", pc = "returned", failed = 0
    PROVE  Len(results) = Total
<1> DEFINE goods == {i \in DOMAIN results : results[i] \in Good}
<1>1. Len(results) \in Nat /\ DOMAIN results = 1..Len(results)
  BY LenProperties DEF Stopping
<1>2. IsFiniteSet(1..Len(results)) /\ Cardinality(1..Len(results)) = Len(results)
  <2> DEFINE n == Len(results)
  <2>1. n \in Int /\ (IF 1 > n THEN 0 ELSE n - 1 + 1) = n
    BY <1>1
  <2> HIDE DEF n
  <2>2. IsFiniteSet(1..n) /\ Cardinality(1..n) = n
    BY <2>1, FS_Interval
  <2> QED
    BY <2>2 DEF n
<1>3. goods \subseteq 1..Len(results) /\ Cardinality(goods) \in Nat
  BY <1>1, <1>2, FS_Subset, FS_CardinalityType
<1>4. Cardinality(goods) = Len(results)
  BY <1>1, <1>3 DEF failed, successful, Count
<1>5. goods = 1..Len(results)
  BY <1>2, <1>3, <1>4, FS_Subset
<1> QED
  BY <1>5 DEF Stopping

LEMMA StopsInvariant == Spec => [](TaskTypes /\ CompletedEnded /\ Stopping)
<1>1. <<>> \in Seq(Ops) /\ <<>> \in Seq(Outcomes) /\ Len(<<>>) = 0
  OBVIOUS
<1>2. Init => CompletedEnded
  BY <1>1 DEF Init, CompletedEnded
<1>3. Init => Stopping
  BY <1>1 DEF Init, Stopping
<1>4. TaskTypes /\ CompletedEnded /\ Stopping /\ [Next]_vars
        => CompletedEnded' /\ Stopping'
  BY CompletedEndedStep, StoppingStep
<1> QED
  BY <1>2, <1>3, <1>4, TasksInvariant, PTL DEF Spec

(* A batch told to stop has nothing but good results before its last, and  *)
(* reports no failure only if it reports every operation.                  *)
THEOREM BatchStopsAtFailure == Spec => []StopsAtFailure
<1>1. Stopping => StopsAtFailure
  BY StoppingCounts DEF Stopping, StopsAtFailure
<1> QED
  BY <1>1, StopsInvariant, PTL

(* Type correctness. *)
THEOREM BatchTypes == Spec => []TypeOK
<1> DEFINE Control == mode \in {"continue", "stop"} /\ pc \in {"running", "returned", "raised"}
<1>1. Init => Control
  BY DEF Init
<1>2. Control /\ TaskTypes /\ CompletedEnded /\ Stopping /\ [Next]_vars => Control'
  <2> SUFFICES ASSUME Control, TaskTypes, CompletedEnded, Stopping, [Next]_vars
               PROVE  Control'
    OBVIOUS
  <2>1. CASE Gather
    BY <2>1 DEF Gather, Summed
  <2>2. CASE Collect
    <3>1. outcome[completed[Len(results) + 1]] \in Outcomes
      <4>1. Len(results) + 1 \in 1..Len(completed)
        BY <2>2, LenProperties DEF Collect, CompletedEnded
      <4>2. /\ completed[Len(results) + 1] \in Ops
            /\ at[completed[Len(results) + 1]] = "done"
        BY <4>1, ElementOfSeq DEF CompletedEnded
      <4> QED
        BY <4>2 DEF TaskTypes
    <3> QED
      BY <2>2, <3>1 DEF Collect, Outcomes, CommandResults
  <2>3. CASE Exhausted \/ UNCHANGED vars \/ \E o \in Ops : Task(o)
    BY <2>3 DEF Exhausted, vars, Task, Acquire, Work, Returns, Raises, Answer, Leave
  <2> QED
    BY <2>1, <2>2, <2>3 DEF Next
<1>3. /\ Control /\ TaskTypes /\ Accounted /\ CompletedEnded /\ Stopping
      => TypeOK
  <2>1. TaskTypes /\ Accounted => permits \in 0..MaxConcurrent
    BY FiniteOps, BatchAssumption DEF TaskTypes, Accounted
  <2> QED
    BY <2>1 DEF TaskTypes, CompletedEnded, Stopping, TypeOK
<1> QED
  BY <1>1, <1>2, <1>3, TasksInvariant, StopsInvariant, PTL DEF Spec

-----------------------------------------------------------------------------
(* RuleEngine. *)

(* A task's turn, or its command's. *)
Turn(t) == Round(t) \/ EvaluatePolled(t) \/ Job(t)

LEMMA StepCases ==
    ASSUME [EngineNext]_engineVars
    PROVE  \/ add \/ start \/ stop \/ Expire \/ UNCHANGED engineVars
           \/ \E i \in Rules : remove(i)
           \/ \E t \in Tasks : Turn(t)
BY DEF EngineNext, LoopRuns, Turn

(* A command's thread has nothing to do with lists and rounds. *)
LEMMA JobLeavesRounds ==
    ASSUME NEW t, Job(t)
    PROVE  UNCHANGED <<watched, list, loop, round, phase>>
BY DEF Job, JobPolls, JobStores, JobSends, JobFails, JobConfirms, JobCaches, JobRaises,
       JobGoes, JobEnds, JobTurns

(* The tasks. *)
TasksTyped ==
    /\ task \in 0..MaxStarts /\ started \in 0..MaxStarts
    /\ phase \in [Tasks -> {"new", "visiting", "polling", "acting", "awaiting", "sleeping", "ended"}]
    /\ started > 0 => task \in Tasks

(* While no start() has come over a living task, only the last one may     *)
(* live; stop() has ended that one.                                        *)
LastAlone ==
    /\ ~doubled => \A t \in Tasks : t # task => phase[t] = "ended"
    /\ stopped => task \in Tasks /\ phase[task] = "ended"

(* A task that has ended takes no step, and no other step starts one. *)
LEMMA RoundLeavesTasks ==
    ASSUME TasksTyped, NEW t \in Tasks, Turn(t)
    PROVE  /\ UNCHANGED <<task, started, doubled, stopped>>
           /\ phase' \in [Tasks -> {"new", "visiting", "polling", "acting", "awaiting", "sleeping", "ended"}]
           /\ \A u \in Tasks : phase[u] = "ended" => phase'[u] = "ended"
<1> USE DEF TasksTyped, loop, round
<1>1. CASE Begin(t) \/ Sleep(t)
  BY <1>1 DEF Begin, Sleep, RoundOf
<1>2. CASE Skip(t) \/ Evaluate(t) \/ Raise(t)
  BY <1>2 DEF Skip, Evaluate, Raise, Comes, Follow
<1>7. CASE Poll(t) \/ EvaluatePolled(t)
  BY <1>7 DEF Poll, Comes, EvaluatePolled, Follow
<1>3. CASE Wake(t)
  BY <1>3 DEF Wake, RoundOf
<1>4. CASE Fault(t) \/ Acted(t)
  BY <1>4 DEF Fault, Acted, Done
<1>5. ASSUME NEW order \in watched.orders, Act(t, order)
      PROVE  /\ UNCHANGED <<task, started, doubled, stopped>>
             /\ phase' \in [Tasks -> {"new", "visiting", "polling", "acting", "awaiting", "sleeping", "ended"}]
             /\ \A u \in Tasks : phase[u] = "ended" => phase'[u] = "ended"
  BY <1>5 DEF Act
<1>6. CASE Job(t)
  BY <1>6, JobLeavesRounds
<1> QED
  BY <1>1, <1>2, <1>3, <1>4, <1>5, <1>6, <1>7 DEF Turn, Round

LEMMA TasksStep ==
    ASSUME TasksTyped, LastAlone, [EngineNext]_engineVars
    PROVE  TasksTyped' /\ LastAlone'
<1> USE RuleAssumption DEF TasksTyped, LastAlone, Tasks, loop, RuleAssumption
<1>1. CASE add \/ Expire \/ UNCHANGED engineVars
  BY <1>1 DEF add, Expire, engineVars
<1>2. ASSUME NEW i \in Rules, remove(i) PROVE TasksTyped' /\ LastAlone'
  BY <1>2 DEF remove
<1>3. CASE start
  <2>1. /\ started < MaxStarts /\ started' = started + 1 /\ task' = started + 1 /\ ~stopped'
        /\ phase' = [phase EXCEPT ![started + 1] = "new"]
    BY <1>3 DEF start
  <2>2. ~doubled' => \A t \in Tasks : phase[t] = "ended"
    BY <1>3 DEF start, Alive
  <2>3. TasksTyped'
    BY <2>1
  <2> QED
    BY <2>1, <2>2, <2>3
<1>4. CASE stop
  <2>1. /\ started > 0 /\ UNCHANGED <<task, started, doubled>>
        /\ phase' = [phase EXCEPT ![task] = "ended"]
    BY <1>4 DEF stop, RoundOf
  <2> QED
    BY <2>1
<1>5. ASSUME NEW t \in Tasks, Turn(t) PROVE TasksTyped' /\ LastAlone'
  BY <1>5, RoundLeavesTasks
<1> QED
  BY <1>1, <1>2, <1>3, <1>4, <1>5, StepCases

LEMMA TasksAloneInvariant == EngineSpec => [](TasksTyped /\ LastAlone)
<1>1. EngineInit => TasksTyped /\ LastAlone
  BY RuleAssumption DEF EngineInit, TasksTyped, LastAlone, RuleAssumption
<1>2. TasksTyped /\ LastAlone /\ [EngineNext]_engineVars => TasksTyped' /\ LastAlone'
  BY TasksStep
<1> QED
  BY <1>1, <1>2, PTL DEF EngineSpec

(* After stop() no task is left to evaluate a rule, wherever each was. *)
THEOREM RuleEngineStopEnds == EngineSpec => []StopEnds
<1>1. TasksTyped /\ LastAlone => StopEnds
  BY DEF LastAlone, StopEnds, Alive
<1> QED
  BY <1>1, TasksAloneInvariant, PTL

-----------------------------------------------------------------------------
(* Types of what commands and conditions read and cache. *)
StatesTyped ==
    /\ watched \in Watching
    /\ entry \in Entries /\ hand \in [Tasks -> Entries] /\ reported \subseteq Values
    /\ running \in BOOLEAN /\ doubled \in BOOLEAN /\ stopped \in BOOLEAN
    /\ job \in [Tasks -> Jobs]

LEMMA EntryTypes ==
    /\ NoEntry \in Entries /\ [from |-> "nothing", value |-> "default"] \in Entries
    /\ \A value \in Values : /\ [from |-> "poll", value |-> value] \in Entries
                             /\ [from |-> "command", value |-> value] \in Entries
    /\ \A state \in Entries : state.value \in Values
    /\ NoJob \in Jobs /\ Ended \in Jobs
BY DEF Entries, NoEntry, Values, Jobs, NoJob, Ended

LEMMA StatesInit == EngineInit => StatesTyped
BY EntryTypes DEF EngineInit, StatesTyped

(* The steps between the device and the cache. *)
LEMMA CacheTypes ==
    ASSUME StatesTyped, NEW t \in Tasks,
           \/ UNCHANGED <<entry, hand, reported>>
           \/ Polls(t) \/ Stores(t, hand[t])
           \/ \E value \in Values : /\ Answered(t, [from |-> "command", value |-> value])
                                    /\ UNCHANGED entry
           \/ hand' = [hand EXCEPT ![t] = NoEntry] /\ UNCHANGED <<entry, reported>>
    PROVE  entry' \in Entries /\ hand' \in [Tasks -> Entries] /\ reported' \subseteq Values
<1> USE EntryTypes DEF StatesTyped
<1>1. CASE UNCHANGED <<entry, hand, reported>>
  BY <1>1
<1>2. CASE Polls(t)
  BY <1>2 DEF Polls, Answered
<1>3. CASE Stores(t, hand[t])
  <2>1. hand[t] \in Entries /\ Answers(hand[t]) \subseteq Values
    BY DEF Answers
  <2> QED
    BY <1>3, <2>1 DEF Stores, Dates
<1>4. ASSUME NEW value \in Values, Answered(t, [from |-> "command", value |-> value]),
             UNCHANGED entry
      PROVE  entry' \in Entries /\ hand' \in [Tasks -> Entries] /\ reported' \subseteq Values
  BY <1>4 DEF Answered
<1>5. CASE hand' = [hand EXCEPT ![t] = NoEntry] /\ UNCHANGED <<entry, reported>>
  BY <1>5
<1> QED
  BY <1>1, <1>2, <1>3, <1>4, <1>5

LEMMA JobTypes ==
    ASSUME StatesTyped, NEW t \in Tasks, Job(t)
    PROVE  job' \in [Tasks -> Jobs]
<1>1. ASSUME NEW from, NEW next \in Jobs, JobTurns(t, from, next) PROVE job' \in [Tasks -> Jobs]
  BY <1>1 DEF JobTurns, StatesTyped
<1>2. \A to \in {"storing", "confirming", "caching"} : [at |-> to, order |-> job[t].order] \in Jobs
  BY DEF StatesTyped, Jobs
<1>3. Ended \in Jobs
  BY EntryTypes
<1>4. CASE JobPolls(t) \/ JobStores(t) \/ JobSends(t) \/ JobConfirms(t)
  BY <1>1, <1>2, <1>4 DEF JobPolls, JobStores, JobSends, JobConfirms, JobGoes
<1>5. CASE JobFails(t) \/ JobCaches(t) \/ JobRaises(t)
  BY <1>1, <1>3, <1>5 DEF JobFails, JobCaches, JobRaises, JobEnds
<1> QED
  BY <1>4, <1>5 DEF Job

LEMMA StatesStep ==
    ASSUME StatesTyped, [EngineNext]_engineVars
    PROVE  StatesTyped'
<1> USE RuleAssumption DEF StatesTyped, RuleAssumption, capability, loop
<1>1. CASE add \/ start \/ UNCHANGED engineVars
  BY <1>1 DEF add, start, engineVars, Alive
<1>2. ASSUME NEW i \in Rules, remove(i) PROVE StatesTyped'
  BY <1>2 DEF remove
<1>3. CASE stop
  BY <1>3, EntryTypes DEF stop
<1>4. CASE Expire
  BY <1>4, EntryTypes DEF Expire, Dates
<1>5. ASSUME NEW t \in Tasks, Turn(t) PROVE StatesTyped'
  <2>1. CASE \/ Begin(t) \/ Skip(t) \/ Evaluate(t) \/ Raise(t) \/ Sleep(t) \/ Wake(t)
             \/ Fault(t)
    BY <2>1 DEF Begin, Skip, Evaluate, Raise, Sleep, Wake, Fault
  <2>2. CASE Poll(t) \/ EvaluatePolled(t)
    BY <2>2, CacheTypes DEF Poll, EvaluatePolled
  <2>3. ASSUME NEW order \in watched.orders, Act(t, order) PROVE StatesTyped'
    <3>1. order \in Values \cup {None, Unmet}
      BY ProfilesTyped
    <3>2. [at |-> "reading", order |-> order] \in Jobs
      BY <3>1 DEF Jobs
    <3> QED
      BY <2>3, <3>2 DEF Act
  <2>4. CASE Acted(t)
    BY <2>4, EntryTypes DEF Acted
  <2>5. CASE Job(t)
    <3>1. entry' \in Entries /\ hand' \in [Tasks -> Entries] /\ reported' \subseteq Values
      BY <2>5, CacheTypes DEF Job, JobPolls, JobStores, JobSends, JobFails, JobConfirms,
                              JobCaches, JobRaises, Confirmed
    <3> QED
      BY <2>5, <3>1, JobTypes, JobLeavesRounds
  <2> QED
    BY <1>5, <2>1, <2>2, <2>3, <2>4, <2>5 DEF Turn, Round
<1> QED
  BY <1>1, <1>2, <1>3, <1>4, <1>5, StepCases

(* A task that polls has no command under way, and a task to come neither. *)
Jobless ==
    \A t \in Tasks :
        /\ phase[t] \notin {"awaiting", "ended"} => job[t] = NoJob
        /\ t > started => job[t] = NoJob /\ phase[t] = "ended"

(* A state, but one that was made up, in the cache or on its way to it has *)
(* the value of an answer that may be the latest.                          *)
Backed(state) == state = NoEntry \/ state.from = "nothing" \/ state.value \in reported
Evidence ==
    /\ Backed(entry) /\ \A t \in Tasks : Backed(hand[t])
    /\ \A t \in Tasks : phase[t] = "polling" => hand[t] # NoEntry

LEMMA JoblessStep ==
    ASSUME TasksTyped, StatesTyped, Jobless, [EngineNext]_engineVars
    PROVE  Jobless'
<1> USE DEF TasksTyped, StatesTyped, Jobless
<1>1. CASE add \/ Expire \/ UNCHANGED engineVars \/ \E i \in Rules : remove(i)
  BY <1>1 DEF add, Expire, engineVars, remove, loop
<1>2. CASE start
  <2>1. /\ started < MaxStarts /\ started' = started + 1
        /\ phase' = [phase EXCEPT ![started + 1] = "new"] /\ UNCHANGED job
    BY <1>2 DEF start
  <2>2. started + 1 \in Tasks
    BY <2>1, RuleAssumption DEF Tasks, RuleAssumption
  <2>3. job[started + 1] = NoJob
    BY <2>2
  <2> QED
    BY <2>1, <2>2, <2>3 DEF Tasks
<1>3. CASE stop
  <2>1. /\ task \in Tasks /\ UNCHANGED started /\ phase' = [phase EXCEPT ![task] = "ended"]
        /\ job' = job \/ job' = [job EXCEPT ![task] = NoJob]
    BY <1>3 DEF stop, RoundOf
  <2>2. \A u \in Tasks : u # task => phase'[u] = phase[u] /\ job'[u] = job[u]
    BY <2>1
  <2>3. phase'[task] = "ended" /\ (job'[task] = job[task] \/ job'[task] = NoJob)
    BY <2>1
  <2> QED
    BY <2>1, <2>2, <2>3
<1>4. ASSUME NEW t \in Tasks, Turn(t) PROVE Jobless'
  <2>1. UNCHANGED started /\ \A u \in Tasks : phase[u] = "ended" => phase'[u] = "ended"
    BY <1>4, RoundLeavesTasks
  <2>2. ASSUME phase[t] \notin {"awaiting", "ended"}, UNCHANGED job,
               \A u \in Tasks \ {t} : phase'[u] = phase[u]
        PROVE  Jobless'
    BY <2>1, <2>2
  <2>3. CASE Begin(t) \/ Sleep(t) \/ Wake(t)
    BY <2>2, <2>3 DEF Begin, Sleep, Wake, RoundOf
  <2>4. CASE Skip(t) \/ Evaluate(t) \/ Poll(t) \/ Raise(t)
    BY <2>2, <2>4 DEF Skip, Evaluate, Poll, Raise, Comes, Follow
  <2>5. CASE EvaluatePolled(t) \/ Fault(t)
    BY <2>2, <2>5 DEF EvaluatePolled, Follow, Fault, Done
  <2>6. ASSUME NEW order \in watched.orders, Act(t, order) PROVE Jobless'
    <3>1. /\ phase[t] = "acting" /\ phase' = [phase EXCEPT ![t] = "awaiting"]
          /\ \A u \in Tasks \ {t} : job'[u] = job[u]
      BY <2>6 DEF Act
    <3> QED
      BY <2>1, <3>1
  <2>7. CASE Acted(t)
    <3>1. /\ phase[t] = "awaiting" /\ job'[t] = NoJob
          /\ \A u \in Tasks \ {t} : job'[u] = job[u] /\ phase'[u] = phase[u]
      BY <2>7 DEF Acted, Done
    <3> QED
      BY <2>1, <3>1
  <2>8. CASE Job(t)
    <3>1. job[t] # NoJob /\ \A u \in Tasks \ {t} : job'[u] = job[u]
      BY <2>8 DEF Job, JobPolls, JobStores, JobSends, JobFails, JobConfirms, JobCaches,
                  JobRaises, JobGoes, JobEnds, JobTurns, NoJob, None
    <3>2. phase[t] \in {"awaiting", "ended"} /\ ~(t > started)
      BY <3>1
    <3> QED
      BY <2>1, <2>8, <3>1, <3>2, JobLeavesRounds
  <2> QED
    BY <1>4, <2>3, <2>4, <2>5, <2>6, <2>7, <2>8 DEF Turn, Round
<1> QED
  BY <1>1, <1>2, <1>3, <1>4, StepCases

(* A command at work is not that of a task that polls. *)
LEMMA JobNotPolling ==
    ASSUME Jobless, NEW t \in Tasks, Job(t)
    PROVE  phase[t] # "polling"
BY DEF Jobless, Job, JobPolls, JobStores, JobSends, JobFails, JobConfirms, JobCaches,
       JobRaises, JobGoes, JobEnds, JobTurns, NoJob, None

(* An answer comes in. *)
LEMMA AnsweredEvidence ==
    ASSUME StatesTyped, Evidence, NEW t \in Tasks, NEW state, Answered(t, state), UNCHANGED entry
    PROVE  /\ Backed(entry)' /\ (\A u \in Tasks : Backed(hand[u])') /\ hand'[t] = state
           /\ \A u \in Tasks \ {t} : hand'[u] = hand[u]
<1>1. /\ hand'[t] = state /\ \A u \in Tasks \ {t} : hand'[u] = hand[u]
      /\ reported' = reported \cup {state.value}
  BY DEF Answered, StatesTyped
<1> QED
  BY <1>1 DEF Evidence, Backed

LEMMA PollsEvidence ==
    ASSUME StatesTyped, Evidence, NEW t \in Tasks, Polls(t)
    PROVE  /\ Backed(entry)' /\ (\A u \in Tasks : Backed(hand[u])') /\ hand'[t] # NoEntry
           /\ \A u \in Tasks \ {t} : hand'[u] = hand[u]
<1>1. ASSUME NEW value \in Values, Answered(t, [from |-> "poll", value |-> value]), UNCHANGED entry
      PROVE  /\ Backed(entry)' /\ (\A u \in Tasks : Backed(hand[u])') /\ hand'[t] # NoEntry
             /\ \A u \in Tasks \ {t} : hand'[u] = hand[u]
  BY <1>1, AnsweredEvidence DEF NoEntry, None
<1>2. CASE /\ hand' = [hand EXCEPT ![t] = [from |-> "nothing", value |-> "default"]]
           /\ UNCHANGED <<entry, reported>>
  <2>1. /\ hand'[t] = [from |-> "nothing", value |-> "default"]
        /\ \A u \in Tasks \ {t} : hand'[u] = hand[u]
    BY <1>2 DEF StatesTyped
  <2> QED
    BY <1>2, <2>1 DEF Evidence, Backed, NoEntry, None
<1> QED
  BY <1>1, <1>2 DEF Polls

(* A state comes to the cache. *)
LEMMA StoresEvidence ==
    ASSUME StatesTyped, Evidence, NEW t \in Tasks, Stores(t, hand[t])
    PROVE  /\ Backed(entry)' /\ (\A u \in Tasks : Backed(hand[u])') /\ entry' = hand[t]
           /\ \A u \in Tasks \ {t} : hand'[u] = hand[u]
<1>1. /\ entry' = hand[t] /\ hand'[t] = NoEntry /\ \A u \in Tasks \ {t} : hand'[u] = hand[u]
  BY DEF Stores, StatesTyped
<1>2. CASE \A u \in Tasks \ {t} : hand[u] = NoEntry
  <2>1. reported' = Answers(hand[t])
    BY <1>2 DEF Stores, Dates
  <2> QED
    BY <1>1, <1>2, <2>1 DEF Backed, Answers
<1>3. CASE ~ \A u \in Tasks \ {t} : hand[u] = NoEntry
  <2>1. reported' = reported
    BY <1>3 DEF Stores, Dates
  <2> QED
    BY <1>1, <2>1 DEF Evidence, Backed
<1> QED
  BY <1>2, <1>3

LEMMA EvidenceStep ==
    ASSUME TasksTyped, StatesTyped, Jobless, Evidence, [EngineNext]_engineVars
    PROVE  Evidence'
<1>1. ASSUME UNCHANGED <<entry, hand, reported>>,
             \A u \in Tasks : phase'[u] = "polling" => phase[u] = "polling"
      PROVE  Evidence'
  BY <1>1 DEF Evidence, Backed
<1>2. CASE add \/ UNCHANGED engineVars \/ \E i \in Rules : remove(i)
  BY <1>1, <1>2 DEF add, engineVars, remove, capability
<1>3. CASE start \/ stop
  BY <1>1, <1>3 DEF start, stop, RoundOf, capability, TasksTyped
<1>4. CASE Expire
  <2>1. entry' = NoEntry /\ UNCHANGED <<hand, phase>>
    BY <1>4 DEF Expire
  <2>2. (\A u \in Tasks : hand[u] = NoEntry) \/ reported' = reported
    BY <1>4 DEF Expire, Dates
  <2> QED
    BY <2>1, <2>2 DEF Evidence, Backed
<1>5. ASSUME NEW t \in Tasks, Turn(t) PROVE Evidence'
  <2>1. CASE Begin(t) \/ Sleep(t) \/ Wake(t)
    BY <1>1, <2>1 DEF Begin, Sleep, Wake, RoundOf, capability, TasksTyped
  <2>2. CASE Skip(t) \/ Evaluate(t) \/ Raise(t)
    BY <1>1, <2>2 DEF Skip, Evaluate, Raise, Follow, capability, TasksTyped
  <2>3. CASE Fault(t) \/ Acted(t)
    BY <1>1, <2>3 DEF Fault, Acted, Done, capability, TasksTyped
  <2>4. ASSUME NEW order \in watched.orders, Act(t, order) PROVE Evidence'
    BY <1>1, <2>4 DEF Act, capability, TasksTyped
  <2>5. CASE Poll(t)
    <3>1. Polls(t) /\ \A u \in Tasks \ {t} : phase'[u] = phase[u]
      BY <2>5 DEF Poll, TasksTyped
    <3> QED
      BY <3>1, PollsEvidence DEF Evidence
  <2>6. CASE EvaluatePolled(t)
    <3>1. Stores(t, hand[t]) /\ phase'[t] # "polling" /\ \A u \in Tasks \ {t} : phase'[u] = phase[u]
      BY <2>6 DEF EvaluatePolled, Follow, TasksTyped
    <3> QED
      BY <3>1, StoresEvidence DEF Evidence
  <2>7. CASE Job(t)
    <3>1. phase[t] # "polling" /\ UNCHANGED phase
      BY <2>7, JobNotPolling, JobLeavesRounds
    <3>2. CASE JobSends(t) \/ JobFails(t)
      BY <1>1, <3>1, <3>2 DEF JobSends, JobFails
    <3>3. CASE JobPolls(t)
      BY <3>1, <3>3, PollsEvidence DEF JobPolls, Evidence
    <3>4. CASE JobStores(t) \/ JobCaches(t)
      BY <3>1, <3>4, StoresEvidence DEF JobStores, JobCaches, Confirmed, Evidence
    <3>5. CASE JobConfirms(t)
      BY <3>1, <3>5, AnsweredEvidence DEF JobConfirms, Evidence
    <3>6. CASE JobRaises(t)
      <4>1. UNCHANGED <<entry, reported>> /\ hand'[t] = NoEntry
            /\ \A u \in Tasks \ {t} : hand'[u] = hand[u]
        BY <3>6 DEF JobRaises, StatesTyped
      <4> QED
        BY <3>1, <4>1 DEF Evidence, Backed
    <3> QED
      BY <2>7, <3>2, <3>3, <3>4, <3>5, <3>6 DEF Job
  <2> QED
    BY <1>5, <2>1, <2>2, <2>3, <2>4, <2>5, <2>6, <2>7 DEF Turn, Round
<1> QED
  BY <1>2, <1>3, <1>4, <1>5, StepCases

(* A rule's condition is evaluated on the value of an answer that may be   *)
(* the latest, whatever commands are caching their answers meanwhile.      *)
THEOREM RuleEngineFiresOnEvidence == EngineSpec => FiresOnEvidence
<1>1. EngineInit => Jobless /\ Evidence
  BY DEF EngineInit, Jobless, Evidence, Backed
<1>2. StatesTyped /\ [EngineNext]_engineVars => StatesTyped'
  BY StatesStep
<1>3. TasksTyped /\ StatesTyped /\ Jobless /\ Evidence /\ [EngineNext]_engineVars
        => Jobless' /\ Evidence'
  BY JoblessStep, EvidenceStep
<1>4. StatesTyped /\ Evidence /\ [EngineNext]_engineVars =>
        [\A t \in Tasks : (Evaluate(t) \/ EvaluatePolled(t)) /\ ~watched.renamed =>
            entry'.from = "nothing" \/ Found(entry') \in reported']_engineVars
  <2> SUFFICES ASSUME StatesTyped, Evidence, NEW t \in Tasks, Evaluate(t) \/ EvaluatePolled(t),
                      ~watched.renamed
               PROVE  entry'.from = "nothing" \/ Found(entry') \in reported'
    OBVIOUS
  <2>1. UNCHANGED watched
    BY DEF Evaluate, EvaluatePolled, capability
  <2>2. Found(entry') = entry'.value
    BY <2>1 DEF Found
  <2>3. CASE Evaluate(t)
    BY <2>2, <2>3 DEF Evaluate, capability, Evidence, Backed
  <2>4. CASE EvaluatePolled(t)
    <3>1. Backed(entry)' /\ entry' = hand[t] /\ hand[t] # NoEntry
      BY <2>4, StoresEvidence DEF EvaluatePolled, Evidence
    <3> QED
      BY <2>2, <3>1 DEF Backed
  <2> QED
    BY <2>3, <2>4
<1> QED
  BY <1>1, <1>2, <1>3, <1>4, StatesInit, TasksAloneInvariant, PTL DEF EngineSpec, FiresOnEvidence
-----------------------------------------------------------------------------
(* The list without one of its rules. *)
LEMMA RemoveAtProperties ==
    ASSUME NEW S, NEW s \in Seq(S), NEW i \in 1..Len(s)
    PROVE  /\ RemoveAt(s, i) \in Seq(S)
           /\ Len(RemoveAt(s, i)) = Len(s) - 1
           /\ \A j \in 1..(Len(s) - 1) : RemoveAt(s, i)[j] = IF j < i THEN s[j] ELSE s[j + 1]
<1> DEFINE a == SubSeq(s, 1, i - 1)
           b == SubSeq(s, i + 1, Len(s))
<1>1. /\ a \in Seq(S) /\ Len(a) = i - 1 /\ \A j \in 1..(i - 1) : a[j] = s[j]
      /\ b \in Seq(S) /\ Len(b) = Len(s) - i /\ \A j \in 1..(Len(s) - i) : b[j] = s[i + j]
  <2>1. Len(s) \in Nat /\ \A j \in 1..Len(s) : s[j] \in S
    BY LenProperties, ElementOfSeq
  <2>2. /\ a \in Seq(S) /\ Len(a) = i - 1 /\ \A j \in 1..(i - 1) : a[j] = s[j]
    BY <2>1, SubSeqProperties
  <2>3. /\ b \in Seq(S) /\ Len(b) = Len(s) - i /\ \A j \in 1..(Len(s) - i) : b[j] = s[i + j]
    BY <2>1, SubSeqProperties
  <2> QED
    BY <2>2, <2>3
<1>2. RemoveAt(s, i) = a \o b
  BY DEF RemoveAt
<1> HIDE DEF a, b
<1>3. /\ a \o b \in Seq(S) /\ Len(a \o b) = Len(a) + Len(b)
      /\ \A j \in 1..(Len(a) + Len(b)) : (a \o b)[j] = IF j <= Len(a) THEN a[j] ELSE b[j - Len(a)]
  BY <1>1, ConcatProperties
<1>4. Len(s) \in Nat
  BY LenProperties
<1>5. ASSUME NEW j \in 1..(Len(s) - 1)
      PROVE  (a \o b)[j] = IF j < i THEN s[j] ELSE s[j + 1]
  <2>1. CASE j < i
    BY <1>1, <1>3, <1>4, <2>1
  <2>2. CASE j >= i
    <3>1. (a \o b)[j] = b[j - (i - 1)] /\ j - (i - 1) \in 1..(Len(s) - i)
      BY <1>1, <1>3, <1>4, <2>2
    <3>2. b[j - (i - 1)] = s[i + (j - (i - 1))]
      BY <1>1, <3>1
    <3> QED
      BY <1>4, <2>2, <3>1, <3>2
  <2>3. j < i \/ j >= i
    BY <1>4
  <2> QED
    BY <2>1, <2>2, <2>3
<1>6. a \o b \in Seq(S) /\ Len(a \o b) = Len(s) - 1
  BY <1>1, <1>3, <1>4
<1>7. \A j \in 1..(Len(s) - 1) : (a \o b)[j] = IF j < i THEN s[j] ELSE s[j + 1]
  BY <1>5
<1> QED
  BY <1>2, <1>6, <1>7
-----------------------------------------------------------------------------
RoundsTyped ==
    /\ rules \in Seq(Rules) /\ added \in 0..MaxRules
    /\ index \in [Tasks -> Nat \ {0}] /\ visited \in [Tasks -> Seq(Rules)]
    /\ disturbed \in [Tasks -> BOOLEAN]
    /\ phase \in [Tasks -> {"new", "visiting", "polling", "acting", "awaiting", "sleeping", "ended"}]

(* A round that no removal has disturbed has come to the rules before its  *)
(* position in the list, in their order.                                   *)
InRound(t) == phase[t] \in {"visiting", "polling", "acting", "awaiting"}
VisitedSoFar(t) ==
    /\ index[t] <= Len(rules) + 1
    /\ Len(visited[t]) = index[t] - 1
    /\ \A i \in 1..(index[t] - 1) : visited[t][i] = rules[i]
Undisturbed == \A t \in Tasks : InRound(t) /\ ~disturbed[t] => VisitedSoFar(t)

RoundInv == RoundsTyped /\ Undisturbed

(* A round begins, or a task is between two rounds. *)
LEMMA RoundOfStep ==
    ASSUME RoundInv, NEW t, RoundOf(t, "visiting") \/ RoundOf(t, "sleeping") \/ RoundOf(t, "ended"),
           UNCHANGED list
    PROVE  RoundInv'
<1> USE DEF RoundInv, RoundsTyped, RoundOf, list
<1>1. /\ index' \in [Tasks -> Nat \ {0}] /\ disturbed' \in [Tasks -> BOOLEAN]
      /\ phase' \in [Tasks -> {"new", "visiting", "polling", "acting", "awaiting", "sleeping", "ended"}]
  <2>1. index' \in [Tasks -> Nat \ {0}]
    <3>1. index' = [index EXCEPT ![t] = 1] /\ index \in [Tasks -> Nat \ {0}]
      OBVIOUS
    <3>2. index' = [u \in Tasks |-> IF u = t THEN 1 ELSE index[u]]
      BY <3>1
    <3>3. \A u \in Tasks : (IF u = t THEN 1 ELSE index[u]) \in Nat \ {0}
      BY <3>1
    <3> QED
      BY ONLY <3>2, <3>3, Zenon
  <2>2. disturbed' \in [Tasks -> BOOLEAN]
    OBVIOUS
  <2>3. phase' \in [Tasks -> {"new", "visiting", "polling", "acting", "awaiting", "sleeping", "ended"}]
    OBVIOUS
  <2> QED
    BY <2>1, <2>2, <2>3
<1>2. visited' \in [Tasks -> Seq(Rules)]
  <2>1. <<>> \in Seq(Rules)
    BY EmptySeq
  <2> QED
    BY <2>1
<1>3. ASSUME NEW u \in Tasks, InRound(u)', ~disturbed'[u] PROVE VisitedSoFar(u)'
  <2>1. CASE u = t
    <3>1. index'[u] = 1 /\ visited'[u] = <<>>
      BY <2>1
    <3>2. Len(visited'[u]) = 0 /\ Len(rules) \in Nat
      BY <3>1, EmptySeq, LenProperties
    <3> QED
      BY <3>1, <3>2 DEF VisitedSoFar
  <2>2. CASE u # t
    <3>1. /\ phase'[u] = phase[u] /\ index'[u] = index[u] /\ visited'[u] = visited[u]
          /\ disturbed'[u] = disturbed[u]
      BY <2>2
    <3>2. VisitedSoFar(u)
      BY <1>3, <3>1 DEF Undisturbed, InRound
    <3> QED
      BY <3>1, <3>2 DEF VisitedSoFar
  <2> QED
    BY <2>1, <2>2
<1> QED
  BY <1>1, <1>2, <1>3 DEF Undisturbed

(* A round comes to the next rule, and polls for it, or maybe acts. *)
LEMMA ComesStep ==
    ASSUME RoundInv, NEW t \in Tasks, Comes(t), UNCHANGED <<list, disturbed>>,
           UNCHANGED phase \/ Follow(t) \/ phase' = [phase EXCEPT ![t] = "polling"]
    PROVE  RoundInv'
<1> USE DEF RoundInv, RoundsTyped, list
<1>1. /\ phase[t] = "visiting" /\ index[t] <= Len(rules) /\ index[t] \in 1..Len(rules)
      /\ index' = [index EXCEPT ![t] = @ + 1]
      /\ visited' = [visited EXCEPT ![t] = Append(@, rules[index[t]])]
      /\ Len(rules) \in Nat /\ rules[index[t]] \in Rules
  BY LenProperties, ElementOfSeq DEF Comes
<1>2. /\ phase' \in [Tasks -> {"new", "visiting", "polling", "acting", "awaiting", "sleeping", "ended"}]
      /\ \A u \in Tasks \ {t} : phase'[u] = phase[u]
  BY DEF Follow
<1>3. /\ Append(visited[t], rules[index[t]]) \in Seq(Rules)
      /\ Len(Append(visited[t], rules[index[t]])) = Len(visited[t]) + 1
      /\ \A i \in 1..Len(visited[t]) : Append(visited[t], rules[index[t]])[i] = visited[t][i]
      /\ Append(visited[t], rules[index[t]])[Len(visited[t]) + 1] = rules[index[t]]
      /\ Len(visited[t]) \in Nat
  BY <1>1, AppendProperties, LenProperties
<1>4. RoundsTyped'
  <2>1. index' \in [Tasks -> Nat \ {0}]
    BY <1>1
  <2>2. visited' \in [Tasks -> Seq(Rules)]
    BY <1>1, <1>3
  <2> QED
    BY <1>2, <2>1, <2>2
<1>5. ASSUME NEW u \in Tasks, InRound(u)', ~disturbed'[u] PROVE VisitedSoFar(u)'
  <2>1. CASE u = t
    <3>1. VisitedSoFar(t)
      BY <1>1, <1>5, <2>1 DEF Undisturbed, InRound
    <3>2. index'[t] = index[t] + 1 /\ visited'[t] = Append(visited[t], rules[index[t]])
      BY <1>1
    <3> HIDE DEF RoundInv, RoundsTyped
    <3>3. /\ index[t] \in Nat \ {0} /\ Len(visited'[t]) = index[t]
          /\ \A i \in 1..index[t] : visited'[t][i] = rules[i]
      BY <1>1, <1>3, <3>1, <3>2 DEF VisitedSoFar
    <3> QED
      BY <1>1, <2>1, <3>2, <3>3 DEF VisitedSoFar
  <2>2. CASE u # t
    <3>1. /\ phase'[u] = phase[u] /\ index'[u] = index[u] /\ visited'[u] = visited[u]
          /\ disturbed'[u] = disturbed[u]
      BY <1>1, <1>2, <2>2
    <3>2. VisitedSoFar(u)
      BY <1>5, <3>1 DEF Undisturbed, InRound
    <3> QED
      BY <3>1, <3>2 DEF VisitedSoFar
  <2> QED
    BY <2>1, <2>2
<1> QED
  BY <1>4, <1>5 DEF Undisturbed

(* Between two rules a task's round stays where it is. *)
LEMMA PlaceStep ==
    ASSUME RoundInv, NEW t \in Tasks, InRound(t), UNCHANGED <<list, index, visited, disturbed>>,
           \/ UNCHANGED phase
           \/ \E place \in {"visiting", "polling", "acting", "awaiting"} : phase' = [phase EXCEPT ![t] = place]
    PROVE  RoundInv'
<1>1. /\ phase' \in [Tasks -> {"new", "visiting", "polling", "acting", "awaiting", "sleeping", "ended"}]
      /\ \A u \in Tasks : InRound(u)' = InRound(u)
  <2>1. CASE UNCHANGED phase
    BY <2>1 DEF RoundInv, RoundsTyped, InRound
  <2>2. ASSUME NEW place \in {"visiting", "polling", "acting", "awaiting"}, phase' = [phase EXCEPT ![t] = place]
        PROVE  /\ phase' \in [Tasks -> {"new", "visiting", "polling", "acting", "awaiting", "sleeping", "ended"}]
               /\ \A u \in Tasks : InRound(u)' = InRound(u)
    BY <2>2 DEF RoundInv, RoundsTyped, InRound
  <2> QED
    BY <2>1, <2>2
<1> QED
  BY <1>1 DEF RoundInv, RoundsTyped, Undisturbed, VisitedSoFar, list

LEMMA RoundStep ==
    ASSUME RoundInv, NEW t \in Tasks, Turn(t)
    PROVE  RoundInv'
<1>1. CASE Begin(t) \/ Sleep(t) \/ Wake(t)
  BY <1>1, RoundOfStep DEF Begin, Sleep, Wake
<1>2. CASE Skip(t) \/ Evaluate(t) \/ Poll(t) \/ Raise(t)
  BY <1>2, ComesStep DEF Skip, Evaluate, Poll, Raise
<1>6. CASE EvaluatePolled(t)
  BY <1>6, PlaceStep DEF EvaluatePolled, Follow, InRound
<1>3. CASE Fault(t) \/ Acted(t)
  BY <1>3, PlaceStep DEF Fault, Acted, Done, InRound
<1>4. ASSUME NEW order \in watched.orders, Act(t, order) PROVE RoundInv'
  BY <1>4, PlaceStep DEF Act, InRound, round
<1>5. CASE Job(t)
  BY <1>5, JobLeavesRounds
     DEF list, round, RoundInv, RoundsTyped, Undisturbed, VisitedSoFar, InRound
<1> QED
  BY <1>1, <1>2, <1>3, <1>4, <1>5, <1>6 DEF Turn, Round

LEMMA ListStep ==
    ASSUME RoundInv, add \/ start \/ (\E i \in Rules : remove(i))
    PROVE  RoundInv'
<1> USE RuleAssumption DEF RuleAssumption
<1>1. CASE add
  <2>1. /\ added < MaxRules /\ added' = added + 1 /\ rules' = Append(rules, added + 1)
        /\ UNCHANGED <<index, visited, disturbed, phase>>
    BY <1>1 DEF add, round
  <2>2. added + 1 \in Rules /\ added' \in 0..MaxRules
    BY <2>1 DEF RoundInv, RoundsTyped, Rules
  <2>3. /\ rules' \in Seq(Rules) /\ Len(rules') = Len(rules) + 1 /\ Len(rules) \in Nat
        /\ \A i \in 1..Len(rules) : rules'[i] = rules[i]
    BY <2>1, <2>2, AppendProperties, LenProperties DEF RoundInv, RoundsTyped
  <2>4. ASSUME NEW t \in Tasks, VisitedSoFar(t) PROVE VisitedSoFar(t)'
    <3>1. index[t] \in Nat
      BY DEF RoundInv, RoundsTyped
    <3> QED
      BY <2>1, <2>3, <2>4, <3>1 DEF VisitedSoFar
  <2> QED
    BY <2>1, <2>2, <2>3, <2>4 DEF RoundInv, RoundsTyped, Undisturbed, InRound
<1>2. CASE start
  <2>1. /\ UNCHANGED <<list, round>> /\ phase' = [phase EXCEPT ![started + 1] = "new"]
    BY <1>2 DEF start
  <2> QED
    BY <2>1 DEF RoundInv, RoundsTyped, Undisturbed, InRound, VisitedSoFar, list, round
<1>3. ASSUME NEW i \in Rules, remove(i) PROVE RoundInv'
  <2>1. /\ i \in DOMAIN rules /\ rules' = RemoveAt(rules, i)
        /\ disturbed' = [t \in Tasks |-> disturbed[t] \/ InRound(t)]
        /\ UNCHANGED <<added, index, visited, phase>>
    BY <1>3 DEF remove, InRound
  <2>2. rules' \in Seq(Rules)
    BY <2>1, LenProperties, RemoveAtProperties DEF RoundInv, RoundsTyped
  <2>3. disturbed' \in [Tasks -> BOOLEAN]
    BY <2>1 DEF RoundInv, RoundsTyped
  <2>4. \A t \in Tasks : InRound(t)' => disturbed'[t]
    BY <2>1 DEF InRound
  <2> QED
    BY <2>1, <2>2, <2>3, <2>4 DEF RoundInv, RoundsTyped, Undisturbed
<1> QED
  BY <1>1, <1>2, <1>3

LEMMA RoundInvariant == EngineSpec => []RoundInv
<1>1. EngineInit => RoundInv
  <2>1. <<>> \in Seq(Rules)
    BY EmptySeq
  <2> QED
    BY <2>1, RuleAssumption
    DEF EngineInit, RoundInv, RoundsTyped, Undisturbed, InRound, RuleAssumption
<1>2. RoundInv /\ [EngineNext]_engineVars => RoundInv'
  <2> SUFFICES ASSUME RoundInv, [EngineNext]_engineVars PROVE RoundInv'
    OBVIOUS
  <2>1. CASE stop
    BY <2>1, RoundOfStep DEF stop
  <2>2. CASE Expire \/ UNCHANGED engineVars
    BY <2>2 DEF Expire, engineVars, list, round, RoundInv, RoundsTyped, Undisturbed,
                VisitedSoFar, InRound
  <2> QED
    BY <2>1, <2>2, ListStep, RoundStep, StepCases
<1> QED
  BY <1>1, <1>2, PTL DEF EngineSpec

(* A round ends only when it has come to every rule of the list, once and  *)
(* in order, unless a rule was removed while it went on.                   *)
THEOREM RuleEngineEveryRuleOnce == EngineSpec => EveryRuleOnce
<1>1. RoundInv /\ [EngineNext]_engineVars =>
        [\A t \in Tasks : Sleep(t) /\ ~disturbed[t] => visited[t] = rules]_engineVars
  <2> SUFFICES ASSUME RoundInv, NEW t \in Tasks, Sleep(t), ~disturbed[t]
               PROVE  visited[t] = rules
    OBVIOUS
  <2>1. phase[t] = "visiting" /\ index[t] > Len(rules) /\ VisitedSoFar(t)
    BY DEF Sleep, RoundInv, Undisturbed, InRound
  <2>2. /\ rules \in Seq(Rules) /\ visited[t] \in Seq(Rules) /\ index[t] \in Nat
        /\ Len(rules) \in Nat
    BY LenProperties DEF RoundInv, RoundsTyped
  <2>3. Len(visited[t]) = Len(rules) /\ \A i \in 1..Len(rules) : visited[t][i] = rules[i]
    BY <2>1, <2>2 DEF VisitedSoFar
  <2> QED
    BY <2>2, <2>3, SeqEqual
<1> QED
  BY <1>1, RoundInvariant, PTL DEF EngineSpec, EveryRuleOnce

-----------------------------------------------------------------------------
(* The rules are numbered as they are added. *)
Ascending(s) == \A i, j \in 1..Len(s) : i < j => s[i] < s[j]

(* A round has come to no rule that is at its position or after it. *)
Behind(t) ==
    \A i \in 1..Len(visited[t]), j \in index[t]..Len(rules) : visited[t][i] < rules[j]
Ordered ==
    /\ Ascending(rules) /\ \A i \in 1..Len(rules) : rules[i] <= added
    /\ \A t \in Tasks :
          /\ Ascending(visited[t])
          /\ InRound(t) => Behind(t) /\ \A i \in 1..Len(visited[t]) : visited[t][i] <= added

(* What the sequences of rules consist of. *)
LEMMA RuleNumbers ==
    ASSUME RoundInv
    PROVE  /\ Len(rules) \in Nat /\ \A i \in 1..Len(rules) : rules[i] \in Rules /\ rules[i] \in Int
           /\ \A t \in Tasks : /\ visited[t] \in Seq(Rules) /\ Len(visited[t]) \in Nat
                              /\ \A i \in 1..Len(visited[t]) : visited[t][i] \in Int
<1>1. \A r \in Rules : r \in Int
  BY DEF Rules
<1>2. rules \in Seq(Rules) /\ \A t \in Tasks : visited[t] \in Seq(Rules)
  BY DEF RoundInv, RoundsTyped
<1>3. Len(rules) \in Nat /\ \A i \in 1..Len(rules) : rules[i] \in Rules
  BY <1>2, LenProperties, ElementOfSeq
<1>4. ASSUME NEW t \in Tasks
      PROVE  Len(visited[t]) \in Nat /\ \A i \in 1..Len(visited[t]) : visited[t][i] \in Rules
  BY <1>2, LenProperties, ElementOfSeq
<1> QED
  BY <1>1, <1>2, <1>3, <1>4

LEMMA OrderedRoundOf ==
    ASSUME RoundInv, Ordered, NEW t,
           RoundOf(t, "visiting") \/ RoundOf(t, "sleeping") \/ RoundOf(t, "ended"),
           UNCHANGED list
    PROVE  Ordered'
<1>1. ASSUME NEW u \in Tasks
      PROVE  /\ Ascending(visited[u])'
             /\ InRound(u)' => Behind(u)' /\ \A i \in 1..Len(visited'[u]) : visited'[u][i] <= added'
  <2>1. CASE u = t
    <3>1. visited'[u] = <<>> /\ Len(visited'[u]) = 0
      BY <2>1, EmptySeq DEF RoundOf, RoundInv, RoundsTyped
    <3> QED
      BY <3>1 DEF Ascending, Behind
  <2>2. CASE u # t
    <3>1. visited'[u] = visited[u] /\ phase'[u] = phase[u] /\ index'[u] = index[u]
      BY <2>2 DEF RoundOf, RoundInv, RoundsTyped
    <3> QED
      BY <3>1 DEF Ordered, Ascending, Behind, InRound, list
  <2> QED
    BY <2>1, <2>2
<1> QED
  BY <1>1 DEF Ordered, Ascending, list

LEMMA OrderedComes ==
    ASSUME RoundInv, Ordered, NEW t \in Tasks, Comes(t), UNCHANGED <<list, disturbed>>,
           UNCHANGED phase \/ Follow(t) \/ phase' = [phase EXCEPT ![t] = "polling"]
    PROVE  Ordered'
<1> DEFINE r == rules[index[t]]
           v == visited[t]
<1>1. /\ phase[t] = "visiting" /\ index[t] \in 1..Len(rules) /\ r \in Rules
      /\ index'[t] = index[t] + 1 /\ visited'[t] = Append(v, r)
      /\ Len(rules) \in Nat
  BY LenProperties, ElementOfSeq DEF Comes, RoundInv, RoundsTyped
<1>2. \A u \in Tasks \ {t} : visited'[u] = visited[u] /\ index'[u] = index[u] /\ phase'[u] = phase[u]
  BY DEF Comes, Follow, RoundInv, RoundsTyped
<1>3. /\ v \in Seq(Rules) /\ Len(v) \in Nat /\ \A i \in 1..Len(v) : v[i] \in Int
      /\ r \in Int /\ \A j \in 1..Len(rules) : rules[j] \in Int
  BY <1>1, RuleNumbers
<1>4. /\ Len(visited'[t]) = Len(v) + 1 /\ visited'[t][Len(v) + 1] = r
      /\ \A i \in 1..Len(v) : visited'[t][i] = v[i]
  BY <1>1, <1>3, AppendProperties
<1>5. Ascending(v) /\ Behind(t) /\ (\A i \in 1..Len(v) : v[i] <= added) /\ r <= added
  BY <1>1 DEF Ordered, InRound
<1>6. \A i \in 1..Len(v) : v[i] < r
  <2>1. index[t] \in index[t]..Len(rules)
    BY <1>1
  <2>2. \A i \in 1..Len(v), j \in index[t]..Len(rules) : v[i] < rules[j]
    BY <1>5 DEF Behind
  <2> QED
    BY <2>1, <2>2
<1> HIDE DEF r, v
<1>7. Ascending(visited[t])'
  <2> SUFFICES ASSUME NEW i \in 1..(Len(v) + 1), NEW j \in 1..(Len(v) + 1), i < j
               PROVE  visited'[t][i] < visited'[t][j]
    BY <1>4 DEF Ascending
  <2>1. i \in 1..Len(v) /\ visited'[t][i] = v[i]
    BY <1>3, <1>4
  <2>2. CASE j = Len(v) + 1
    BY <1>4, <1>6, <2>1, <2>2
  <2>3. CASE j \in 1..Len(v)
    BY <1>4, <1>5, <2>1, <2>3 DEF Ascending
  <2> QED
    BY <1>3, <2>2, <2>3
<1>8. Behind(t)'
  <2> SUFFICES ASSUME NEW i \in 1..(Len(v) + 1), NEW j \in (index[t] + 1)..Len(rules)
               PROVE  visited'[t][i] < rules[j]
    BY <1>1, <1>4 DEF Behind, list
  <2>1. r < rules[j]
    BY <1>1 DEF Ordered, Ascending, r
  <2>2. CASE i = Len(v) + 1
    BY <1>4, <2>1, <2>2
  <2>3. CASE i \in 1..Len(v)
    BY <1>1, <1>4, <1>5, <2>3 DEF Behind, v
  <2> QED
    BY <1>3, <2>2, <2>3
<1>9. \A i \in 1..Len(visited'[t]) : visited'[t][i] <= added'
  <2> SUFFICES ASSUME NEW i \in 1..(Len(v) + 1) PROVE visited'[t][i] <= added
    BY <1>4 DEF list
  <2> QED
    BY <1>3, <1>4, <1>5
<1>10. ASSUME NEW u \in Tasks \ {t}
       PROVE  /\ Ascending(visited[u])'
              /\ InRound(u)' => Behind(u)' /\ \A i \in 1..Len(visited'[u]) : visited'[u][i] <= added'
  BY <1>2 DEF Ordered, Ascending, Behind, InRound, list
<1> QED
  BY <1>7, <1>8, <1>9, <1>10 DEF Ordered, Ascending, list

LEMMA OrderedList ==
    ASSUME RoundInv, Ordered, add \/ start \/ (\E i \in Rules : remove(i))
    PROVE  Ordered'
<1>1. /\ rules \in Seq(Rules) /\ Len(rules) \in Nat /\ added \in Nat
      /\ \A i \in 1..Len(rules) : rules[i] \in Int
  BY RuleNumbers DEF RoundInv, RoundsTyped
<1>2. \A t \in Tasks : /\ index[t] \in Nat \ {0} /\ Len(visited[t]) \in Nat
                       /\ \A i \in 1..Len(visited[t]) : visited[t][i] \in Int
  BY RuleNumbers DEF RoundInv, RoundsTyped
<1>3. CASE add
  <2>1. /\ added' = added + 1 /\ rules' = Append(rules, added + 1)
        /\ UNCHANGED <<index, visited, phase>> /\ added + 1 \in Rules
    BY <1>3, RuleAssumption DEF add, round, Rules, RoundInv, RoundsTyped, RuleAssumption
  <2>2. /\ Len(rules') = Len(rules) + 1 /\ rules'[Len(rules) + 1] = added + 1
        /\ \A i \in 1..Len(rules) : rules'[i] = rules[i]
    BY <1>1, <2>1, AppendProperties
  <2>3. Ascending(rules)' /\ \A i \in 1..Len(rules') : rules'[i] <= added'
    <3>1. Ascending(rules) /\ \A i \in 1..Len(rules) : rules[i] < added + 1
      BY <1>1 DEF Ordered
    <3>2. ASSUME NEW i \in 1..(Len(rules) + 1)
          PROVE  /\ rules'[i] <= added + 1
                 /\ \A j \in 1..(Len(rules) + 1) : i < j => rules'[i] < rules'[j]
      <4>1. CASE i = Len(rules) + 1
        BY <1>1, <2>2, <4>1
      <4>2. CASE i \in 1..Len(rules)
        <5>1. rules'[i] = rules[i] /\ rules'[i] < added + 1
          BY <2>2, <3>1, <4>2
        <5>2. ASSUME NEW j \in 1..(Len(rules) + 1), i < j PROVE rules'[i] < rules'[j]
          <6>1. CASE j = Len(rules) + 1
            BY <2>2, <5>1, <6>1
          <6>2. CASE j \in 1..Len(rules)
            BY <2>2, <3>1, <4>2, <5>2, <6>2 DEF Ascending
          <6> QED
            BY <1>1, <6>1, <6>2
        <5> QED
          BY <1>1, <2>1, <4>2, <5>1, <5>2
      <4> QED
        BY <1>1, <4>1, <4>2
    <3> QED
      BY <2>1, <2>2, <3>2 DEF Ascending
  <2>4. ASSUME NEW t \in Tasks, InRound(t)
        PROVE  Behind(t)' /\ \A i \in 1..Len(visited'[t]) : visited'[t][i] <= added'
    <3>1. Behind(t) /\ \A i \in 1..Len(visited[t]) : visited[t][i] <= added
      BY <2>4 DEF Ordered
    <3>2. \A i \in 1..Len(visited[t]) : visited[t][i] < added + 1
      BY <1>1, <1>2, <3>1
    <3>3. ASSUME NEW i \in 1..Len(visited[t]), NEW j \in index[t]..(Len(rules) + 1)
          PROVE  visited[t][i] < rules'[j]
      <4>1. CASE j = Len(rules) + 1
        BY <2>2, <3>2, <4>1
      <4>2. CASE j \in 1..Len(rules) /\ j \in index[t]..Len(rules)
        BY <2>2, <3>1, <4>2 DEF Behind
      <4> QED
        BY <1>1, <1>2, <4>1, <4>2
    <3>4. \A i \in 1..Len(visited[t]) : visited[t][i] <= added + 1
      BY <1>1, <1>2, <3>2
    <3> QED
      BY <2>1, <2>2, <3>3, <3>4 DEF Behind
  <2> QED
    BY <2>1, <2>3, <2>4 DEF Ordered, Ascending, InRound
<1>4. CASE start
  <2>1. /\ UNCHANGED <<list, index, visited>>
        /\ phase' = [phase EXCEPT ![started + 1] = "new"]
    BY <1>4 DEF start, round
  <2>2. \A t \in Tasks : InRound(t)' => InRound(t)
    BY <2>1 DEF InRound, RoundInv, RoundsTyped
  <2> QED
    BY <2>1, <2>2 DEF Ordered, Ascending, Behind, list
<1>5. ASSUME NEW i \in Rules, remove(i) PROVE Ordered'
  <2>1. /\ i \in 1..Len(rules) /\ rules' = RemoveAt(rules, i)
        /\ UNCHANGED <<added, index, visited, phase>>
    BY <1>1, <1>5, LenProperties DEF remove
  <2>2. /\ Len(rules') = Len(rules) - 1
        /\ \A j \in 1..(Len(rules) - 1) : rules'[j] = IF j < i THEN rules[j] ELSE rules[j + 1]
    BY <1>1, <2>1, RemoveAtProperties
  <2>3. Ascending(rules)' /\ \A j \in 1..Len(rules') : rules'[j] <= added'
    <3> SUFFICES /\ \A j, k \in 1..(Len(rules) - 1) : j < k => rules'[j] < rules'[k]
                 /\ \A j \in 1..(Len(rules) - 1) : rules'[j] <= added
      BY <2>1, <2>2 DEF Ascending
    <3>1. \A j \in 1..(Len(rules) - 1) : rules'[j] <= added
      BY <1>1, <2>2 DEF Ordered
    <3>2. ASSUME NEW j \in 1..(Len(rules) - 1), NEW k \in 1..(Len(rules) - 1), j < k
          PROVE  rules'[j] < rules'[k]
      <4> DEFINE p == IF j < i THEN j ELSE j + 1
                 q == IF k < i THEN k ELSE k + 1
      <4>1. p \in 1..Len(rules) /\ q \in 1..Len(rules) /\ p < q
        BY <1>1, <2>1, <3>2
      <4>2. rules'[j] = rules[p] /\ rules'[k] = rules[q]
        BY <2>2
      <4> QED
        BY <4>1, <4>2 DEF Ordered, Ascending
    <3> QED
      BY <3>1, <3>2
  <2>4. ASSUME NEW t \in Tasks, InRound(t) PROVE Behind(t)'
    <3> SUFFICES ASSUME NEW n \in 1..Len(visited[t]), NEW j \in index[t]..(Len(rules) - 1)
                 PROVE  visited[t][n] < rules'[j]
      BY <2>1, <2>2 DEF Behind
    <3>1. j \in 1..(Len(rules) - 1) /\ j \in index[t]..Len(rules) /\ j + 1 \in index[t]..Len(rules)
      BY <1>1, <1>2
    <3>2. Behind(t)
      BY <2>4 DEF Ordered
    <3> QED
      BY <2>2, <3>1, <3>2 DEF Behind
  <2> QED
    BY <2>1, <2>3, <2>4 DEF Ordered, Ascending, InRound
<1> QED
  BY <1>3, <1>4, <1>5

LEMMA OrderedStep ==
    ASSUME RoundInv, Ordered, [EngineNext]_engineVars
    PROVE  Ordered'
<1> DEFINE Alike == /\ UNCHANGED <<list, index, visited>>
                    /\ \A t \in Tasks : InRound(t)' => InRound(t)
<1>1. ASSUME Alike PROVE Ordered'
  BY <1>1 DEF Ordered, Ascending, Behind, list
<1>2. ASSUME NEW t \in Tasks, Turn(t) PROVE Ordered'
  <2>1. CASE Begin(t) \/ Sleep(t) \/ Wake(t)
    BY <2>1, OrderedRoundOf DEF Begin, Sleep, Wake
  <2>2. CASE Skip(t) \/ Evaluate(t) \/ Poll(t) \/ Raise(t)
    BY <2>2, OrderedComes DEF Skip, Evaluate, Poll, Raise
  <2>6. CASE EvaluatePolled(t)
    BY <1>1, <2>6 DEF EvaluatePolled, Follow, InRound, RoundInv, RoundsTyped
  <2>3. CASE Fault(t) \/ Acted(t)
    BY <1>1, <2>3 DEF Fault, Acted, Done, InRound, RoundInv, RoundsTyped
  <2>4. ASSUME NEW order \in watched.orders, Act(t, order) PROVE Ordered'
    BY <1>1, <2>4 DEF Act, InRound, round, RoundInv, RoundsTyped
  <2>5. CASE Job(t)
    BY <1>1, <2>5, JobLeavesRounds DEF round, InRound
  <2> QED
    BY <1>2, <2>1, <2>2, <2>3, <2>4, <2>5, <2>6 DEF Turn, Round
<1>3. CASE stop
  BY <1>3, OrderedRoundOf DEF stop
<1>4. CASE Expire \/ UNCHANGED engineVars
  BY <1>1, <1>4 DEF Expire, engineVars, round, InRound
<1> QED
  BY <1>2, <1>3, <1>4, OrderedList, StepCases

LEMMA OrderedInvariant == EngineSpec => [](RoundInv /\ Ordered)
<1>1. EngineInit => Ordered
  <2> SUFFICES ASSUME EngineInit PROVE Ordered
    OBVIOUS
  <2>1. rules = <<>> /\ Len(rules) = 0
    BY EmptySeq DEF EngineInit
  <2>2. \A t \in Tasks : visited[t] = <<>> /\ Len(visited[t]) = 0
    BY EmptySeq DEF EngineInit
  <2> QED
    BY <2>1, <2>2 DEF Ordered, Ascending, Behind
<1>2. RoundInv /\ Ordered /\ [EngineNext]_engineVars => Ordered'
  BY OrderedStep
<1> QED
  BY <1>1, <1>2, RoundInvariant, PTL DEF EngineSpec

(* No round of any task comes to a rule twice, however rules are added and *)
(* removed while it waits.                                                 *)
THEOREM RuleEngineNoRuleTwice == EngineSpec => []NoRuleTwice
<1>1. RoundInv /\ Ordered => NoRuleTwice
  <2> SUFFICES ASSUME RoundInv, Ordered, NEW t \in Tasks PROVE IsInjective(visited[t])
    BY DEF NoRuleTwice
  <2>1. /\ DOMAIN visited[t] = 1..Len(visited[t])
        /\ \A i \in 1..Len(visited[t]) : visited[t][i] \in Int
        /\ Ascending(visited[t])
    BY RuleNumbers, LenProperties DEF Ordered
  <2>2. ASSUME NEW i \in 1..Len(visited[t]), NEW j \in 1..Len(visited[t]),
               visited[t][i] = visited[t][j]
        PROVE  i = j
    <3>1. ~(i < j) /\ ~(j < i)
      BY <2>1, <2>2 DEF Ascending
    <3> QED
      BY <3>1
  <2> QED
    BY <2>1, <2>2 DEF IsInjective
<1> QED
  BY <1>1, OrderedInvariant, PTL

-----------------------------------------------------------------------------
(* The rest of the types. *)

(* A task acts for an action that is left. *)
LeftTyped ==
    /\ left \in [Tasks -> 0..MaxActions]
    /\ \A t \in Tasks : phase[t] \in {"acting", "awaiting"} => left[t] # 0

LEMMA LeftStep ==
    ASSUME RoundInv, LeftTyped, [EngineNext]_engineVars
    PROVE  LeftTyped'
<1> USE RuleAssumption DEF RoundInv, RoundsTyped, LeftTyped, RuleAssumption, round
<1>1. CASE add \/ Expire \/ UNCHANGED engineVars
  BY <1>1 DEF add, Expire, engineVars
<1>2. ASSUME NEW i \in Rules, remove(i) PROVE LeftTyped'
  BY <1>2 DEF remove
<1>3. CASE start
  <2>1. UNCHANGED left /\ phase' = [phase EXCEPT ![started + 1] = "new"]
    BY <1>3 DEF start
  <2> QED
    BY <2>1
<1>5. CASE stop
  <2>1. left' = [left EXCEPT ![task] = 0] /\ phase' = [phase EXCEPT ![task] = "ended"]
    BY <1>5 DEF stop, RoundOf
  <2>2. left' \in [Tasks -> 0..MaxActions]
    <3>1. left' = [t \in Tasks |-> IF t = task THEN 0 ELSE left[t]]
      BY <2>1
    <3>2. \A t \in Tasks : (IF t = task THEN 0 ELSE left[t]) \in 0..MaxActions
      OBVIOUS
    <3> QED
      BY ONLY <3>1, <3>2, Zenon
  <2>3. ASSUME NEW t \in Tasks, phase'[t] \in {"acting", "awaiting"} PROVE left'[t] # 0
    <3>1. t # task
      BY <2>1, <2>3
    <3> QED
      BY <2>1, <2>3, <3>1
  <2> QED
    BY <2>2, <2>3
<1>4. ASSUME NEW t \in Tasks, Turn(t) PROVE LeftTyped'
  <2>1. CASE Begin(t) \/ Sleep(t) \/ Wake(t)
    BY <2>1 DEF Begin, Sleep, Wake, RoundOf
  <2>2. CASE Skip(t)
    BY <2>2 DEF Skip, Comes
  <2>3. CASE Evaluate(t) \/ EvaluatePolled(t) \/ Raise(t)
    BY <2>3 DEF Evaluate, EvaluatePolled, Raise, Follow
  <2>7. CASE Poll(t)
    BY <2>7 DEF Poll
  <2>4. CASE Fault(t) \/ Acted(t)
    <3>1. left[t] \in 1..MaxActions
      BY <2>4 DEF Fault, Acted
    <3>2. left' = [left EXCEPT ![t] = left[t] - 1]
          /\ phase' = [phase EXCEPT ![t] = IF left[t] = 1 THEN "visiting" ELSE "acting"]
      BY <2>4 DEF Fault, Acted, Done
    <3>3. left[t] - 1 \in 0..MaxActions /\ (left[t] # 1 => left[t] - 1 # 0)
      BY <3>1
    <3>4. left' \in [Tasks -> 0..MaxActions]
      BY <3>2, <3>3
    <3> QED
      BY <3>2, <3>3, <3>4
  <2>5. ASSUME NEW order \in watched.orders, Act(t, order) PROVE LeftTyped'
    BY <2>5 DEF Act
  <2>6. CASE Job(t)
    BY <2>6, JobLeavesRounds
  <2> QED
    BY <1>4, <2>1, <2>2, <2>3, <2>4, <2>5, <2>6, <2>7 DEF Turn, Round
<1> QED
  BY <1>1, <1>2, <1>3, <1>4, <1>5, StepCases

(* The list has no more rules than there are numbers. *)
LEMMA ListFits ==
    ASSUME RoundInv, Ordered
    PROVE  IsInjective(rules) /\ Len(rules) <= MaxRules
<1>1. DOMAIN rules = 1..Len(rules) /\ Len(rules) \in Nat
      /\ \A i \in 1..Len(rules) : rules[i] \in Rules /\ rules[i] \in Int
  BY RuleNumbers, LenProperties DEF RoundInv, RoundsTyped
<1>2. ASSUME NEW i \in 1..Len(rules), NEW j \in 1..Len(rules), rules[i] = rules[j] PROVE i = j
  <2>1. ~(i < j) /\ ~(j < i)
    BY <1>1, <1>2 DEF Ordered, Ascending
  <2> QED
    BY <2>1
<1>3. IsFiniteSet(Rules) /\ Cardinality(Rules) = MaxRules
  BY FS_Interval, RuleAssumption DEF Rules, RuleAssumption
<1>4. Cardinality(1..Len(rules)) = Len(rules)
  BY <1>1, FS_Interval
<1>5. rules \in Injection(1..Len(rules), Rules)
  <2>1. rules \in [1..Len(rules) -> Rules]
    BY <1>1, LenProperties DEF RoundInv, RoundsTyped
  <2> QED
    BY <1>1, <1>2, <2>1 DEF Injection, IsInjective
<1>6. Cardinality(1..Len(rules)) <= Cardinality(Rules)
  BY <1>3, <1>5, FS_Injection
<1> QED
  BY <1>1, <1>2, <1>3, <1>4, <1>6 DEF IsInjective

IndexFits == \A t \in Tasks : index[t] <= MaxRules + 1

(* The types of the engine: its list has each rule once, and no task looks *)
(* further than one place behind its end.                                  *)
THEOREM RuleEngineTyped == EngineSpec => []EngineTypeOK
<1>1. EngineInit => StatesTyped /\ LeftTyped /\ IndexFits
  <2> SUFFICES ASSUME EngineInit PROVE StatesTyped /\ LeftTyped /\ IndexFits
    OBVIOUS
  <2>2. StatesTyped
    BY StatesInit
  <2>3. LeftTyped /\ IndexFits
    BY RuleAssumption DEF EngineInit, LeftTyped, IndexFits, RuleAssumption
  <2> QED
    BY <2>2, <2>3
<1>2. StatesTyped /\ [EngineNext]_engineVars => StatesTyped'
  BY StatesStep
<1>3. RoundInv /\ LeftTyped /\ [EngineNext]_engineVars => LeftTyped'
  BY LeftStep
<1>4. RoundInv /\ Ordered /\ IndexFits /\ [EngineNext]_engineVars => IndexFits'
  <2> SUFFICES ASSUME RoundInv, Ordered, IndexFits, [EngineNext]_engineVars PROVE IndexFits'
    OBVIOUS
  <2> USE RuleAssumption DEF IndexFits, RoundInv, RoundsTyped, round, RuleAssumption
  <2>1. ASSUME NEW t \in Tasks, Comes(t) PROVE IndexFits'
    <3>1. index[t] <= MaxRules
      BY <2>1, ListFits, LenProperties DEF Comes
    <3>2. index' = [index EXCEPT ![t] = index[t] + 1]
      BY <2>1 DEF Comes
    <3> QED
      BY <3>1, <3>2
  <2>2. ASSUME NEW t, NEW place, RoundOf(t, place) PROVE IndexFits'
    BY <2>2 DEF RoundOf
  <2>3. ASSUME NEW t \in Tasks, Turn(t) PROVE IndexFits'
    <3>1. CASE Begin(t) \/ Sleep(t) \/ Wake(t)
      BY <2>2, <3>1 DEF Begin, Sleep, Wake
    <3>2. CASE Skip(t) \/ Evaluate(t) \/ Poll(t) \/ Raise(t)
      BY <2>1, <3>2 DEF Skip, Evaluate, Poll, Raise
    <3>3. CASE Fault(t) \/ Acted(t) \/ EvaluatePolled(t) \/ Job(t)
      BY <3>3, JobLeavesRounds DEF Fault, Acted, EvaluatePolled
    <3>4. ASSUME NEW order \in watched.orders, Act(t, order) PROVE IndexFits'
      BY <3>4 DEF Act
    <3> QED
      BY <2>3, <3>1, <3>2, <3>3, <3>4 DEF Turn, Round
  <2>4. CASE stop
    BY <2>2, <2>4 DEF stop
  <2>5. CASE add \/ start \/ (\E i \in Rules : remove(i)) \/ Expire \/ UNCHANGED engineVars
    BY <2>5 DEF add, start, remove, Expire, engineVars
  <2> QED
    BY <2>3, <2>4, <2>5, StepCases
<1>5. /\ StatesTyped /\ LeftTyped /\ IndexFits /\ RoundInv /\ Ordered
      /\ TasksTyped
      => EngineTypeOK
  <2> SUFFICES ASSUME StatesTyped, LeftTyped, IndexFits, RoundInv, Ordered, TasksTyped
               PROVE  EngineTypeOK
    OBVIOUS
  <2>1. index \in [Tasks -> 1..(MaxRules + 1)]
    BY RuleAssumption DEF IndexFits, RoundInv, RoundsTyped, RuleAssumption
  <2> QED
    BY <2>1, ListFits
       DEF StatesTyped, LeftTyped, RoundInv, RoundsTyped, TasksTyped, EngineTypeOK
<1> QED
  BY <1>1, <1>2, <1>3, <1>4, <1>5, OrderedInvariant, TasksAloneInvariant, PTL DEF EngineSpec
=============================================================================
