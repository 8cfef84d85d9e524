------------------------------ MODULE RuleEngine ------------------------------
(***************************************************************************)
(* The rule engine (edge/rules.py) on the event loop, and the capability   *)
(* that its rules watch and command, of any kind (Capabilities).  A rule   *)
(* is evaluated on what read_state returns: the cached state, or a poll,   *)
(* during which the loop does nothing else.  Its actions are commands on   *)
(* threads of the executor: they read the state, send, poll until an       *)
(* answer has what they expect, and cache that answer; a stopped task's    *)
(* command goes on, as other callers' do.  (Command has all steps of       *)
(* these, and what the answers have to do with the device.)                *)
(*                                                                         *)
(* The rules' conditions are all on one name of one kind and device,       *)
(* chosen at the start: of an answer only the field it stands for is kept. *)
(***************************************************************************)
EXTENDS Capabilities, Integers, SequencesExt

CONSTANTS
    Watching,     \* the profiles to choose from
    MaxRules,     \* bound: rules added
    MaxActions,   \* bound: actions, or else_actions, of a rule
    MaxStarts     \* bound: calls of start()

ASSUME RuleAssumption ==
    /\ Watching \subseteq Profiles
    /\ MaxRules \in Nat /\ MaxActions \in Nat /\ MaxStarts \in Nat

(* A fact about the tables of Capabilities, which have no parameters: TLC  *)
(* evaluates it for all of them.                                           *)
ASSUME ProfilesTyped == \A profile \in Profiles : profile.orders \subseteq Values \cup {None, Unmet}

VARIABLES
    watched,      \* what the conditions ask for, and of which kind: a profile
    entry,        \* the cached state: what kind of state, and the field's value
    hand,         \* per task: a state on its way from the device to the cache
    reported,     \* history: the values in the answers that may be the latest
    rules,        \* the list of rules, by number
    added,        \* how many have been added
    running,      \* running
    task,         \* _task, 0 for None
    started,      \* the tasks created so far
    phase,        \* per task
    index,        \* per task: the position in rules of its for loop
    left,         \* per task: the actions that are left of the rule
    job,          \* per task: its command, on a thread
    visited,      \* history, per task: the rules its round has come to
    disturbed,    \* history, per task: has a rule been removed meanwhile?
    doubled,      \* history: has start() been called with a task still alive?
    stopped       \* history: stop() has been called, and start() not since

capability == <<watched, entry, hand, reported>>
list == <<rules, added>>
loop == <<running, task, started, doubled, stopped>>
round == <<index, left, visited, disturbed>>
engineVars == <<capability, list, loop, round, phase, job>>

Rules == 1..MaxRules
Tasks == 1..MaxStarts

(* A state is one that read_state made of an answer, one it made up for    *)
(* want of an answer, or the answer to a command's last poll.              *)
NoEntry == [from |-> None, value |-> "default"]
Entries == {NoEntry} \cup [from : {"poll", "nothing", "command"}, value : Values]

NoJob == [at |-> None, order |-> None]
Ended == [at |-> "done", order |-> None]
Jobs == [at : {None, "reading", "storing", "confirming", "caching", "done"},
         order : Values \cup {None, Unmet}]

EngineTypeOK ==
    /\ watched \in Watching
    /\ entry \in Entries /\ hand \in [Tasks -> Entries] /\ reported \subseteq Values
    /\ rules \in Seq(Rules) /\ IsInjective(rules) /\ added \in 0..MaxRules
    /\ running \in BOOLEAN /\ task \in 0..MaxStarts /\ started \in 0..MaxStarts
    /\ phase \in [Tasks -> {"new", "visiting", "polling", "acting", "awaiting", "sleeping", "ended"}]
    /\ index \in [Tasks -> 1..(MaxRules + 1)] /\ left \in [Tasks -> 0..MaxActions]
    /\ job \in [Tasks -> Jobs]
    /\ visited \in [Tasks -> Seq(Rules)] /\ disturbed \in [Tasks -> BOOLEAN]
    /\ doubled \in BOOLEAN /\ stopped \in BOOLEAN

EngineInit ==
    /\ watched \in Watching
    /\ entry = NoEntry /\ hand = [t \in Tasks |-> NoEntry] /\ reported = {}
    /\ rules = <<>> /\ added = 0
    /\ running = FALSE /\ task = 0 /\ started = 0
    /\ phase = [t \in Tasks |-> "ended"]
    /\ index = [t \in Tasks |-> 1] /\ left = [t \in Tasks |-> 0]
    /\ job = [t \in Tasks |-> NoJob]
    /\ visited = [t \in Tasks |-> <<>>]
    /\ disturbed = [t \in Tasks |-> FALSE]
    /\ doubled = FALSE /\ stopped = FALSE

Alive(t) == phase[t] # "ended"

(* No rule of a round has been come to. *)
RoundOf(t, place) ==
    /\ phase' = [phase EXCEPT ![t] = place]
    /\ index' = [index EXCEPT ![t] = 1] /\ visited' = [visited EXCEPT ![t] = <<>>]
    /\ disturbed' = [disturbed EXCEPT ![t] = FALSE]

-----------------------------------------------------------------------------
(* The protocol's answer to a poll: any, since the device changes as it    *)
(* likes.  read_state makes up a state for want of one.                    *)
Answered(t, answer) ==
    /\ hand' = [hand EXCEPT ![t] = answer]
    /\ reported' = reported \cup {answer.value}

Polls(t) ==
    /\ entry = NoEntry
    /\ \/ \E value \in Values : Answered(t, [from |-> "poll", value |-> value])
       \/ /\ watched.makesUp
          /\ hand' = [hand EXCEPT ![t] = [from |-> "nothing", value |-> "default"]]
          /\ UNCHANGED reported
    /\ UNCHANGED entry

(* What was answered before the cache changes is out of date, unless other *)
(* states are on their way to it.                                          *)
Dates(others, answers) ==
    reported' = IF \A u \in others : hand[u] = NoEntry THEN answers ELSE reported

(* cache.set. *)
Answers(state) == IF state.from = "nothing" THEN {} ELSE {state.value}
Stores(t, state) ==
    /\ entry' = state /\ hand' = [hand EXCEPT ![t] = NoEntry]
    /\ Dates(Tasks \ {t}, Answers(hand[t]))

(* What is found in a state; a key that is missing has the default.        *)
Found(e) == IF e.from = "command" /\ watched.renamed THEN "default" ELSE e.value

(* What a confirmed command caches. *)
Expectation(t) ==  \* mutant: the expected state, and no other field
    [from |-> "command",
     value |-> IF job[t].order = None THEN "default" ELSE job[t].order]
Confirmed(t) == hand[t]

-----------------------------------------------------------------------------
(* add, and remove. *)
AddFirst ==  \* mutant: rules.insert(0, rule)
    /\ added < MaxRules /\ added' = added + 1
    /\ rules' = <<added + 1>> \o rules
    /\ UNCHANGED <<capability, loop, round, phase, job>>

add ==
    /\ added < MaxRules /\ added' = added + 1
    /\ rules' = Append(rules, added + 1)
    /\ UNCHANGED <<capability, loop, round, phase, job>>

remove(i) ==
    /\ i \in DOMAIN rules /\ rules' = RemoveAt(rules, i)
    /\ disturbed' = [t \in Tasks |->
                      disturbed[t] \/ phase[t] \in {"visiting", "polling", "acting", "awaiting"}]
    /\ UNCHANGED <<capability, added, loop, index, left, visited, phase, job>>

(* start: create_task. *)
start ==
    /\ started < MaxStarts /\ started' = started + 1
    /\ task' = started + 1 /\ phase' = [phase EXCEPT ![started + 1] = "new"]
    /\ doubled' = (doubled \/ \E t \in Tasks : Alive(t)) /\ stopped' = FALSE
    /\ UNCHANGED <<capability, list, running, round, job>>

OnlyTheFlag ==  \* mutant: the task is not cancelled
    /\ started > 0 /\ running' = FALSE /\ stopped' = TRUE
    /\ UNCHANGED <<capability, list, task, started, doubled, round, phase, job>>

(* stop: the flag, and cancel(): the task ends where it awaits, or before  *)
(* it began.  A command that a thread has begun goes on without it.        *)
stop ==
    /\ started > 0 /\ running' = FALSE /\ stopped' = TRUE
    /\ RoundOf(task, "ended") /\ left' = [left EXCEPT ![task] = 0]
    /\ \/ UNCHANGED job
       \/ job[task].at = "reading" /\ job' = [job EXCEPT ![task] = NoJob]
    /\ UNCHANGED <<capability, list, task, started, doubled>>

-----------------------------------------------------------------------------
(* run, a task. *)

Begin(t) ==
    /\ phase[t] = "new" /\ running' = TRUE /\ RoundOf(t, "visiting")
    /\ UNCHANGED <<capability, list, task, started, doubled, stopped, left, job>>

(* The for loop's next rule, of the list as it is now. *)
Comes(t) ==
    /\ phase[t] = "visiting" /\ index[t] <= Len(rules)
    /\ index' = [index EXCEPT ![t] = @ + 1]
    /\ visited' = [visited EXCEPT ![t] = Append(@, rules[index[t]])]

(* It is disabled. *)
Skip(t) ==
    /\ Comes(t)
    /\ UNCHANGED <<capability, list, loop, left, disturbed, phase, job>>

(* Its actions, or its else_actions, follow; there may be none. *)
Follow(t) ==
    \E n \in 0..MaxActions :
        /\ left' = [left EXCEPT ![t] = n]
        /\ phase' = [phase EXCEPT ![t] = IF n = 0 THEN "visiting" ELSE "acting"]

(* Its condition is evaluated, on the value found in the cached state; its *)
(* operator and operand may hold of any.                                   *)
Evaluate(t) ==
    /\ Comes(t) /\ Follow(t)
    /\ entry # NoEntry
    /\ UNCHANGED <<capability, list, loop, disturbed, job>>

(* There is none: the device is polled ... *)
Poll(t) ==
    /\ Comes(t) /\ phase' = [phase EXCEPT ![t] = "polling"]
    /\ Polls(t)
    /\ UNCHANGED <<watched, list, loop, left, disturbed, job>>

(* ... and the state made of its answer is cached and evaluated on.        *)
EvaluatePolled(t) ==
    /\ phase[t] = "polling" /\ Follow(t)
    /\ Stores(t, hand[t])
    /\ UNCHANGED <<watched, list, loop, index, visited, disturbed, job>>

RaiseOut(t) ==  \* mutant: the exception is not caught, and ends the task
    /\ Comes(t) /\ phase' = [phase EXCEPT ![t] = "ended"]
    /\ UNCHANGED <<capability, list, loop, left, disturbed, job>>

(* It raises, the hub having no such device at this time, or read_state no *)
(* answer, or the operator no such operand: it does not hold.              *)
Raise(t) ==
    /\ Comes(t) /\ Follow(t)
    /\ UNCHANGED <<capability, list, loop, disturbed, job>>

(* The round is over; after the interval there is another, while the flag  *)
(* is set.                                                                 *)
Sleep(t) ==
    /\ phase[t] = "visiting" /\ index[t] > Len(rules)
    /\ RoundOf(t, "sleeping")
    /\ UNCHANGED <<capability, list, loop, left, job>>

Wake(t) ==
    /\ phase[t] = "sleeping"
    /\ \/ running /\ RoundOf(t, "visiting")
       \/ ~running /\ RoundOf(t, "ended")
    /\ UNCHANGED <<capability, list, loop, left, job>>

(* An action, after its delay: the command is handed to a thread. *)
Act(t, order) ==
    /\ phase[t] = "acting"
    /\ phase' = [phase EXCEPT ![t] = "awaiting"]
    /\ job' = [job EXCEPT ![t] = [at |-> "reading", order |-> order]]
    /\ UNCHANGED <<capability, list, loop, round>>

Done(t) ==
    /\ left' = [left EXCEPT ![t] = @ - 1]
    /\ phase' = [phase EXCEPT ![t] = IF left[t] = 1 THEN "visiting" ELSE "acting"]

(* The hub has no such device, or the device no such method: on to the     *)
(* next action.                                                            *)
Fault(t) ==
    /\ phase[t] = "acting" /\ Done(t)
    /\ UNCHANGED <<capability, list, loop, index, visited, disturbed, job>>

(* The command has returned, or raised. *)
Acted(t) ==
    /\ phase[t] = "awaiting" /\ job[t].at = "done" /\ Done(t)
    /\ job' = [job EXCEPT ![t] = NoJob]
    /\ UNCHANGED <<capability, list, loop, index, visited, disturbed>>

-----------------------------------------------------------------------------
(* The command's thread. *)

JobTurns(t, from, next) ==
    /\ job[t].at = from /\ job' = [job EXCEPT ![t] = next]
    /\ UNCHANGED <<watched, list, loop, round, phase>>

JobGoes(t, from, to) == JobTurns(t, from, [at |-> to, order |-> job[t].order])
JobEnds(t, from) == JobTurns(t, from, Ended)

(* The state before, polled ... *)
JobPolls(t) == JobGoes(t, "reading", "storing") /\ Polls(t)
JobStores(t) == JobGoes(t, "storing", "confirming") /\ Stores(t, hand[t])

(* ... or cached; or not read, which is ignored; then the send. *)
JobSends(t) == JobGoes(t, "reading", "confirming") /\ UNCHANGED <<entry, hand, reported>>

(* The send has failed, or no poll saw what was expected. *)
JobFails(t) == JobEnds(t, "confirming") /\ UNCHANGED <<entry, hand, reported>>

(* A poll did: the event is emitted, the answer cached. *)
JobConfirms(t) ==
    /\ JobGoes(t, "confirming", "caching")
    /\ \E value \in Values :
          /\ job[t].order \in {None, value}
          /\ Answered(t, [from |-> "command", value |-> value])
    /\ UNCHANGED entry

JobCaches(t) == JobEnds(t, "caching") /\ Stores(t, Confirmed(t))

(* emit has raised, and the answer is lost. *)
JobRaises(t) ==
    /\ JobEnds(t, "caching")
    /\ hand' = [hand EXCEPT ![t] = NoEntry] /\ UNCHANGED <<entry, reported>>

Job(t) ==
    \/ JobPolls(t) \/ JobStores(t) \/ JobSends(t) \/ JobFails(t) \/ JobConfirms(t)
    \/ JobCaches(t) \/ JobRaises(t)

-----------------------------------------------------------------------------
Expire ==
    /\ entry # NoEntry /\ entry' = NoEntry
    /\ Dates(Tasks, {})
    /\ UNCHANGED <<watched, hand, list, loop, round, phase, job>>

Round(t) ==
    \/ Begin(t) \/ Skip(t) \/ Evaluate(t) \/ Poll(t) \/ Raise(t) \/ Sleep(t) \/ Wake(t)
    \/ Fault(t) \/ Acted(t)
    \/ \E order \in watched.orders : Act(t, order)

(* The event loop: it runs one task until that awaits something; a poll it *)
(* waits for itself.                                                       *)
LoopFree == \A t \in Tasks : phase[t] # "polling"
LoopRuns ==
    \/ \E t \in Tasks : EvaluatePolled(t)
    \/ LoopFree /\ \E t \in Tasks : Round(t)

EngineNext ==
    \/ add \/ \E i \in Rules : remove(i)
    \/ LoopFree /\ (start \/ stop)
    \/ LoopRuns
    \/ \E t \in Tasks : Job(t)
    \/ Expire

(* The event loop runs on, some task or other, and so do the executor's    *)
(* threads: a timer ends, and so does a command, all it calls having       *)
(* timeouts.                                                               *)
EngineSpec ==
    /\ EngineInit /\ [][EngineNext]_engineVars
    /\ WF_engineVars(LoopRuns) /\ WF_engineVars(\E t \in Tasks : Job(t))

-----------------------------------------------------------------------------
(* A rule fires on evidence: the value its condition is evaluated on is    *)
(* that of the device's last answer to have been cached, or of another one *)
(* that was on its way to the cache at the same time, although the         *)
(* commands of other tasks poll and cache on threads of their own.         *)
(* Only a state made up without an answer, or a key that a command's       *)
(* answer has under another name, can mislead it.                          *)
FiresOnEvidence ==
    [][\A t \in Tasks : (Evaluate(t) \/ EvaluatePolled(t)) /\ ~watched.renamed =>
          entry'.from = "nothing" \/ Found(entry') \in reported']_engineVars

(* A round comes to every rule of the list, in its order and once, although *)
(* rules are added while it waits for actions, unless one was removed.     *)
EveryRuleOnce ==
    [][\A t \in Tasks : Sleep(t) /\ ~disturbed[t] => visited[t] = rules]_engineVars

(* A round may miss a rule when one is removed while it waits, but it never *)
(* comes to one twice: no action is taken twice on one evaluation.         *)
NoRuleTwice == \A t \in Tasks : IsInjective(visited[t])

(* After stop(), and until the next start(), no task of the engine is left *)
(* to evaluate a rule, wherever it was, unless one was started while       *)
(* another lived: stop() knows of the last one only.                       *)
StopEnds == stopped /\ ~doubled => \A t \in Tasks : ~Alive(t)

(* Whatever is added or removed, and however conditions and commands fail, *)
(* a rule that stays in the list of a running engine is come to again.     *)
RulesKeepRunning ==
    \A r \in Rules :
        (task # 0 /\ ~stopped /\ r \in ToSet(rules))
            ~> (stopped \/ r \notin ToSet(rules) \/ \E t \in Tasks : r \in ToSet(visited[t]))
=============================================================================
