# A TLA+ verification of FuseIOT

FuseIOT is a Python library that controls IoT devices: a `Hub` registers
*capabilities* (a relay, a motor, a lock), each of which talks to one device
over a *protocol*, sends commands through a resilience layer, confirms them by
polling, and keeps the device's state in a shared cache that several threads
use. This directory holds TLA+ modules for its concurrent core, the TLC runs
that check them, and TLAPS proofs of what holds for every size of instance.
Source lines below are relative to `src/fuseiot/`. `PROJECT.json` maps every
definition to its lines and lists every component and hazard.

## Inventory

| component | state | operations | what makes it correct |
|---|---|---|---|
| Circuit breaker (`utils/circuit_breaker.py`) | `_state`, counts, trial slots, time of the last failure | the `state` property, `can_execute`, `record_*`, the decorator | stays open for the whole timeout; closes only after trials; slots are never lost; recovery is tried |
| Rate limiters (`utils/rate_limiter.py`) | list of timestamps; tokens and the time of the last refill | `allow`, `time_until_next`, `current_count` | no window or interval exceeds its allowance; announced waits are right |
| State cache (`state/cache.py`) | ordered entries with a timestamp and a TTL | `get`, `set`, `invalidate*`, callbacks | size bound, LRU order, freshness, agreement with the backend |
| Persistence (`state/persistence.py`) | one row per key | `store`, `get` | the row is the value set last |
| Event bus (`state/events.py`) | three tables of subscribers | `subscribe*`, the unsubscribe functions, `emit` | everybody subscribed hears, nobody else does, no deadlock |
| Command pipeline (`capabilities/base.py`, `state/confirm.py`, `result.py`) | the call in progress; the cache, breaker and device it uses | `_send_and_confirm`, `read_state` | confirmed means reached; the cache does not contradict the device, as far as its answers tell of it |
| Other capabilities (`capabilities/*.py`) | none beyond the pipeline's | what each reads, shows, sends and expects | a property shows what the device reported |
| Hub (`hub.py`) | registry, counters | `add_device`, `get`, `find`, `remove`, `clear`, `stats` | limits and counters exact |
| Batch operations (`hub.py`, `batch`) | tasks, semaphore, results | both modes of `continue_on_error` | the limit holds; stops at a failure; ends |
| MQTT (`protocols/mqtt.py`) | client, flag, subscriptions, one response queue | `connect`, `disconnect`, `subscribe`, `send`, paho's callbacks | a reply on a quiet topic answers its own request; subscriptions survive reconnections; closed stays closed |
| HTTP, WebSocket, serial (`protocols/http.py`, `web_socket.py`, `serial.py`) | state, handles, buffers of replies | `connect`, `disconnect`, `send`, the message handler | a reply on a quiet line answers its own request; how often a command is carried out; connected means there is a connection |
| Retry, async tools (`utils/retry.py`, `utils/async_tools.py`) | attempt counter, lock | decorators, `AsyncLock` | bounded attempts, the right exceptions |
| Rule engine (`edge/rules.py`) | list of rules, a task | `add`, `remove`, `evaluate`, `run`, `start`, `stop` | rules fire on what the device reported; a round comes to every rule; stop stops; failures end nothing |
| Simulation, health, metrics, discovery, cloud, dashboard, history, CLI, configuration | little or none | input and output | not modelled (below) |

Interactions. `Hub.add_device` gives every capability the hub's cache and event
bus. A command takes the breaker's lock twice, then the limiter's; reads the
cache (its lock) or polls the protocol; sends; polls again; emits an event
(the bus's lock, then callbacks outside it) and sets the cache (its lock, cache
callbacks inside it, then the backend outside it). No lock spans two of these
steps, so other threads run between any two: that is where most of the hazards
are. The hub's own lock is only held by the registry's operations, of which
`remove` and `clear` also call the cache and the protocol. On the asynchronous
side, `batch` and the rule engine hand commands to threads of the event loop's
executor, so the pipeline below runs concurrently with the loop; the MQTT
client has a network thread of its own, a WebSocket a task that fills its queue.

## Modules

**CircuitBreaker** has one action per locked step: `ReadState` and `Admit` or
`Reject` are the two halves of `can_execute` (a thread decides on a state it
read before another took the lock), `RecordSuccess`, `RecordFailure` and
`Interrupt` the ends of the wrapped call, the last for an exception that
`except Exception` does not see. Time is the age of the last failure, up to the
recovery timeout. `BreakerContract` is the abstract specification; `sinceOpen`
is a history variable that maps to it.

**StateCache** splits `set` where the code does: the timestamp before the lock,
the insertion with eviction and notification under it, the write to the backend
after it. `get` is a hit, a stale entry's removal, or the restoration of a
persisted row. `Restart` loses the cache and may set the monotonic clock back.
`LRUContract` is the abstract cache: its recency relation is `newer` here, a
history of the uses that knows nothing of the `OrderedDict`, so that the refinement
says the key at the front of `order` is the one used longest ago. `lastSet` and
`notified` are history variables too.

**Command** composes CircuitBreaker (`Breaker == INSTANCE CircuitBreaker`) with
the pipeline of one Switchable: each action moves one thread from one call to
the next, and the device applies an accepted command some time later. What a
poll is answered (`Answers`) is what `protocol.send` may return: the device's
state, an answer without the field, or, once the line is out of step
(`LineSlips`, for the protocols that go by order, over-approximated: at any
time), anything. `vague` and `doubtful` are histories of answers that did not
tell of the device, in a thread's hand and in the cache. The cache
is reduced to this capability's entry, which may disappear at any time, and the
limiter to its verdict. `ResultClasses` says which `CommandResult` is built:
`base.py` is written for the fields of `/result.py` and imports
`fuseiot/result.py`, which has fewer, so the constructor raises; the passing
run has both, so that what it shows survives the import being put right.

**RateLimiter** has both limiters on one clock. Tokens are counted in units,
`Token` of them to a token, so rates need not be whole. `TokenWait` is computed as
the code does, from the tokens at the last update and not from those of now.
`admitted`, `spent`, `spentBefore` and what a waiting caller was told are
history variables.

**EventBus** treats the three tables as one relation between topics and
callbacks, as `emit` does. The lock is held from `Collect` to `Release`. A
callback in progress may subscribe, unsubscribe and emit; `within` links the
nested call to its caller. What an event is owed (`Entitled`) is stated apart
from what `emit` collects (`Subscribed`). A callback without a `__name__` that raises makes the
handler itself raise (events.py:153): `Escape`.

**Hub** has `add_device` in three steps (connect; create; register or refuse
under the lock), and `remove` and `clear` in one each, for they keep the lock.
Capabilities are known by the address of their object, which `Free` gives back.
`LinkLost` takes a connection away at any time, as the protocols themselves do
when `is_connected` changes by itself, or the application that disconnects one.

**Batch** has one action for each point where a task of `Hub.batch` can wait:
the semaphore, a thread of the executor, the end of the method, the release.
An operation of an `AsyncCapability` runs on the loop and takes no thread. What
a method ends with is one of the outcomes the code tells apart: a confirmed, an
unconfirmed or a failed result, an exception that the handler could not make a
result of (the constructor again), or the plain value of a read method, which
has no `success`. `Gather` and `Collect` are the two modes.

**Capabilities** is no state machine: it is what the eight kinds of
capabilities differ in, as tables. A kind `keeps` fields of the device's answer
under keys, by one name or by alternative ones (`state` for a switch's `power`,
`reading` for a sensor's `value`), `shows` properties that look keys up,
`makesUp` a state when there is no answer or raises, and has `orders` that set
fields and expect to see them. `Profile` is what a watcher of one name can tell them apart by; a
smart plug's are those of its switch and its meter.

**RuleEngine** puts those under the engine: a rule's condition is evaluated on
the cached state, a poll or a made-up state, and its actions are commands on
threads, reduced to their reads, the confirming poll and what they cache. Poll
and `cache.set` are separate steps (`hand` is what lies between them), for the
loop and for each command, so that an older answer may be cached over a newer
one. A poll of the loop blocks it (`LoopFree`). A task awaits in `awaiting`,
`acting` (a delay) and `sleeping`; `stop` cancels at any of them, or before the
task has begun, and a command on its thread goes on. `index` is the position of
Python's `for` over the live list, so that additions and removals have their
effect. `reported` is the history of the answers that may be the latest.

**Mqtt** has the threads that send, the one that connects and disconnects, the
one that subscribes, and the network thread of each client made. `on_connect`
iterates over the subscriptions, one `Resubscribe` a topic, and dies if the
dictionary grows meanwhile, as Python's iterator does. A message has its topic and
the request that it answers, if any: the queue takes all that come on a
subscribed topic, asked for or not (`on_message`, `on_message_unasked`).
`alone` is the history of requests that found their topic quiet and have had it
to themselves since, `abandoned` that of clients that `connect` replaced and
left running. Broker, device and paho are the environment: links go down,
answers are late, repeated or lost, and messages are published unasked.

**Transport** has the other three protocols on their common base. HTTP's
answers come with their requests; a WebSocket's and a serial line's collect in
`buffer`, with whatever the device sends unasked (`Push`), and are taken in
order. `connect` and `disconnect` are split at their awaits. A message handler
ends when its connection is lost or closed by the far end (`HangUp`), or with
its event loop (`LoopEnds`), as when a synchronous `connect` returns from
`asyncio.run`; a synchronous WebSocket `send` whose loop is stopped under it
sends once more (`SendAgain`). `alone`, `cancelled`, `stopped` and `overlapped`
are histories of what the properties depend on. HTTP's `send_async` carries its
retry decorator: what it raises (`Wrapped`) decides whether it tries again.

`MC*` modules hold the constants of the small instances; `*Proofs` modules the
theorems. UtilsProofs and EventLoopProofs hold those of two components each,
which have nothing to do with one another; that is why RateLimiter and
RuleEngine put a prefix to `Init`, `Next` and the like.

## Runs

Passing runs:

| run | question | instance |
|---|---|---|
| `breaker` | counters, slots, contract and recovery under every interleaving of the locked steps | 3 threads, threshold 2, 2 trial calls, timeout 2, interrupts |
| `cache_volatile` | size bound, LRU refinement, notifications | 3 keys in a cache of 2, 2 threads, per-key TTLs, `max_age`, no backend |
| `cache_persistent` | the backend's row across failures, evictions and restarts | 2 keys in a cache of 1, one writer per key |
| `command` | confirmation, cache consistency | 2 threads, threshold 1, failing sends, fieldless answers, a line that falls out of step, manual operation, limiter |
| `rate` | window and burst bounds, the window's announced wait, the bucket's promise to who comes back | 2 requests per 3 ticks; capacity 4/3 tokens, 2/3 of a token per tick; 7 instants |
| `events` | delivery and termination of `emit` | 2 calls, 2 devices, 2 topics, 2 callbacks, one nameless |
| `hub` | limits and counters with overlapping additions and lost links | 2 threads, 3 capabilities, 2 protocols, limit 2, 3 registrations |
| `batch` | the limit of concurrency, what a stopping batch reports, and that every batch and every operation ends | 4 operations, one asynchronous, 2 permits, 1 thread |
| `rules` | what conditions are evaluated on, the order of a round, `stop`, and that no failure ends the engine | the widest profile of any capability, 2 rules of at most 1 action, 2 starts |
| `mqtt` | whose answer a send returns, subscriptions across reconnections, late callbacks after a disconnection | 2 senders, 2 topics, one of them with a handler, 2 requests, 2 clients, 1 link lost, answer repeated or message unasked |
| `transport` | whose answer a send returns, repeated commands, the connection state, over each of the three protocols | 2 calls, 2 sessions, sockets or ports, 1 unasked message waiting, 1 stopped loop, 3 attempts |

One run shows the code against what is said of it: in `command_result_class`
(`CommandReturns`) every command raises `TypeError` after the device was
commanded, though `_send_and_confirm` "returns CommandResult with full lifecycle
tracking" (base.py:136), because the class that base.py imports lacks the
fields it passes.

Bounds. `MaxFailureCount` stops `_failure_count` above the threshold: the code
compares it with the threshold and moves it by one, so values beyond `threshold
+ 1` only postpone the return; the proofs hold for any bound. `MaxTime` stops
the clock; it exceeds every TTL or window, so entries expire and windows pass.
`MaxRegistered` stops additions one above `MaxDevices`, so that an id is used
again and the limit is reached; three capabilities for two places give an
address to reuse and an addition to refuse. Two threads are enough for every
race of two locked steps in Command and Hub; the breaker has three, so that
late outcomes of two calls meet a third caller. Batch has more operations than
permits, more permits than threads, and an operation that needs no thread.
Two requests and two clients give Mqtt an answer for the wrong sender, a
timed-out request before another, and a client replaced while it runs;
`MaxFaults` is a link lost, an answer repeated or a message unasked. Three
requests would be needed for a topic to be disturbed, grow quiet, and be used
again; what `alone` says of that is proved, for any number of requests. Two
handles let Transport connect, lose, and connect again around two overlapping or
consecutive calls, one unasked message and one stopped loop put a line out of
step. Two rules and two starts let a rule be added or removed on either side of
the loop's position and an engine be started twice, and the first task's command
outlive it; of all profiles `Widest` is the one whose behaviours include the
others'.

What is left of an environment is nondeterministic: a send may fail with or
without effect, a device acts late or never, an entry may vanish, a backend may
refuse, a disconnection may raise, a link may go down. `CHECK_DEADLOCK` is off
where a bound on requests, rounds or registrations lets an instance come to its
end.

Fairness, only where a liveness property needs it. `breaker`: time passes,
callers keep calling, and wrapped calls end (weak fairness of `Tick`, `Call`,
`Return`): what a hub in use provides, since every protocol call has a timeout.
Return does not have to be a recorded outcome: `HalfOpenDecides` therefore
excepts the interrupted trial call, after which nothing ever decides (there is
no other way out of a `HALF_OPEN` state without a free slot). `events`: a
thread inside `emit` runs on (weak fairness of `Work`), one that waits for the
lock gets it in the end, and a callback ends although it emits in turn (strong
fairness of `Collect` and `CallbackEnds`, which are disabled while another call
holds the lock or a nested call is open). `batch`: something happens as long as
something can (weak fairness of `Next`): the loop and the executor run on, and
every method ends, since what it calls has a timeout; no order among the
operations is assumed, and none starves since each ends after a bounded number
of steps. `rules`: the event loop runs some task that can run, not a
particular one, and some thread of the executor goes on (weak fairness of a
round's step of any task, and of a step of any job).

## Proofs

All with TLAPS, from the named assumptions on constants, for every number of
threads, keys, callbacks, devices, clients, rules, calls and operations and
every threshold. Each is an inductive invariant: it holds initially, every step
keeps it, and it implies the property; each action has its step. Only four
theorems assume more, which their statements say: `CacheObserverInSync`,
`CacheSizeBound` and `CacheImplementsLRU` that the hub has no persistent
backend (its default; with one they are false, see below), `CacheDurable` that
each key has one writer.

* **UtilsProofs**, the breaker: types, `ClosedBelowThreshold`,
  `ProbesAccountedFor`, `NoWedge`, and the refinement of `BreakerContract`. The
  properties are not inductive: that the circuit stays open for the whole
  timeout needs `FailureAfterOpening` (the last failure of an open circuit is no
  older than its opening, though late failures keep refreshing it). `Running` is
  finite, and each step's effect on its cardinality is a lemma.
* **UtilsProofs**, the limiters: types, `WindowBound`, `BurstBound`,
  `WaitIsExact`, `PromiseKept`. The list of timestamps contains every
  admission of the present window, since time only moves forward
  (`PruneKeepsWindow`), and never more than the limit (`ListBound`), so the
  caller that is refused waits for the oldest of exactly `Requests` of them: one
  tick sooner that one still counts, then it does not. The bucket's tokens and
  the units spent since any time are together covered by the capacity and the
  refills. That a caller who comes back when it was told to finds a token rests
  on `Promised`: at every time announced, the tokens of the last update and the
  refill since will be enough, and a refusal, which moves the update forward,
  leaves it so (rounding the wait up loses nothing, `RoundedUp`).
* **StateCacheProofs**: types; `ObserverInSync`; `Durable`, which rests on an
  account of each pending update (a value set last is either in the backend or
  in its one writer's hands); `SizeBound`; and the refinement of `LRUContract`.
  `OrderInv` says that `order` lists each key of the cache once and that a key
  before another was used before it (`newer`), so the key at the front is one
  that nothing is older than. The steps rest on what `Without` makes of a list:
  the same keys but those taken out, in the same order. Its n-th key is the one
  with n - 1 remaining keys before it; that there is one for each n is a
  counting argument (`CountedOff`: distinct ranks in `1..n`, n of them, leave
  none out), where a recursive definition would have needed an induction.
* **EventBusProofs**: types, `NobodyMissed`, `NobodySurprised`: the callbacks
  heard and still to be called lie between those subscribed throughout and
  those subscribed at some time.
* **HubProofs**: types, `CountsAgree`, `WithinMaxDevices`, from `HubInv`: the
  registry is finite, and registering, removing and clearing change its size by
  what they count.
* **CommandProofs**: types, those of the breaker inside included. A command
  holds one admission of the breaker while it is under way (`OneAdmission`).
  `ConfirmedMeansReached` rests on `Tracked`: from its send on, a call whose
  target the device is in has seen it reached, and a confirmation comes of the
  device or from a line out of step, which `vague` then says. `VerifiedConsistent`
  rests on `Lone` (a call that overlapped no other finds the cache as it left it)
  and `Agreed` (since a verification nothing is on its way to the device, and
  what threads and cache hold agrees with it or is `vague` or `doubtful`).
* **EventLoopProofs**, batches: types, `WithinConcurrency` (permits and
  operations holding one add up to `MaxConcurrent`), `StopsAtFailure` (up to the last result all are good; a count of no failures
  makes the good ones all).
* **EventLoopProofs**, the rule engine: types; `StopEnds`, from `TasksTyped` and
  `LastAlone` (unless `start` came over a living task, `task` is the only one
  alive); `FiresOnEvidence`, an action property, from `Evidence` (a state that was
  not made up, cached or on its way to the cache, has the value of an answer in
  `reported`);
  `EveryRuleOnce`, from `RoundInv`: as long as no rule is removed, a round has
  come to the rules before its position, in order, and additions only make the
  list longer. With removals a round may miss a rule, but it comes to none
  twice (`NoRuleTwice`, from `Ordered`: rules are numbered as they are added,
  and those at a round's position or after it have greater numbers than those
  it has come to). `ProfilesTyped` is an assumption without parameters, about
  the tables of Capabilities, which TLC evaluates: the provers have no
  definition of `:>` and `@@`.
* **MqttProofs**: types; `ClosedStaysClosed`, from `LinkInv` (unless `connect`
  has replaced a client, only the present one has a thread, and without one the
  fields are what `disconnect` left); `HandlersSubscribed`, from `SubsInv` (what
  `on_connect`'s iteration has passed is subscribed, and what it has not passed
  is in the dictionary it took); `OwnAnswer`, from `AnswerInv`: of a
  request that is `alone` on its topic, whatever is on its way or queued on that
  topic is its own answer.
* **TransportProofs**: types, `AtMostOnce`, `InStep`, `LossIsNoticed`,
  `ConnectedHasHandle`. A request is on its way or carried out once, or twice
  after `SendAgain`, since no call is ever ready to be tried again (`Delivery`);
  what is in the buffer while a call is `alone` is its own answer (`Order`); a
  socket that is up has its handler, or one that was cancelled (`Watched`); until
  the first overlap, opening and closing exclude each other (`Apart`).

Every invariant and action property of the passing runs is stated by a theorem.
Model-checked only: liveness (`OpenIsTried`, `HalfOpenDecides`, `EmitReturns`,
`BatchEnds`, `RulesKeepRunning`), which is out of the prover's reach.

## Observations

What the models contain and no property forbids, because nothing in the
repository promises otherwise, or because the property says what remains true.
Each is at its line in the source.

Breaker, cache and pipeline:

* `can_execute` admits a call on a state read before the circuit opened
  (circuit_breaker.py:61); the contract allows it, for the call was begun before.
* The successes of a failed trial period count in the next (`_success_count` is
  only reset on closing), so it may close after fewer successes in a row.
* A restored row enters a full cache without an eviction (cache.py:100); `set`
  evicts one for each it adds, so the excess stays. `SizeBound` is therefore
  checked, and proved, without a backend.
* A persisted row is returned whatever its age (cache.py:106), and a `get`
  between a set's insertion and its write to the backend brings the previous
  row back (cache.py:167).
* Two sets of one key may reach the backend in the other order (cache.py:167).
* `max_age or entry.ttl_seconds` takes 0 for none given (cache.py:110).
* Two readers may cache their polls in the other order (switchable.py:26-30);
  a command without confirmation leaves the state from before it in the cache
  (base.py:223-237); a send that used up its timeout is a success without a
  poll (base.py:178-192); a failed send is returned and not raised, so with a
  `CommandResult` that can be constructed it never counts against the circuit
  (base.py:162-174). `VerifiedConsistent` and `ConfirmedMeansReached` say what
  remains true.
* A poll takes whatever `protocol.send` returns: an answer without the field is
  `False` (switchable.py:27), so that a silent device is cached as off, also one
  verified to be on; and on a WebSocket or serial line that is out of step a
  command is confirmed by an earlier call's answer (confirm.py:51).
* A callback that raises and has no `__name__` makes `emit` raise
  (events.py:153): the callbacks that remain are not called, the command's result
  is lost with the cache update (base.py:216-218), and the breaker records a
  failure of a command that was confirmed.
* `TokenBucket.time_until_next` does not refill (rate_limiter.py:47-54): it
  announces the wait as of the last update, which overstates it (`PromiseKept`
  says that it is never too short).
* The event is emitted before the cache is updated (base.py:216): a subscriber
  that reads the state sees the one before.
* A command over the rate limit raises `AttributeError`: neither limiter has
  both of the attributes that the exception is given (base.py:143).
* `max_attempts` times `poll_interval` bounds a confirmation whatever timeout is
  asked for (confirm.py:18): the 30 s of Motor's `home` are 20 attempts.

Hub and batch:

* A removed device's state is served to the next capability at its address
  (base.py:57, hub.py:202): the cache is invalidated under the hub's id.
* Events carry the capability's id, `on_state_change(device_id=...)` subscribes
  under the hub's (hub.py:324, base.py:92): with a chosen id they do not meet.
* A refused `add_device` leaves its protocol connected (hub.py:128).
* `add_device` asks `is_connected` once (hub.py:97). Afterwards a link may go
  down, or `remove` disconnect a protocol that other devices use (hub.py:206);
  the device stays registered and nothing reconnects it.
* `remove` takes the cache's lock inside the hub's (hub.py:202); a cache
  callback, which runs inside the cache's lock, must not call the hub.
* A batch told to stop leaves its other operations running; `successful +
  failed` is then less than `total`. A read method's value has no `success`:
  the totals raise (hub.py:297).

Transports:

* MQTT: `connect` on a live client leaves its loop running, and its callbacks
  set and clear the flag of the new one; the reply topic is subscribed after
  the request is published, so a fast reply is lost; a sender drops the replies
  that are another's; the unsubscription at the end of a send severs a handler's
  subscription to the same topic; a message published unasked on the reply topic
  is taken for the reply (mqtt.py:107, 211); `subscribe` during `on_connect`'s iteration
  ends the network thread; messages for handlers are queued too and nobody takes
  them; a handler that calls `send` waits on its own thread. MQTTS with
  `ca_certs` uses a client that is not there yet.
* An answer to a command may be no answer about the device: `{"published": ...}`
  of MQTT and `{"sent": True}` of a silent serial line go where states go.
* WebSocket and serial buffers are never flushed, and take what is sent unasked:
  once out of step, every later answer is an earlier call's or none's. A
  WebSocket that is closed in order stays CONNECTED; so does one whose handler
  was cancelled with the loop of a synchronous `connect` (web_socket.py:70-77:
  `CancelledError` is no `Exception`), and its loss goes unnoticed, which
  `LossIsNoticed` excepts; a synchronous `send` whose loop is stopped sends twice
  (132); a failure noticed by an old socket's handler marks the new connection; a
  `disconnect` that overlaps a `connect` clears the newer handle.
* HTTP: a synchronous `connect` with a bad status leaves the state as it was;
  `disconnect` closes one of the two sessions. Nothing is ever retried, though
  README.md:13 advertises "automatic retries" and tests/test_http.py:171 is
  named for it: the decorated `send_async` wraps every error in one that is not
  retried (http.py:201), the others are not decorated. `AtMostOnce` shows it,
  and `PROJECT.json` lists it as a finding; it also keeps a command whose answer
  was lost from being carried out twice.

Capabilities and rules:

* A confirmed command caches the device's answer itself, not the state that
  `read_state` would make of it: RGBLight's `color`, EnergyMonitor's power and
  frequency, and what came under an alternative name (`state`, `reading`) are not
  found there, and the property shows its default until the entry
  expires (`FiresOnEvidence` excepts such keys).
* A state made up for want of an answer is cached for its whole TTL, and rules
  fire on it.
* EnergyMonitor's `reset_counter` expects a key that no answer has;
  `move_to_async` expects a position that was not clamped.
* A condition that raises counts as one that does not hold: `else_actions` run.
  Removing a rule during a round makes the loop skip another; a second `start`
  leaves the first task running, which `stop` does not know of; a cancelled
  action's command is carried out all the same.

## Not modelled

* Simulation: a test double of a device; Command's `device` is the environment
  it stands for. (`VirtualDevice.connect` overwrites the `_state` dictionary with
  the connection state.)
* Health and metrics: counters and a server that read the others' state.
* Discovery, cloud bridges, dashboard: thin clients of vendors' libraries.
* State history, `cleanup`, `delete` and `get_all` of the backends, `retry`, and
  `AsyncLock` with the other async tools: nothing in the repository calls them.
* Command line, configuration, types, exceptions, logging: argument parsing,
  data classes and formatting.
* Of modelled parts: the wall clock being set back (breaker), the locks of hub,
  cache and bus taken together, `on_state_change`, the values of numbers and the
  attributes of configurations, metrics and statistics; what MQTT's `connect`
  returns; a WebSocket's loop that was stopped and is run again; in the rule
  engine, callers other than its own tasks' commands (whose threads take the
  same steps as the command of a task that was stopped), and rules that watch
  different names (a run has one, any, for all its rules).
* Nothing is claimed of a device whose link is down (Hub), of calls that
  overlap (Command, a line's or a topic's in Transport and Mqtt), or of a cache
  with a backend but `Durable`.

What could come next: the locks of Hub, StateCache and EventBus in one module,
with callbacks that call back; a composition of RuleEngine with Batch over one executor.
