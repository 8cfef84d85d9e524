---------------------------- MODULE RateLimiter ----------------------------
(***************************************************************************)
(* utils/rate_limiter.py: the sliding window RateLimiter and TokenBucket,  *)
(* one of each, on the same clock.  Every method runs under its limiter's  *)
(* lock, so each is one step whatever the threads that call it.  Time is   *)
(* counted in ticks; the bucket's floating point tokens are counted in     *)
(* units, Token of them to a token, so that a rate need not be whole.      *)
(***************************************************************************)
EXTENDS Integers, Sequences, FiniteSets

CONSTANTS
    Requests,  \* RateLimiter.requests
    Window,    \* RateLimiter.window, in ticks
    Token,     \* TokenBucket: the units that make a token
    Rate,      \* TokenBucket.rate, in units per tick
    Capacity,  \* TokenBucket.capacity, in units
    Amounts,   \* the units TokenBucket.allow is asked for
    MaxTime    \* bound: time.monotonic() stops here

ASSUME LimiterAssumption ==
    /\ Requests \in Nat \ {0}
    /\ Window \in Nat \ {0}
    /\ Token \in Nat \ {0}
    /\ Rate \in Nat \ {0}
    /\ Capacity \in Nat
    /\ Amounts \subseteq Nat
    /\ MaxTime \in Nat

VARIABLES
    now,         \* time.monotonic()
    admitted,    \* history: the time of each request admitted, in order
    timestamps,  \* _timestamps: the admitted requests it still lists
    tokens,      \* _tokens, in units
    lastUpdate,  \* _last_update
    spent,       \* history: units spent so far
    spentBefore, \* history: units spent before each time
    due          \* history: when the callers that the bucket told to wait come back,
                 \* forgotten when anybody takes tokens

window == <<admitted, timestamps>>
bucket == <<tokens, lastUpdate, spent, due>>
limiterVars == <<now, window, bucket, spentBefore>>

LimiterTypeOK ==
    /\ now \in Nat
    /\ admitted \in Seq(0..now)
    /\ timestamps \in SUBSET DOMAIN admitted
    /\ tokens \in 0..Capacity
    /\ lastUpdate \in 0..now
    /\ spent \in Nat
    /\ spentBefore \in [0..now -> Nat]
    /\ due \subseteq Nat

LimiterInit ==
    /\ now = 0
    /\ admitted = <<>> /\ timestamps = {}
    /\ tokens = Capacity /\ lastUpdate = 0
    /\ spent = 0 /\ spentBefore = [s \in {0} |-> 0]
    /\ due = {}

-----------------------------------------------------------------------------
WithinShorter(time) == {n \in timestamps : admitted[n] > time - Window + 1}  \* mutant: >= for >

(* The timestamps that the window ending at a time retains. *)
Within(time) == {n \in timestamps : admitted[n] > time - Window}

AdmittedAtLimit(time) == Cardinality(Within(time)) <= Requests  \* mutant

Admits(time) == Cardinality(Within(time)) < Requests

(* RateLimiter.allow, returning True and returning False. *)
Allow ==
    /\ Admits(now)
    /\ admitted' = Append(admitted, now)
    /\ timestamps' = Within(now) \cup {Len(admitted) + 1}
    /\ UNCHANGED <<now, bucket, spentBefore>>

Deny ==
    /\ ~Admits(now)
    /\ timestamps' = Within(now)
    /\ UNCHANGED <<now, admitted, bucket, spentBefore>>

(* current_count prunes the list as allow does. *)
CurrentCount ==
    /\ timestamps' = Within(now)
    /\ UNCHANGED <<now, admitted, bucket, spentBefore>>

Youngest == CHOOSE n \in timestamps : \A m \in timestamps : admitted[n] >= admitted[m]
WaitForYoungest ==  \* mutant: max for min
    IF Cardinality(timestamps) < Requests \/ admitted[Youngest] + Window <= now
    THEN 0 ELSE admitted[Youngest] + Window - now

Oldest == CHOOSE n \in timestamps : \A m \in timestamps : admitted[n] <= admitted[m]

(* RateLimiter.time_until_next; it does not prune. *)
TimeUntilNext ==
    IF Cardinality(timestamps) < Requests \/ admitted[Oldest] + Window <= now
    THEN 0 ELSE admitted[Oldest] + Window - now

-----------------------------------------------------------------------------
Refilled ==
    LET filled == tokens + (now - lastUpdate) * Rate
    IN  IF filled <= Capacity THEN filled ELSE Capacity

TakeUntouched(amount) ==  \* mutant: _last_update only moves when refused
    /\ Refilled >= amount
    /\ tokens' = Refilled - amount
    /\ spent' = spent + amount /\ due' = {}
    /\ UNCHANGED <<now, window, lastUpdate, spentBefore>>

(* TokenBucket.allow, returning True and returning False. *)
Take(amount) ==
    /\ Refilled >= amount
    /\ tokens' = Refilled - amount
    /\ lastUpdate' = now
    /\ spent' = spent + amount /\ due' = {}
    /\ UNCHANGED <<now, window, spentBefore>>

RefuseForgets(amount) ==  \* mutant: the elapsed time is dropped when refused
    /\ Refilled < amount
    /\ lastUpdate' = now
    /\ UNCHANGED <<now, window, tokens, spent, spentBefore, due>>

Refuse(amount) ==
    /\ Refilled < amount
    /\ tokens' = Refilled
    /\ lastUpdate' = now
    /\ UNCHANGED <<now, window, spent, spentBefore, due>>

(* What TokenBucket.time_until_next returns, up to a whole tick.  It does  *)
(* not refill, so that it counts the time since the last update again.     *)
TokenWait == IF tokens >= Token THEN 0 ELSE (Token - tokens + Rate - 1) \div Rate

(* A caller is told when to come back. *)
TellWait ==
    /\ due' = due \cup {now + TokenWait}
    /\ UNCHANGED <<now, window, tokens, lastUpdate, spent, spentBefore>>

-----------------------------------------------------------------------------
Elapse ==
    /\ now < MaxTime
    /\ now' = now + 1
    /\ spentBefore' = [s \in 0..now' |-> IF s = now' THEN spent ELSE spentBefore[s]]
    /\ UNCHANGED <<window, bucket>>

LimiterNext ==
    \/ Allow \/ Deny \/ CurrentCount
    \/ \E amount \in Amounts : Take(amount) \/ Refuse(amount)
    \/ TellWait \/ Elapse

LimiterSpec == LimiterInit /\ [][LimiterNext]_limiterVars

-----------------------------------------------------------------------------
(* "Request rate limiter with sliding window ... max requests": no window, *)
(* ending at any time, holds more than Requests admitted requests, though  *)
(* allow only ever looks at the list that it and current_count prune.      *)
During(time) == {n \in DOMAIN admitted : admitted[n] > time - Window /\ admitted[n] <= time}
WindowBound == \A time \in 0..now : Cardinality(During(time)) <= Requests

(* "Seconds until next request allowed": the limiter refuses a request     *)
(* until time_until_next has passed and admits one as soon as it has, for  *)
(* a list that was pruned at any earlier time.                             *)
WaitIsExact ==
    /\ Admits(now + TimeUntilNext)
    /\ \A wait \in 0..(TimeUntilNext - 1) : ~Admits(now + wait)

(* "Allows bursts up to bucket size, then rate-limited": between any two   *)
(* times the bucket gives out at most its capacity and what the rate adds. *)
BurstBound == \A s \in 0..now : spent - spentBefore[s] <= Capacity + Rate * (now - s)

(* "Seconds until next token available": a caller that comes back when it  *)
(* was told to finds a token, whatever was refused to others in between,   *)
(* unless somebody has taken tokens meanwhile.  It may come too late: the  *)
(* wait is as of the last update.                                          *)
PromiseKept == Capacity >= Token => \A time \in due : time <= now => Refilled >= Token
=============================================================================
