---------------------------- MODULE RateLimiter -----------------------------
(***************************************************************************)
(* RateLimitGuard of api-gateway: the calls of one client app, of all      *)
(* gateways, and the sorted set they share in Redis.  A guard reads the    *)
(* clock of its instance and then sends a pipeline of four commands, which *)
(* is no transaction: commands of other guards come between them, in any   *)
(* order, and time passes.                                                 *)
(***************************************************************************)
EXTENDS Faults, FiniteSets

CONSTANTS
    Attempts,       \* the calls that get past ClientAuthGuard
    Limit,          \* rateLimitPerMinute of the client app
    Window,         \* the minute of the rate limit, in ticks of the clock
    MaxSkew,        \* bound: how far the clock of an instance may be off
    MaxClock        \* bound: the last tick

ASSUME RateAssumption ==
    /\ IsFiniteSet(Attempts)
    /\ Limit \in Nat
    /\ Window \in Nat \ {0}
    /\ MaxSkew \in Nat
    /\ MaxClock \in Nat

VARIABLES
    clock,      \* the time in the world, and of Redis
    attempt,
    hits,       \* Redis: the sorted set of the app, scored with attempt[a].at
    expiresAt,  \* Redis: when it drops that set as a whole, 0 for never
    gone,       \* history: the attempts whose entry Redis has dropped
    lapsed,     \* history: it has dropped the whole set
    late        \* history: <<d, a>>: d was added too late for a to trim it

limiter == <<hits, expiresAt, gone, lapsed, late>>

rateVars == <<attempt, limiter, clock, faults>>

-----------------------------------------------------------------------------
\* at: what now is for the guard.  verdict: its count was over the limit, or not
\* ("counted"); or not, but Redis had dropped an entry of its window by then
\* ("outrun"); or Redis had failed ("uncounted").
AttemptRecord ==
    [pc: {"idle", "trim", "add", "count", "expire", "done"}, at: Nat,
     verdict: {"none", "counted", "outrun", "uncounted", "over"},
     answer: {"none", "passed", "limited", "lost"}]

RateTypeOK ==
    /\ attempt \in [Attempts -> AttemptRecord]
    /\ hits \in SUBSET Attempts
    /\ expiresAt \in Nat
    /\ gone \in SUBSET Attempts
    /\ lapsed \in BOOLEAN
    /\ late \in SUBSET (Attempts \X Attempts)
    /\ clock \in Nat \ {0}
    /\ faults \in 0..MaxFaults

RateInit ==
    /\ attempt = [a \in Attempts |->
                    [pc |-> "idle", at |-> 0, verdict |-> "none", answer |-> "none"]]
    /\ hits = {}
    /\ expiresAt = 0
    /\ gone = {}
    /\ lapsed = FALSE
    /\ late = {}
    /\ clock = 1
    /\ faults = 0

-----------------------------------------------------------------------------
AttemptAt(a, pc) == attempt[a].pc = pc

\* Every instance has a clock of its own: what Date.now() may be now.
Readings == {t \in 1..(clock + MaxSkew) : clock <= t + MaxSkew}

\* Mutant: the entry is scored with the start of the window.
ReadClock_WindowStart(a) ==
    /\ AttemptAt(a, "idle")
    /\ \E now \in Readings :
          attempt' = [attempt EXCEPT ![a].pc = "trim", ![a].at = now - Window]
    /\ UNCHANGED <<limiter, clock, faults>>

ReadClock(a) ==
    /\ AttemptAt(a, "idle")
    /\ \E now \in Readings :
          attempt' = [attempt EXCEPT ![a].pc = "trim", ![a].at = now]
    /\ UNCHANGED <<limiter, clock, faults>>

\* Redis keeps the entries of kept only, and no key for an empty set.
Keep(kept) ==
    /\ hits' = kept
    /\ gone' = gone \cup (hits \ kept)
    /\ expiresAt' = IF kept = {} THEN 0 ELSE expiresAt

\* Mutant: old entries stay.
Trim_Nothing(a) ==
    /\ AttemptAt(a, "trim")
    /\ attempt' = [attempt EXCEPT ![a].pc = "add"]
    /\ UNCHANGED <<limiter, clock, faults>>

\* Mutant: the window is one tick short, its oldest entries are dropped.
Trim_Early(a) ==
    /\ AttemptAt(a, "trim")
    /\ Keep({d \in hits : attempt[d].at + Window > attempt[a].at + 1})
    /\ attempt' = [attempt EXCEPT ![a].pc = "add"]
    /\ UNCHANGED <<lapsed, late, clock, faults>>

\* zremrangebyscore removes the scores up to now - 60000, that one included.
Trim(a) ==
    /\ AttemptAt(a, "trim")
    /\ Keep({d \in hits : attempt[d].at + Window > attempt[a].at})
    /\ attempt' = [attempt EXCEPT ![a].pc = "add"]
    /\ UNCHANGED <<lapsed, late, clock, faults>>

\* The guards between their trim and their count, in whose window d is not.
TooLateFor(d) ==
    {a \in Attempts : /\ attempt[a].pc \in {"add", "count"}
                      /\ attempt[d].at + Window <= attempt[a].at}

Add(a) ==
    /\ AttemptAt(a, "add")
    /\ hits' = hits \cup {a}
    /\ late' = late \cup ({a} \X TooLateFor(a))
    /\ attempt' = [attempt EXCEPT ![a].pc = "count"]
    /\ UNCHANGED <<expiresAt, gone, lapsed, clock, faults>>

Outrun(a) == \E d \in gone : attempt[d].at + Window > attempt[a].at

\* Mutant: zcard before zadd, the call itself is not counted.
CountOf_Others(a) == Cardinality(hits \ {a})

CountOf(a) == Cardinality(hits)

VerdictOn(a) ==
    IF CountOf(a) > Limit THEN "over"
    ELSE IF a \notin hits \cup gone THEN "uncounted"
    ELSE IF Outrun(a) THEN "outrun" ELSE "counted"

Count(a) ==
    /\ AttemptAt(a, "count")
    /\ attempt' = [attempt EXCEPT ![a].pc = "expire", ![a].verdict = VerdictOn(a)]
    /\ UNCHANGED <<limiter, clock, faults>>

Answer(a, answer) ==
    attempt' = [attempt EXCEPT ![a].pc = "done", ![a].answer = answer]

\* The set, if there is one, lives for another minute.  With the results of all
\* four commands the guard lets the call pass, or throws.
Expire(a) ==
    /\ AttemptAt(a, "expire")
    /\ expiresAt' = IF hits = {} THEN 0 ELSE clock + Window
    /\ Answer(a, IF attempt[a].verdict = "over" THEN "limited" ELSE "passed")
    /\ UNCHANGED <<hits, gone, lapsed, late, clock, faults>>

\* A Redis out of memory refuses zadd alone: the others' entries are counted.
AddFails(a) ==
    /\ AttemptAt(a, "add")
    /\ Fault("redis")
    /\ attempt' = [attempt EXCEPT ![a].pc = "count"]
    /\ UNCHANGED <<limiter, clock>>

\* So does the failure of expire alone leave the count as it is.
ExpireFails(a) ==
    /\ AttemptAt(a, "expire")
    /\ Fault("redis")
    /\ Answer(a, IF attempt[a].verdict = "over" THEN "limited" ELSE "passed")
    /\ UNCHANGED <<limiter, clock>>

\* exec() resolves with an error per command: no count is taken for 0.
RedisFails(a) ==
    /\ attempt[a].pc \in {"trim", "add", "count", "expire"}
    /\ Fault("redis")
    /\ attempt' = [attempt EXCEPT ![a].pc = "done", ![a].verdict = "uncounted",
                                  ![a].answer = "passed"]
    /\ UNCHANGED <<limiter, clock>>

\* The gateway dies; the commands it has sent are done.
GatewayCrash(a) ==
    /\ attempt[a].pc \in {"trim", "add", "count", "expire"}
    /\ Fault("crash")
    /\ Answer(a, "lost")
    /\ UNCHANGED <<limiter, clock>>

\* Time passes, also while pipelines are under way.  Redis drops the set when
\* its time to live is over.
Tick ==
    /\ clock < MaxClock
    /\ clock' = clock + 1
    /\ \/ /\ expiresAt = 0 \/ clock' <= expiresAt
          /\ UNCHANGED limiter
       \/ /\ expiresAt # 0 /\ expiresAt < clock'
          /\ Keep({})
          /\ lapsed' = TRUE
          /\ UNCHANGED late
    /\ UNCHANGED <<attempt, faults>>

RateNext ==
    \/ \E a \in Attempts :
          \/ ReadClock(a) \/ Trim(a) \/ Add(a) \/ Count(a) \/ Expire(a)
          \/ AddFails(a) \/ ExpireFails(a) \/ RedisFails(a)
          \/ GatewayCrash(a)
    \/ Tick

RateSpec == RateInit /\ [][RateNext]_rateVars

-----------------------------------------------------------------------------
\* Of the calls with a time in one window the guards let at most Limit pass by a
\* count that missed none of them, from however many gateways, with whatever
\* clocks, and in whatever order their commands reach Redis.
Within(t, a) == attempt[a].at <= t /\ t < attempt[a].at + Window

AdmittedWithinLimit ==
    \A t \in 0..(MaxClock + MaxSkew) :
       Cardinality({a \in Attempts : /\ attempt[a].verdict = "counted"
                                     /\ Within(t, a)}) <= Limit

\* A count may miss a call of the window, and one too many may pass, only if a
\* call with a later time had come before and trimmed by it, or if Redis dropped
\* the whole set: calls that reach Redis in the order of their times, within the
\* life of the set, are all counted.
OutrunByLater ==
    \A a \in Attempts :
       attempt[a].verdict = "outrun" =>
          lapsed \/ \E e \in Attempts : attempt[e].at > attempt[a].at

\* A call is refused only after more than Limit calls reached Redis, itself and
\* refused ones included, each in the window that ends with it or with a time
\* later still; an older one counts only if it came in between the commands of
\* the refused call.
Rated(a) ==
    {d \in hits \cup gone :
        attempt[d].at + Window > attempt[a].at \/ <<d, a>> \in late}

RefusedOnlyOverLimit ==
    \A a \in Attempts :
       attempt[a].answer = "limited" => Cardinality(Rated(a)) > Limit
=============================================================================
