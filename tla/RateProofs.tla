----------------------------- MODULE RateProofs -----------------------------
(***************************************************************************)
(* What holds of RateLimiter for every limit, window, skew of the clocks   *)
(* and number of calls, under every fault.                                 *)
(***************************************************************************)
EXTENDS RateLimiter, FiniteSetTheorems, TLAPS

Recorded == hits \cup gone

\* The time of an attempt is read once; its entry, count and answer come later.
Stamp(a) ==
    /\ attempt[a].pc = "idle" <=> attempt[a].at = 0
    /\ attempt[a].pc \in {"idle", "trim", "add"} => a \notin Recorded
    /\ attempt[a].pc \in {"idle", "trim", "add", "count"} =>
          attempt[a].verdict = "none" /\ attempt[a].answer = "none"
    /\ attempt[a].verdict = "counted" => a \in Recorded
    /\ attempt[a].answer = "limited" => attempt[a].verdict = "over"

\* Between its trim and its count a guard finds in the set what is in its
\* window, and what came in since.
Trimmed(a) ==
    attempt[a].pc \in {"add", "count"} =>
       \A d \in hits : attempt[d].at + Window > attempt[a].at \/ <<d, a>> \in late

\* What Redis has dropped was out of the window of a call, or the set lapsed.
DroppedBySomeone ==
    \A d \in gone :
       lapsed \/ \E e \in Attempts : attempt[d].at + Window <= attempt[e].at

Counted(t) == {a \in Attempts : attempt[a].verdict = "counted" /\ Within(t, a)}

RateInv ==
    /\ RateTypeOK
    /\ \A a \in Attempts : Stamp(a) /\ Trimmed(a)
    /\ DroppedBySomeone
    /\ \A t \in Nat : Cardinality(Counted(t)) <= Limit
    /\ OutrunByLater
    /\ \A a \in Attempts :
          attempt[a].verdict = "over" => Cardinality(Rated(a)) > Limit

LEMMA SmallerSet ==
    ASSUME NEW S \in SUBSET Attempts, NEW T \in SUBSET S
    PROVE  /\ Cardinality(T) <= Cardinality(S)
           /\ Cardinality(T) \in Nat /\ Cardinality(S) \in Nat
BY FS_Subset, FS_CardinalityType, RateAssumption

-----------------------------------------------------------------------------
(* Types.                                                                   *)

LEMMA InitTyping == RateInit => RateTypeOK
<1> SUFFICES ASSUME RateInit PROVE RateTypeOK
  OBVIOUS
<1>1. [pc |-> "idle", at |-> 0, verdict |-> "none", answer |-> "none"] \in AttemptRecord
  BY DEF AttemptRecord
<1>2. attempt \in [Attempts -> AttemptRecord]
  BY <1>1 DEF RateInit
<1>3. lapsed \in BOOLEAN
  BY DEF RateInit
<1>4. late \in SUBSET (Attempts \X Attempts) /\ hits \in SUBSET Attempts
      /\ gone \in SUBSET Attempts /\ expiresAt \in Nat /\ clock \in Nat \ {0}
  BY DEF RateInit
<1>5. faults \in 0..MaxFaults
  BY FaultAssumption DEF RateInit
<1> QED BY <1>2, <1>3, <1>4, <1>5 DEF RateTypeOK

\* The record of one attempt is replaced by another record.
LEMMA AttemptReplaced ==
    ASSUME RateTypeOK, NEW a \in Attempts, NEW rec \in AttemptRecord,
           attempt' = [attempt EXCEPT ![a] = rec]
    PROVE  attempt' \in [Attempts -> AttemptRecord]
BY DEF RateTypeOK

LEMMA StepTyping == RateTypeOK /\ [RateNext]_rateVars => RateTypeOK'
<1> SUFFICES ASSUME RateTypeOK, [RateNext]_rateVars PROVE RateTypeOK'
  OBVIOUS
<1>1. \A kind : Fault(kind) => faults' \in 0..MaxFaults
  BY FaultAssumption DEF RateTypeOK, Fault
<1>2. \A kept \in SUBSET hits : Keep(kept) =>
        hits' \in SUBSET Attempts /\ gone' \in SUBSET Attempts /\ expiresAt' \in Nat
  BY DEF RateTypeOK, Keep
<1>3. ASSUME NEW a \in Attempts, NEW pc \in {"add", "count"},
             attempt' = [attempt EXCEPT ![a].pc = pc]
      PROVE  attempt' \in [Attempts -> AttemptRecord]
  <2>1. [attempt[a] EXCEPT !.pc = pc] \in AttemptRecord
    BY DEF RateTypeOK, AttemptRecord
  <2> QED BY <1>3, <2>1, AttemptReplaced DEF RateTypeOK
<1>4. ASSUME NEW a \in Attempts, NEW answer \in {"passed", "limited", "lost"},
             Answer(a, answer)
      PROVE  attempt' \in [Attempts -> AttemptRecord]
  <2>1. [attempt[a] EXCEPT !.pc = "done", !.answer = answer] \in AttemptRecord
    BY DEF RateTypeOK, AttemptRecord
  <2>2. attempt' = [attempt EXCEPT
                      ![a] = [attempt[a] EXCEPT !.pc = "done", !.answer = answer]]
    BY <1>4 DEF Answer
  <2> QED BY <2>1, <2>2, AttemptReplaced
<1>5. ASSUME NEW a \in Attempts, ReadClock(a) PROVE RateTypeOK'
  <2>1. PICK now \in Readings :
          attempt' = [attempt EXCEPT ![a].pc = "trim", ![a].at = now]
    BY <1>5 DEF ReadClock
  <2>2. now \in Nat
    BY RateAssumption DEF Readings
  <2>3. [attempt[a] EXCEPT !.pc = "trim", !.at = now] \in AttemptRecord
    BY <2>2 DEF RateTypeOK, AttemptRecord
  <2>4. attempt' = [attempt EXCEPT
                      ![a] = [attempt[a] EXCEPT !.pc = "trim", !.at = now]]
    BY <2>1
  <2>5. attempt' \in [Attempts -> AttemptRecord]
    BY <2>3, <2>4, AttemptReplaced
  <2> QED BY <1>5, <2>5 DEF RateTypeOK, ReadClock, limiter
<1>6. ASSUME NEW a \in Attempts, Trim(a) PROVE RateTypeOK'
  BY <1>2, <1>3, <1>6 DEF RateTypeOK, Trim
<1>7. ASSUME NEW a \in Attempts, Add(a) PROVE RateTypeOK'
  BY <1>3, <1>7 DEF RateTypeOK, Add, TooLateFor
<1>8. ASSUME NEW a \in Attempts, Count(a) PROVE RateTypeOK'
  <2>1. VerdictOn(a) \in {"over", "uncounted", "outrun", "counted"}
    BY DEF VerdictOn
  <2>2. [attempt[a] EXCEPT !.pc = "expire", !.verdict = VerdictOn(a)] \in AttemptRecord
    BY <2>1 DEF RateTypeOK, AttemptRecord
  <2>3. attempt' = [attempt EXCEPT
           ![a] = [attempt[a] EXCEPT !.pc = "expire", !.verdict = VerdictOn(a)]]
    BY <1>8 DEF Count
  <2>4. attempt' \in [Attempts -> AttemptRecord]
    BY <2>2, <2>3, AttemptReplaced
  <2> QED BY <1>8, <2>4 DEF RateTypeOK, Count, limiter
<1>9. ASSUME NEW a \in Attempts, Expire(a) PROVE RateTypeOK'
  <2>1. attempt' \in [Attempts -> AttemptRecord]
    BY <1>4, <1>9 DEF Expire
  <2>2. expiresAt' \in Nat
    BY <1>9, RateAssumption DEF RateTypeOK, Expire
  <2> QED BY <1>9, <2>1, <2>2 DEF RateTypeOK, Expire
<1>10. ASSUME NEW a \in Attempts, AddFails(a) PROVE RateTypeOK'
  <2>1. attempt' \in [Attempts -> AttemptRecord] /\ faults' \in 0..MaxFaults
    BY <1>1, <1>3, <1>10 DEF AddFails
  <2> QED BY <1>10, <2>1 DEF RateTypeOK, AddFails, limiter
<1>11. ASSUME NEW a \in Attempts, ExpireFails(a) \/ GatewayCrash(a) PROVE RateTypeOK'
  <2>1. attempt' \in [Attempts -> AttemptRecord] /\ faults' \in 0..MaxFaults
    BY <1>1, <1>4, <1>11 DEF ExpireFails, GatewayCrash
  <2> QED BY <1>11, <2>1 DEF RateTypeOK, ExpireFails, GatewayCrash, limiter
<1>12. ASSUME NEW a \in Attempts, RedisFails(a) PROVE RateTypeOK'
  <2> DEFINE rec == [attempt[a] EXCEPT !.pc = "done", !.verdict = "uncounted",
                                       !.answer = "passed"]
  <2>1. rec \in AttemptRecord
    BY DEF RateTypeOK, AttemptRecord
  <2>2. attempt' = [attempt EXCEPT ![a] = rec]
    BY <1>12 DEF RedisFails
  <2> HIDE DEF rec
  <2>3. attempt' \in [Attempts -> AttemptRecord] /\ faults' \in 0..MaxFaults
    BY <1>1, <1>12, <2>1, <2>2, AttemptReplaced DEF RedisFails
  <2> QED BY <1>12, <2>3 DEF RateTypeOK, RedisFails, limiter
<1>13. CASE Tick
  <2>1. /\ clock' \in Nat \ {0} /\ UNCHANGED <<attempt, faults, late>>
    BY <1>13 DEF RateTypeOK, Tick, limiter
  <2>2. /\ hits' \in SUBSET Attempts /\ gone' \in SUBSET Attempts
        /\ expiresAt' \in Nat /\ lapsed' \in BOOLEAN
    <3>1. CASE Keep({}) /\ lapsed' = TRUE
      BY <1>2, <3>1 DEF RateTypeOK
    <3>2. CASE UNCHANGED limiter
      BY <3>2 DEF RateTypeOK, limiter
    <3> QED BY <1>13, <3>1, <3>2 DEF Tick
  <2> QED BY <2>1, <2>2 DEF RateTypeOK
<1>14. CASE UNCHANGED rateVars
  BY <1>14 DEF RateTypeOK, rateVars, limiter
<1> QED
  BY <1>5, <1>6, <1>7, <1>8, <1>9, <1>10, <1>11, <1>12, <1>13, <1>14 DEF RateNext

-----------------------------------------------------------------------------
(* What no step undoes.                                                     *)

Settled ==
    /\ \A d \in Attempts : attempt[d].at > 0 => attempt'[d].at = attempt[d].at
    /\ Recorded \subseteq Recorded'
    /\ late \subseteq late'
    /\ lapsed => lapsed'

LEMMA InvTypes ==
    ASSUME RateInv
    PROVE  /\ \A d \in Attempts : attempt[d] \in AttemptRecord /\ attempt[d].at \in Nat
           /\ \A d \in Attempts : attempt[d].pc # "idle" => attempt[d].at > 0
           /\ \A d \in Recorded : d \in Attempts /\ attempt[d].at > 0
           /\ hits \in SUBSET Attempts /\ gone \in SUBSET Attempts
           /\ Window \in Nat \ {0} /\ Limit \in Nat
<1>1. RateTypeOK /\ \A d \in Attempts : Stamp(d)
  BY DEF RateInv
<1>2. \A d \in Attempts : attempt[d] \in AttemptRecord /\ attempt[d].at \in Nat
  BY <1>1 DEF RateTypeOK, AttemptRecord
<1> QED BY <1>1, <1>2, RateAssumption DEF RateTypeOK, Stamp, Recorded

LEMMA OverStays ==
    ASSUME RateInv, RateTypeOK', Settled, NEW a \in Attempts,
           attempt[a].verdict = "over"
    PROVE  Cardinality(Rated(a)') > Limit
<1>1. attempt[a].at > 0
  BY InvTypes DEF RateInv, Stamp
<1>2. Rated(a) \subseteq Rated(a)'
  BY <1>1, InvTypes DEF Rated, Settled, Recorded
<1>3. Rated(a)' \in SUBSET Attempts
  BY DEF Rated, RateTypeOK
<1>4. Cardinality(Rated(a)) > Limit
  BY DEF RateInv
<1> QED BY <1>2, <1>3, <1>4, SmallerSet, RateAssumption

LEMMA OutrunStays ==
    ASSUME RateInv, RateTypeOK', Settled, NEW a \in Attempts,
           attempt[a].verdict = "outrun"
    PROVE  lapsed' \/ \E e \in Attempts : attempt'[e].at > attempt'[a].at
<1>1. attempt[a].at > 0
  BY InvTypes DEF RateInv, Stamp
<1>2. lapsed \/ \E e \in Attempts : attempt[e].at > attempt[a].at
  BY DEF RateInv, OutrunByLater
<1> QED BY <1>1, <1>2, InvTypes DEF Settled

\* A step that drops nothing more keeps what was dropped explained.
LEMMA DroppedStays ==
    ASSUME RateInv, Settled, NEW d \in gone
    PROVE  lapsed' \/ \E e \in Attempts : attempt'[d].at + Window <= attempt'[e].at
<1>1. attempt[d].at > 0 /\ d \in Attempts
  BY InvTypes DEF Recorded
<1>2. lapsed \/ \E e \in Attempts : attempt[d].at + Window <= attempt[e].at
  BY DEF RateInv, DroppedBySomeone
<1> QED BY <1>1, <1>2, InvTypes DEF Settled

\* Every step but the count gives no verdict, or takes one back.
LEMMA QuietStep ==
    ASSUME RateInv, RateTypeOK', Settled,
           \A d \in Attempts : attempt'[d].verdict \in {attempt[d].verdict, "uncounted"},
           \A d \in Attempts : Stamp(d)' /\ Trimmed(d)',
           DroppedBySomeone'
    PROVE  RateInv'
<1>1. ASSUME NEW t \in Nat PROVE Cardinality(Counted(t)') <= Limit
  <2>1. Counted(t)' \subseteq Counted(t)
    <3> SUFFICES ASSUME NEW a \in Attempts, attempt'[a].verdict = "counted", Within(t, a)'
                 PROVE  a \in Counted(t)
      BY DEF Counted
    <3>1. attempt[a].verdict = "counted"
      OBVIOUS
    <3>2. attempt'[a].at = attempt[a].at
      BY <3>1, InvTypes DEF RateInv, Stamp, Settled, Recorded
    <3> QED BY <3>1, <3>2 DEF Counted, Within
  <2>2. Counted(t) \in SUBSET Attempts /\ Cardinality(Counted(t)) <= Limit
    BY DEF Counted, RateInv
  <2> QED BY <2>1, <2>2, SmallerSet, InvTypes
<1>2. OutrunByLater'
  BY OutrunStays DEF OutrunByLater
<1>3. \A a \in Attempts : attempt'[a].verdict = "over" => Cardinality(Rated(a)') > Limit
  BY OverStays
<1> QED BY <1>1, <1>2, <1>3 DEF RateInv

-----------------------------------------------------------------------------
(* The steps.                                                               *)

\* A step of one attempt that leaves the sorted set alone.
LEMMA SetUntouched ==
    ASSUME RateInv, RateTypeOK', NEW a \in Attempts,
           UNCHANGED <<hits, gone, lapsed, late>>,
           \A d \in Attempts \ {a} : attempt'[d] = attempt[d],
           attempt[a].at > 0 => attempt'[a].at = attempt[a].at,
           attempt'[a].verdict \in {attempt[a].verdict, "uncounted"},
           Stamp(a)', Trimmed(a)'
    PROVE  RateInv'
<1>1. Settled
  BY DEF Settled, Recorded
<1>2. ASSUME NEW d \in Attempts \ {a} PROVE Stamp(d)' /\ Trimmed(d)'
  <2>1. Stamp(d) /\ Trimmed(d) /\ attempt'[d] = attempt[d]
    BY DEF RateInv
  <2>2. \A e \in hits : attempt'[e].at = attempt[e].at
    BY <1>1, InvTypes DEF Settled, Recorded
  <2> QED BY <2>1, <2>2 DEF Stamp, Trimmed, Recorded
<1>3. DroppedBySomeone'
  BY <1>1, DroppedStays DEF DroppedBySomeone
<1>4. \A d \in Attempts : attempt'[d].verdict \in {attempt[d].verdict, "uncounted"}
  OBVIOUS
<1> QED BY <1>1, <1>2, <1>3, <1>4, QuietStep

LEMMA ReadClockStep ==
    ASSUME RateInv, RateTypeOK', NEW a \in Attempts, ReadClock(a)
    PROVE  RateInv'
<1>1. attempt \in [Attempts -> AttemptRecord] /\ Stamp(a)
  BY DEF RateInv, RateTypeOK
<1>2. PICK now \in Readings :
        attempt' = [attempt EXCEPT ![a].pc = "trim", ![a].at = now]
  BY DEF ReadClock
<1>3. now \in Nat \ {0}
  BY DEF Readings
<1>4. /\ attempt'[a].pc = "trim" /\ attempt'[a].at = now
      /\ attempt'[a].verdict = attempt[a].verdict
      /\ attempt'[a].answer = attempt[a].answer
      /\ \A d \in Attempts \ {a} : attempt'[d] = attempt[d]
      /\ attempt[a].pc = "idle"
  BY <1>1, <1>2 DEF ReadClock, AttemptAt, AttemptRecord
<1>5. UNCHANGED <<hits, gone, lapsed, late>>
  BY DEF ReadClock, limiter
<1>6. Stamp(a)' /\ Trimmed(a)'
  BY <1>1, <1>3, <1>4, <1>5 DEF Stamp, Trimmed, Recorded
<1> QED BY <1>1, <1>4, <1>5, <1>6, SetUntouched DEF Stamp

LEMMA TrimStep ==
    ASSUME RateInv, RateTypeOK', NEW a \in Attempts, Trim(a)
    PROVE  RateInv'
<1>1. attempt \in [Attempts -> AttemptRecord] /\ Stamp(a)
  BY DEF RateInv, RateTypeOK
<1>2. /\ attempt'[a].pc = "add" /\ attempt[a].pc = "trim"
      /\ attempt'[a].at = attempt[a].at
      /\ attempt'[a].verdict = attempt[a].verdict
      /\ attempt'[a].answer = attempt[a].answer
      /\ \A d \in Attempts \ {a} : attempt'[d] = attempt[d]
  BY <1>1 DEF Trim, AttemptAt, AttemptRecord
<1>3. \A d \in Attempts : attempt'[d].at = attempt[d].at
  BY <1>2
<1>4. /\ hits' = {d \in hits : attempt[d].at + Window > attempt[a].at}
      /\ gone' = gone \cup (hits \ hits')
      /\ UNCHANGED <<lapsed, late>>
  BY DEF Trim, Keep
<1>5. Recorded' = Recorded
  BY <1>4 DEF Recorded
<1>6. Settled
  BY <1>3, <1>4, <1>5 DEF Settled
<1>7. ASSUME NEW d \in Attempts PROVE Stamp(d)' /\ Trimmed(d)'
  <2>1. CASE d = a
    BY <1>1, <1>2, <1>3, <1>4, <1>5, <2>1, InvTypes DEF Stamp, Trimmed
  <2>2. CASE d # a
    <3>1. Stamp(d) /\ Trimmed(d) /\ attempt'[d] = attempt[d]
      BY <1>2, <2>2 DEF RateInv
    <3>2. hits' \subseteq hits /\ \A e \in hits' : e \in Attempts
      BY <1>4, InvTypes
    <3> QED BY <1>3, <1>4, <1>5, <3>1, <3>2 DEF Stamp, Trimmed
  <2> QED BY <2>1, <2>2
<1>8. ASSUME NEW d \in gone'
      PROVE  lapsed' \/ \E e \in Attempts : attempt'[d].at + Window <= attempt'[e].at
  <2>1. CASE d \in gone
    BY <1>6, <2>1, DroppedStays
  <2>2. CASE d \notin gone
    <3>1. d \in hits /\ ~(attempt[d].at + Window > attempt[a].at)
      BY <1>4, <2>2
    <3> QED BY <1>3, <3>1, InvTypes
  <2> QED BY <2>1, <2>2
<1>9. DroppedBySomeone'
  BY <1>8 DEF DroppedBySomeone
<1>10. \A d \in Attempts : attempt'[d].verdict = attempt[d].verdict
  BY <1>2
<1> QED BY <1>6, <1>7, <1>9, <1>10, QuietStep

LEMMA AddStep ==
    ASSUME RateInv, RateTypeOK', NEW a \in Attempts, Add(a)
    PROVE  RateInv'
<1>1. attempt \in [Attempts -> AttemptRecord] /\ Stamp(a) /\ Trimmed(a)
  BY DEF RateInv, RateTypeOK
<1>2. /\ attempt'[a].pc = "count" /\ attempt[a].pc = "add"
      /\ attempt'[a].at = attempt[a].at
      /\ attempt'[a].verdict = attempt[a].verdict
      /\ attempt'[a].answer = attempt[a].answer
      /\ \A d \in Attempts \ {a} : attempt'[d] = attempt[d]
  BY <1>1 DEF Add, AttemptAt, AttemptRecord
<1>3. \A d \in Attempts : attempt'[d].at = attempt[d].at
  BY <1>2
<1>4. /\ hits' = hits \cup {a} /\ late' = late \cup ({a} \X TooLateFor(a))
      /\ UNCHANGED <<gone, lapsed>>
  BY DEF Add
<1>5. Recorded' = Recorded \cup {a}
  BY <1>4 DEF Recorded
<1>6. Settled
  BY <1>3, <1>4, <1>5 DEF Settled
<1>7. ASSUME NEW d \in Attempts PROVE Stamp(d)'
  <2>1. CASE d = a
    BY <1>1, <1>2, <1>5, <2>1 DEF Stamp
  <2>2. CASE d # a
    <3>1. Stamp(d) /\ attempt'[d] = attempt[d]
      BY <1>2, <2>2 DEF RateInv
    <3> QED BY <1>5, <2>2, <3>1 DEF Stamp
  <2> QED BY <2>1, <2>2
<1>8. ASSUME NEW d \in Attempts, attempt'[d].pc \in {"add", "count"}, NEW e \in hits'
      PROVE  attempt'[e].at + Window > attempt'[d].at \/ <<e, d>> \in late'
  <2>1. attempt[d].pc \in {"add", "count"}
    BY <1>2, <1>8
  <2>2. CASE e \in hits
    <3>1. attempt[e].at + Window > attempt[d].at \/ <<e, d>> \in late
      BY <2>1, <2>2 DEF RateInv, Trimmed
    <3> QED BY <1>3, <1>4, <2>2, <3>1, InvTypes
  <2>3. CASE e = a
    <3>1. CASE attempt[a].at + Window <= attempt[d].at
      BY <1>4, <2>1, <2>3, <3>1 DEF TooLateFor
    <3>2. CASE ~(attempt[a].at + Window <= attempt[d].at)
      BY <1>3, <2>3, <3>2, InvTypes
    <3> QED BY <3>1, <3>2
  <2> QED BY <1>4, <2>2, <2>3
<1>9. \A d \in Attempts : Trimmed(d)'
  BY <1>8 DEF Trimmed
<1>10. DroppedBySomeone'
  BY <1>4, <1>6, DroppedStays DEF DroppedBySomeone
<1>11. \A d \in Attempts : attempt'[d].verdict = attempt[d].verdict
  BY <1>2
<1> QED BY <1>6, <1>7, <1>9, <1>10, <1>11, QuietStep

\* The steps at the end of a pipeline, and those at which Redis fails.
LEMMA EndSteps ==
    ASSUME RateInv, RateTypeOK', NEW a \in Attempts,
           Expire(a) \/ AddFails(a) \/ ExpireFails(a) \/ RedisFails(a) \/ GatewayCrash(a)
    PROVE  RateInv'
<1>1. attempt \in [Attempts -> AttemptRecord] /\ Stamp(a) /\ Trimmed(a)
  BY DEF RateInv, RateTypeOK
<1>2. UNCHANGED <<hits, gone, lapsed, late>>
  BY DEF Expire, AddFails, ExpireFails, RedisFails, GatewayCrash, limiter
<1>3. ASSUME NEW answer, Answer(a, answer),
             answer = "limited" => attempt[a].verdict = "over",
             attempt[a].pc # "idle"
      PROVE  RateInv'
  <2>1. /\ attempt'[a].pc = "done" /\ attempt'[a].at = attempt[a].at
        /\ attempt'[a].verdict = attempt[a].verdict /\ attempt'[a].answer = answer
        /\ \A d \in Attempts \ {a} : attempt'[d] = attempt[d]
    BY <1>1, <1>3 DEF Answer, AttemptRecord
  <2>2. Stamp(a)' /\ Trimmed(a)'
    BY <1>1, <1>2, <1>3, <2>1 DEF Stamp, Trimmed, Recorded
  <2> QED BY <1>2, <2>1, <2>2, SetUntouched
<1>4. CASE Expire(a)
  BY <1>3, <1>4 DEF Expire, AttemptAt
<1>5. CASE ExpireFails(a)
  BY <1>3, <1>5 DEF ExpireFails, AttemptAt
<1>6. CASE GatewayCrash(a)
  BY <1>3, <1>6 DEF GatewayCrash
<1>7. CASE AddFails(a)
  <2>1. /\ attempt'[a].pc = "count" /\ attempt[a].pc = "add"
        /\ attempt'[a].at = attempt[a].at
        /\ attempt'[a].verdict = attempt[a].verdict
        /\ attempt'[a].answer = attempt[a].answer
        /\ \A d \in Attempts \ {a} : attempt'[d] = attempt[d]
    BY <1>1, <1>7 DEF AddFails, AttemptAt, AttemptRecord
  <2>2. \A d \in hits : attempt'[d].at = attempt[d].at
    BY <2>1, InvTypes
  <2>3. Stamp(a)' /\ Trimmed(a)'
    BY <1>1, <1>2, <2>1, <2>2 DEF Stamp, Trimmed, Recorded
  <2> QED BY <1>2, <2>1, <2>3, SetUntouched
<1>8. CASE RedisFails(a)
  <2>1. /\ attempt'[a].pc = "done" /\ attempt[a].pc # "idle"
        /\ attempt'[a].at = attempt[a].at
        /\ attempt'[a].verdict = "uncounted" /\ attempt'[a].answer = "passed"
        /\ \A d \in Attempts \ {a} : attempt'[d] = attempt[d]
    BY <1>1, <1>8 DEF RedisFails, AttemptRecord
  <2>2. Stamp(a)' /\ Trimmed(a)'
    BY <1>1, <1>2, <2>1 DEF Stamp, Trimmed, Recorded
  <2> QED BY <1>2, <2>1, <2>2, SetUntouched
<1> QED BY <1>4, <1>5, <1>6, <1>7, <1>8

LEMMA TickStep ==
    ASSUME RateInv, RateTypeOK', Tick
    PROVE  RateInv'
<1>1. UNCHANGED <<attempt, late>> /\ (lapsed => lapsed')
  BY DEF Tick, limiter
<1>2. /\ hits' \subseteq hits /\ Recorded' = Recorded
      /\ gone' = gone \/ lapsed'
  BY DEF Tick, Keep, limiter, Recorded
<1>3. Settled
  BY <1>1, <1>2 DEF Settled
<1>4. \A d \in Attempts : Stamp(d)' /\ Trimmed(d)'
  BY <1>1, <1>2 DEF RateInv, Stamp, Trimmed
<1>5. DroppedBySomeone'
  BY <1>2, <1>3, DroppedStays DEF DroppedBySomeone
<1> QED BY <1>1, <1>3, <1>4, <1>5, QuietStep

\* A verdict is given.  Every counted call of a window that reaches to a is still
\* in the set, or Redis would have outrun a.
LEMMA CountStep ==
    ASSUME RateInv, RateTypeOK', NEW a \in Attempts, Count(a)
    PROVE  RateInv'
<1>1. attempt \in [Attempts -> AttemptRecord] /\ Stamp(a) /\ Trimmed(a)
  BY DEF RateInv, RateTypeOK
<1>2. /\ attempt'[a].pc = "expire" /\ attempt[a].pc = "count"
      /\ attempt'[a].at = attempt[a].at
      /\ attempt'[a].verdict = VerdictOn(a)
      /\ attempt'[a].answer = attempt[a].answer
      /\ \A d \in Attempts \ {a} : attempt'[d] = attempt[d]
  BY <1>1 DEF Count, AttemptAt, AttemptRecord
<1>3. \A d \in Attempts : attempt'[d].at = attempt[d].at
  BY <1>2
<1>4. UNCHANGED <<hits, gone, lapsed, late>>
  BY DEF Count, limiter
<1>5. Settled
  BY <1>3, <1>4 DEF Settled, Recorded
<1>6. /\ VerdictOn(a) = "counted" => a \in Recorded /\ ~Outrun(a)
                                     /\ ~(Cardinality(hits) > Limit)
      /\ VerdictOn(a) = "outrun" => Outrun(a)
      /\ VerdictOn(a) = "over" => Cardinality(hits) > Limit
  BY DEF VerdictOn, CountOf, Recorded
<1>7. ASSUME NEW d \in Attempts PROVE Stamp(d)' /\ Trimmed(d)'
  <2>1. CASE d = a
    BY <1>1, <1>2, <1>4, <1>6, <2>1 DEF Stamp, Trimmed, Recorded
  <2>2. CASE d # a
    <3>1. Stamp(d) /\ Trimmed(d) /\ attempt'[d] = attempt[d]
      BY <1>2, <2>2 DEF RateInv
    <3> QED BY <1>3, <1>4, <3>1, InvTypes DEF Stamp, Trimmed, Recorded
  <2> QED BY <2>1, <2>2
<1>8. DroppedBySomeone'
  BY <1>4, <1>5, DroppedStays DEF DroppedBySomeone
<1>9. ASSUME NEW t \in Nat PROVE Cardinality(Counted(t)') <= Limit
  <2>1. Counted(t)' \subseteq Counted(t) \cup {a}
    BY <1>2, <1>3 DEF Counted, Within
  <2>2. Counted(t) \in SUBSET Attempts /\ Cardinality(Counted(t)) <= Limit
    BY DEF Counted, RateInv
  <2>3. CASE a \in Counted(t)'
    <3>1. VerdictOn(a) = "counted" /\ attempt[a].at <= t /\ t < attempt[a].at + Window
      BY <1>2, <1>3, <2>3 DEF Counted, Within
    <3>2. \A d \in gone : ~(attempt[d].at + Window > attempt[a].at)
      BY <1>6, <3>1 DEF Outrun
    <3>3. a \in hits
      BY <1>6, <3>1, <3>2, InvTypes DEF Recorded
    <3>4. ASSUME NEW d \in Counted(t) PROVE d \in hits
      <4>1. d \in Attempts /\ t < attempt[d].at + Window /\ d \in Recorded
        BY DEF Counted, Within, RateInv, Stamp
      <4>2. attempt[d].at + Window > attempt[a].at
        BY <3>1, <4>1, InvTypes
      <4> QED BY <3>2, <4>1, <4>2 DEF Recorded
    <3>5. Counted(t)' \subseteq hits
      BY <2>1, <3>3, <3>4
    <3> QED BY <1>6, <3>1, <3>5, SmallerSet, InvTypes
  <2>4. CASE a \notin Counted(t)'
    <3>1. Counted(t)' \subseteq Counted(t)
      BY <2>1, <2>4
    <3> QED BY <2>2, <3>1, SmallerSet, InvTypes
  <2> QED BY <2>3, <2>4
<1>10. ASSUME NEW d \in Attempts, attempt'[d].verdict = "outrun"
       PROVE  lapsed' \/ \E e \in Attempts : attempt'[e].at > attempt'[d].at
  <2>1. CASE d = a
    <3>1. PICK g \in gone : attempt[g].at + Window > attempt[a].at
      BY <1>2, <1>6, <1>10, <2>1 DEF Outrun
    <3>2. lapsed \/ \E e \in Attempts : attempt[g].at + Window <= attempt[e].at
      BY DEF RateInv, DroppedBySomeone
    <3>3. g \in Attempts
      BY InvTypes
    <3> QED BY <1>3, <1>4, <2>1, <3>1, <3>2, <3>3, InvTypes
  <2>2. CASE d # a
    BY <1>2, <1>5, <1>10, <2>2, OutrunStays
  <2> QED BY <2>1, <2>2
<1>11. ASSUME NEW d \in Attempts, attempt'[d].verdict = "over"
       PROVE  Cardinality(Rated(d)') > Limit
  <2>1. CASE d = a
    <3>1. \A e \in hits : attempt[e].at + Window > attempt[a].at \/ <<e, a>> \in late
      BY <1>1, <1>2 DEF Trimmed
    <3>2. hits \subseteq Rated(a)'
      BY <1>3, <1>4, <3>1, InvTypes DEF Rated
    <3>3. Rated(a)' \in SUBSET Attempts
      BY DEF Rated, RateTypeOK
    <3>4. Cardinality(hits) > Limit
      BY <1>2, <1>6, <1>11, <2>1
    <3> QED BY <2>1, <3>2, <3>3, <3>4, SmallerSet, InvTypes
  <2>2. CASE d # a
    BY <1>2, <1>5, <1>11, <2>2, OverStays
  <2> QED BY <2>1, <2>2
<1> QED BY <1>7, <1>8, <1>9, <1>10, <1>11 DEF RateInv, OutrunByLater

-----------------------------------------------------------------------------
(* The invariant.                                                           *)

LEMMA RateInvInit == RateInit => RateInv
<1> SUFFICES ASSUME RateInit PROVE RateInv
  OBVIOUS
<1>1. RateTypeOK
  BY InitTyping
<1>2. \A a \in Attempts : attempt[a] = [pc |-> "idle", at |-> 0, verdict |-> "none",
                                        answer |-> "none"]
  BY DEF RateInit
<1>3. \A a \in Attempts : Stamp(a) /\ Trimmed(a)
  BY <1>2 DEF RateInit, Stamp, Trimmed, Recorded
<1>4. DroppedBySomeone
  BY DEF RateInit, DroppedBySomeone
<1>5. \A t \in Nat : Cardinality(Counted(t)) <= Limit
  <2>1. \A t \in Nat : Counted(t) = {}
    BY <1>2 DEF Counted
  <2> QED BY <2>1, FS_EmptySet, RateAssumption
<1>6. OutrunByLater /\ \A a \in Attempts : attempt[a].verdict # "over"
  BY <1>2 DEF OutrunByLater
<1> QED BY <1>1, <1>3, <1>4, <1>5, <1>6 DEF RateInv

LEMMA RateInvStep == RateInv /\ [RateNext]_rateVars => RateInv'
<1> SUFFICES ASSUME RateInv, [RateNext]_rateVars PROVE RateInv'
  OBVIOUS
<1>1. RateTypeOK'
  BY StepTyping DEF RateInv
<1>2. ASSUME NEW a \in Attempts, ReadClock(a) PROVE RateInv'
  BY <1>1, <1>2, ReadClockStep
<1>3. ASSUME NEW a \in Attempts, Trim(a) PROVE RateInv'
  BY <1>1, <1>3, TrimStep
<1>4. ASSUME NEW a \in Attempts, Add(a) PROVE RateInv'
  BY <1>1, <1>4, AddStep
<1>5. ASSUME NEW a \in Attempts, Count(a) PROVE RateInv'
  BY <1>1, <1>5, CountStep
<1>6. ASSUME NEW a \in Attempts,
             Expire(a) \/ AddFails(a) \/ ExpireFails(a) \/ RedisFails(a) \/ GatewayCrash(a)
      PROVE  RateInv'
  BY <1>1, <1>6, EndSteps
<1>7. CASE Tick
  BY <1>1, <1>7, TickStep
<1>8. CASE UNCHANGED rateVars
  <2>1. UNCHANGED <<attempt, hits, gone, lapsed, late>>
    BY <1>8 DEF rateVars, limiter
  <2>2. \A a \in Attempts : Stamp(a)' /\ Trimmed(a)'
    BY <2>1 DEF RateInv, Stamp, Trimmed, Recorded
  <2>3. DroppedBySomeone' /\ Settled
    BY <2>1 DEF RateInv, DroppedBySomeone, Settled, Recorded
  <2> QED BY <1>1, <2>1, <2>2, <2>3, QuietStep
<1> QED BY <1>2, <1>3, <1>4, <1>5, <1>6, <1>7, <1>8 DEF RateNext

LEMMA RateInvariant == RateSpec => []RateInv
BY RateInvInit, RateInvStep, PTL DEF RateSpec

-----------------------------------------------------------------------------
(* The theorems.                                                            *)

\* The records of the guards, the sorted set and the histories keep their types,
\* whatever the guards' commands and the faults do.
THEOREM RateTypeCorrect == RateSpec => []RateTypeOK
<1>1. RateInv => RateTypeOK
  BY DEF RateInv
<1> QED BY <1>1, RateInvariant, PTL

\* Whatever time the clocks of the instances show, in whatever order the commands
\* of the pipelines reach Redis and however long they take: of the calls of one
\* window, at most rateLimitPerMinute pass by a count that missed none of them.
THEOREM RateIsLimited == RateSpec => []AdmittedWithinLimit
<1>1. RateInv => AdmittedWithinLimit
  <2>1. 0..(MaxClock + MaxSkew) \subseteq Nat
    OBVIOUS
  <2> QED BY <2>1 DEF RateInv, AdmittedWithinLimit, Counted
<1> QED BY <1>1, RateInvariant, PTL

\* A count misses a call of its window only where a call with a later time had
\* trimmed before, or the set had lapsed: nothing else lets one too many pass.
THEOREM OvershootHasCause == RateSpec => []OutrunByLater
<1>1. RateInv => OutrunByLater
  BY DEF RateInv
<1> QED BY <1>1, RateInvariant, PTL

\* A call is refused only where more than rateLimitPerMinute calls, itself and
\* refused ones included, had reached Redis with a time in its window or a later
\* one, or in between its own commands.
THEOREM RefusalHasCause == RateSpec => []RefusedOnlyOverLimit
<1>1. RateInv => RefusedOnlyOverLimit
  BY DEF RateInv, RefusedOnlyOverLimit, Stamp
<1> QED BY <1>1, RateInvariant, PTL
=============================================================================
