---------------------------- MODULE EspTimeProofs ---------------------------
(***************************************************************************)
(* What the arithmetic of millis() does for every width of the word.  A    *)
(* moment that is d after (or before) another, with d below half the       *)
(* range, is told apart exactly, wherever the wrap falls.                  *)
(***************************************************************************)
EXTENDS EspTime, TLAPS

\* The word of the moment d after now, where d may be negative.
Moment(now, d) == IF d >= 0 THEN Plus(now, d)
                            ELSE IF now + d >= 0 THEN now + d ELSE now + d + Words

\* The assumption on the width of the word, by parts.
LEMMA HalfIsNatural == Half \in Nat \ {0} /\ Words \in Nat /\ Words = 2 * Half
BY WordsAssumption

\* Adding words below the range gives a word.
LEMMA PlusIsWord ==
  ASSUME NEW a \in Word, NEW b \in Word PROVE Plus(a, b) \in Word
BY HalfIsNatural DEF Plus, Word

\* A moment less than half the range away is a word.
LEMMA MomentIsWord ==
  ASSUME NEW now \in Word, NEW d \in -HalfMax .. HalfMax
  PROVE  Moment(now, d) \in Word
BY HalfIsNatural DEF Moment, Plus, Word, HalfMax

\* timeDiff is exact: whatever the two words, when the moments are less than
\* half the range of millis() apart the result is their true distance, across
\* a wrap as well (timeDiff, TimeESPeasy.ino).
THEOREM TimeDiffIsExact ==
  ASSUME NEW now \in Word, NEW d \in -HalfMax .. HalfMax
  PROVE  TimeDiff(now, Moment(now, d)) = d
<1>1. CASE d >= 0 /\ now + d < Words
  BY <1>1, HalfIsNatural DEF TimeDiff, Moment, Plus, ToLong, Negate, Word, HalfMax
<1>2. CASE d >= 0 /\ now + d >= Words
  BY <1>2, HalfIsNatural DEF TimeDiff, Moment, Plus, ToLong, Negate, Word, HalfMax
<1>3. CASE d < 0 /\ now + d >= 0
  BY <1>3, HalfIsNatural DEF TimeDiff, Moment, Plus, ToLong, Negate, Word, HalfMax
<1>4. CASE d < 0 /\ now + d < 0
  BY <1>4, HalfIsNatural DEF TimeDiff, Moment, Plus, ToLong, Negate, Word, HalfMax
<1> QED BY <1>1, <1>2, <1>3, <1>4, HalfIsNatural DEF Word, HalfMax
-----------------------------------------------------------------------------
\* Every word is the moment some distance before or after another, unless the
\* two are half the range apart.
LEMMA EveryWordIsAMoment ==
  ASSUME NEW now \in Word, NEW at \in Word, TimeDiff(at, now) \in -HalfMax .. HalfMax
  PROVE  now = Moment(at, TimeDiff(at, now))
<1>1. CASE now >= at /\ now - at <= HalfMax
  BY <1>1, HalfIsNatural DEF TimeDiff, Moment, Plus, ToLong, Negate, Word, HalfMax
<1>2. CASE now >= at /\ ~(now - at <= HalfMax)
  BY <1>2, HalfIsNatural DEF TimeDiff, Moment, Plus, ToLong, Negate, Word, HalfMax
<1>3. CASE ~(now >= at) /\ at - now <= HalfMax
  BY <1>3, HalfIsNatural DEF TimeDiff, Moment, Plus, ToLong, Negate, Word, HalfMax
<1>4. CASE ~(now >= at) /\ ~(at - now <= HalfMax)
  BY <1>4, HalfIsNatural DEF TimeDiff, Moment, Plus, ToLong, Negate, Word, HalfMax
<1> QED BY <1>1, <1>2, <1>3, <1>4, HalfIsNatural DEF Word, HalfMax

\* A millisecond makes every deadline one more overdue, the one at which
\* millis() wraps included: what the sorted list of timers rests on, since it
\* is not sorted again while time passes (ESPEasyTimeTypes.h).
THEOREM DeadlinesAgeTogether ==
  ASSUME NEW now \in Word, NEW at \in Word,
         TimeDiff(at, now) \in -HalfMax .. HalfMax - 1
  PROVE  TimeDiff(at, Plus(now, 1)) = TimeDiff(at, now) + 1
<1> DEFINE d == TimeDiff(at, now)
<1>1. d \in -HalfMax .. HalfMax /\ d + 1 \in -HalfMax .. HalfMax
  BY HalfIsNatural DEF HalfMax
<1>2. now = Moment(at, d)
  BY <1>1, EveryWordIsAMoment
<1>3. Plus(Moment(at, d), 1) = Moment(at, d + 1)
  <2> HIDE DEF d
  <2> QED BY <1>1, HalfIsNatural DEF Moment, Plus, Word, HalfMax
<1>4. TimeDiff(at, Moment(at, d + 1)) = d + 1
  BY <1>1, TimeDiffIsExact
<1> QED BY <1>2, <1>3, <1>4

\* The deadline of a timer moved on by step is step less overdue: the next
\* reading of a task is counted from the old deadline, however late the old
\* one was handled (schedule_task_device_timer, Scheduler.ino).
THEOREM ChainKeepsItsGrid ==
  ASSUME NEW now \in Word, NEW at \in Word, NEW step \in 0 .. HalfMax,
         TimeDiff(at, now) \in -HalfMax .. HalfMax,
         TimeDiff(at, now) - step \in -HalfMax .. HalfMax
  PROVE  TimeDiff(Plus(at, step), now) = TimeDiff(at, now) - step
<1> DEFINE d == TimeDiff(at, now)
<1>1. now = Moment(at, d)
  BY EveryWordIsAMoment
<1>2. Moment(at, d) = Moment(Plus(at, step), d - step)
  <2> HIDE DEF d
  <2>1. d \in -HalfMax .. HalfMax /\ d - step \in -HalfMax .. HalfMax
    BY DEF d
  <2> QED BY <2>1, HalfIsNatural DEF Moment, Plus, Word, HalfMax
<1>3. Plus(at, step) \in Word
  BY PlusIsWord, HalfIsNatural DEF Word, HalfMax
<1>4. TimeDiff(Plus(at, step), Moment(Plus(at, step), d - step)) = d - step
  BY <1>3, TimeDiffIsExact
<1> QED BY <1>1, <1>2, <1>4

\* A timer set delay from now is delay short of its deadline (setTimer).
THEOREM NewTimerIsNotDue ==
  ASSUME NEW now \in Word, NEW delay \in 0 .. HalfMax
  PROVE  TimeDiff(Plus(now, delay), now) = -delay
<1>1. TimeDiff(now, now) = 0
  BY HalfIsNatural DEF TimeDiff, ToLong, Negate, Word, HalfMax
<1> QED BY <1>1, ChainKeepsItsGrid, HalfIsNatural DEF HalfMax

\* setNextTimeInterval: a timer with a constant interval, however late it is,
\* gets a deadline that has not passed and is at most one interval away, and
\* keeps the grid of its deadlines unless it missed more than an interval.
THEOREM IntervalTimerKeepsPace ==
  ASSUME NEW now \in Word, NEW timer \in Word, NEW step \in 1 .. HalfMax,
         TimeDiff(timer, now) \in 0 .. HalfMax
  PROVE  LET late == TimeDiff(timer, now)
             next == TimeDiff(NextTimeInterval(timer, step, now), now)
         IN  /\ next \in -step .. 0
             /\ late <= 2 * step => next \in {late - step, late - 2 * step}
<1> DEFINE l == TimeDiff(timer, now)
           nextTimer == Plus(timer, step)
<1>1. TimeDiff(nextTimer, now) = l - step
  BY ChainKeepsItsGrid, HalfIsNatural DEF HalfMax
<1>2. l \in Int /\ l >= 0 /\ step \in Int /\ step >= 1
  BY HalfIsNatural DEF HalfMax
<1>3. CASE l < step
  <2>1. NextTimeInterval(timer, step, now) = nextTimer
    BY <1>1, <1>2, <1>3 DEF NextTimeInterval
  <2> HIDE DEF l, nextTimer
  <2> QED BY <2>1, <1>1, <1>2, <1>3 DEF l
<1>4. CASE l > 2 * step
  <2>1. NextTimeInterval(timer, step, now) = Plus(now, step)
    BY <1>1, <1>2, <1>4 DEF NextTimeInterval
  <2>2. TimeDiff(Plus(now, step), now) = -step
    BY NewTimerIsNotDue, HalfIsNatural DEF HalfMax
  <2> QED BY <2>1, <2>2, <1>2, <1>4
<1>5. CASE step <= l /\ l <= 2 * step
  <2>1. NextTimeInterval(timer, step, now) = Plus(now, 2 * step - l)
    BY <1>1, <1>2, <1>5 DEF NextTimeInterval
  <2>2. TimeDiff(Plus(now, 2 * step - l), now) = -(2 * step - l)
    <3>1. 2 * step - l \in 0 .. HalfMax
      BY <1>2, <1>5, HalfIsNatural DEF HalfMax
    <3> QED BY <3>1, NewTimerIsNotDue
  <2> HIDE DEF l
  <2> QED BY <2>1, <2>2, <1>2, <1>5 DEF l
<1> QED BY <1>2, <1>3, <1>4, <1>5
=============================================================================
