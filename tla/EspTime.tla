------------------------------- MODULE EspTime ------------------------------
(***************************************************************************)
(* Time on ESPEasy: millis() is an unsigned long that wraps after 49.7     *)
(* days.  The operators take the value of millis() as the argument now.    *)
(***************************************************************************)
EXTENDS Integers

CONSTANT Words   \* values of an unsigned long: 2^32

Half == Words \div 2

ASSUME WordsAssumption == Words \in Nat /\ Half \in Nat \ {0} /\ Words = 2 * Half

Word == 0 .. Words - 1
HalfMax == Half - 1   \* half_max_unsigned_long

\* Unsigned addition of a word and a number below Words, with its carry lost.
Plus(a, b) == IF a + b < Words THEN a + b ELSE a + b - Words

\* static_cast<long> of an unsigned long, and -1 * of a long, which the build
\* wraps where the language leaves it undefined.
ToLong(x) == IF x < Half THEN x ELSE x - Words
Negate(x) == IF x = -Half THEN x ELSE -x

\* A comparison of the two words that forgets that they wrap.
TimeDiff_Naive(prev, next) == next - prev

\* Positive when next is after prev.  The distance of the two words is taken
\* directly when it is below half the range, else around the wrap.
TimeDiff(prev, next) ==
  LET gap  == IF next >= prev THEN next - prev ELSE prev - next
      diff == ToLong(IF gap <= HalfMax THEN gap ELSE Words - gap)
  IN  IF (next >= prev) = (gap <= HalfMax) THEN diff ELSE Negate(diff)

\* A test that forgets that the clock wraps.
TimeOutReached_Words(timer, now) == now >= timer

TimeOutReached(timer, now) == TimeDiff(timer, now) >= 0

\* The moment one step after the next one a late timer has missed.
NextTimeInterval_Resync(timer, step, now) ==
  LET next   == Plus(timer, step)
      passed == TimeDiff(next, now)
  IN  IF passed < 0 THEN next ELSE Plus(now, step)

\* The next moment of a timer with a constant interval: one step on; when that
\* has passed already, two steps on; when that has passed too, a step from now.
NextTimeInterval(timer, step, now) ==
  LET next   == Plus(timer, step)
      passed == TimeDiff(next, now)
  IN  CASE passed < 0                     -> next
        [] passed > step                  -> Plus(now, step)
        [] passed >= 0 /\ passed <= step  -> Plus(now, step - passed)
=============================================================================
