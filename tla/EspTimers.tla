------------------------------ MODULE EspTimers -----------------------------
(***************************************************************************)
(* What the scheduler promises: timers on a clock that never wraps.  A     *)
(* timer that is set has a deadline, and lateness says how long ago that   *)
(* was (less than nothing while it is ahead).  The timer whose deadline    *)
(* passed first is handled, one at a time; events wait until no deadline   *)
(* has passed.  Words, lists, their order, settings and start-up are       *)
(* absent.                                                                 *)
(***************************************************************************)
EXTENDS Integers

CONSTANTS
  Chained,     \* timers that set themselves from their old deadline, or end
  Paced,       \* timers that are always set again
  Single,      \* timers that end
  Intervals,   \* times from one deadline of a chained timer to the next
  Pace,        \* ... and of a paced one
  Delays,      \* times from now to a deadline
  Loop, Event  \* nothing is being handled, or an event is

VARIABLES
  lateness,    \* of each timer that is set
  running      \* the timer being handled

vars == <<lateness, running>>

With(id, l) == [i \in DOMAIN lateness \union {id} |-> IF i = id THEN l ELSE lateness[i]]
Without(id) == [i \in DOMAIN lateness \ {id} |-> lateness[i]]

Init == lateness = [i \in {} |-> 0] /\ running = Loop

\* Sets a timer, or sets it again, for a moment that has not passed.
Set ==
  /\ UNCHANGED running
  /\ \E id \in Chained \union Paced \union Single :
       /\ id \in DOMAIN lateness' /\ -lateness'[id] \in Delays
       /\ lateness' = With(id, lateness'[id])

Handled(id) ==
  /\ running = Loop /\ running' = id
  /\ id \in DOMAIN lateness /\ lateness[id] >= 0
  /\ \A i \in DOMAIN lateness : lateness[i] <= lateness[id]

\* The next deadline is an interval after the last, even if that has passed too.
HandleChained ==
  \E id \in Chained :
    /\ Handled(id)
    /\ \E time \in Intervals : lateness' = With(id, lateness[id] - time)

HandleLast == \E id \in Chained \union Single : Handled(id) /\ lateness' = Without(id)

\* The next deadline lies ahead, one or two paces after the last, or one pace
\* from now when more than that has been missed.
HandlePaced ==
  \E id \in Paced :
    /\ Handled(id)
    /\ \E l \in (-Pace[id] .. 0) \intersect
                 (IF lateness[id] > 2 * Pace[id] THEN {-Pace[id]}
                  ELSE {lateness[id] - Pace[id], lateness[id] - 2 * Pace[id]}) :
         lateness' = With(id, l)

HandleEvent ==
  /\ running = Loop /\ running' = Event
  /\ \A i \in DOMAIN lateness : lateness[i] < 0
  /\ UNCHANGED lateness

Return == running # Loop /\ running' = Loop /\ UNCHANGED lateness

\* A millisecond passes.
Age == UNCHANGED running /\ lateness' = [i \in DOMAIN lateness |-> lateness[i] + 1]

Next == \/ Age \/ Return \/ Set
        \/ HandleChained \/ HandleLast \/ HandlePaced \/ HandleEvent
Spec == Init /\ [][Next]_vars
=============================================================================
