---------------------------- MODULE FancoilService --------------------------
(***************************************************************************)
(* What the plugin and the sketch promise together: a remote control with  *)
(* one job at a time.  The service looks at the keypad now and then, works *)
(* on the job by key presses that lead from what it last saw towards what  *)
(* the job wants, gives the job up at any time, and answers readings with  *)
(* what it last saw.  Bus, flags, counters and loops are absent; that a    *)
(* look may be mistaken, a new look half taken in, and a question          *)
(* forgotten in a restart, is part of what the caller has to expect.       *)
(***************************************************************************)
EXTENDS FancoilCodec

CONSTANTS ShownTemps, ShownModes, Misreads, TempParams, ModeParams, UserActive

VARIABLES
  panel,   \* what the keypad shows
  look,    \* the last look at the keypad, not yet taken in
  seen,    \* what the service believes the keypad shows
  job,     \* the command it works on
  answer,  \* the last reading given to the caller
  forgot   \* a restart made it forget that it was asked for the mode

vars == <<panel, look, seen, job, answer, forgot>>

NoJob == [kind |-> "none", want |-> 0]
Jobs == [kind : {"temp"}, want : TempParams] \cup [kind : {"mode"}, want : ModeParams]
Panels == [temp : ShownTemps, mode : ShownModes]

Init ==
  /\ panel \in Panels
  /\ look = [temp |-> 0, mode |-> 0] /\ seen = look
  /\ job = NoJob
  /\ answer = [temp |-> 0, mode |-> 0] /\ forgot = FALSE

UserKey ==
  /\ UserActive
  /\ panel' \in Panels
  /\ UNCHANGED <<look, seen, job, answer, forgot>>

(* A look shows what the keypad shows; disturbed, set point and mode may   *)
(* each be mistaken.                                                       *)
Mistaken ==
  IF Misreads = {} THEN {}
  ELSE [temp : Misreads \cup {seen.temp}, mode : ShownModes \cup {seen.mode}]

Look ==
  /\ look' \in {panel} \cup Mistaken
  /\ UNCHANGED <<panel, seen, job, answer, forgot>>

(* A set point is two bytes, taken in one after the other.                 *)
Halves == {TwoBytes(Hi(seen.temp), Lo(look.temp)), TwoBytes(Hi(look.temp), Lo(seen.temp))}

TakeIn ==
  /\ \E t \in Halves \cup {look.temp} : seen' = [temp |-> t, mode |-> look.mode]
  /\ UNCHANGED <<panel, look, job, answer, forgot>>

Accept ==
  /\ job = NoJob
  /\ job' \in Jobs
  /\ UNCHANGED <<panel, look, seen, answer, forgot>>

(* A key press for the set point: believed below the goal, it goes up, and *)
(* believed above, down.                                                   *)
DriveTemp ==
  /\ job.kind = "temp" /\ InTempRange(Quantise(job.want))
  /\ \E t \in ShownTemps :
       /\ \/ seen.temp < Quantise(job.want) /\ t > panel.temp
          \/ seen.temp > Quantise(job.want) /\ t < panel.temp
       /\ panel' = [panel EXCEPT !.temp = t]
  /\ UNCHANGED <<look, seen, job, answer, forgot>>

DriveMode ==
  /\ job.kind = "mode" /\ InModeRange(job.want) /\ seen.mode # job.want
  /\ \E m \in ShownModes : panel' = [panel EXCEPT !.mode = m]
  /\ UNCHANGED <<look, seen, job, answer, forgot>>

(* Done, out of tries, or the board lost power.                            *)
EndJob ==
  /\ job' = NoJob
  /\ UNCHANGED <<panel, look, seen, answer, forgot>>

Restart ==
  /\ look' = [temp |-> 0, mode |-> 0] /\ seen' = look' /\ job' = NoJob
  /\ forgot' \in BOOLEAN
  /\ UNCHANGED <<panel, answer>>

AnswerTemp ==
  /\ answer' = [answer EXCEPT !.temp = seen.temp]
  /\ UNCHANGED <<panel, look, seen, job, forgot>>

(* Having forgotten the question, it answers with the first byte of what   *)
(* it takes for the set point.                                             *)
AnswerMode ==
  /\ answer' = [answer EXCEPT !.mode = IF forgot THEN Hi(seen.temp) ELSE seen.mode]
  /\ forgot' = FALSE
  /\ UNCHANGED <<panel, look, seen, job>>

Next ==
  \/ UserKey \/ Look \/ TakeIn \/ Accept \/ DriveTemp \/ DriveMode
  \/ EndJob \/ Restart \/ AnswerTemp \/ AnswerMode

Spec == Init /\ [][Next]_vars
=============================================================================
