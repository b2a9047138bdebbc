------------------------------ MODULE EspRules ------------------------------
(***************************************************************************)
(* The rule engine of ESPEasy.  An event is matched, line by line, against *)
(* the active rule files; the actions of a rule that matches are commands: *)
(* those of plugins run at once, all others go to the event queue and run  *)
(* from loop() later.  Rule timers raise events of their own and can be    *)
(* set, paused and resumed by such commands.                               *)
(*                                                                         *)
(* A line is [on, body]: the trigger of an "on ... do" and what follows    *)
(* it, or NoTrigger and the text of the line.  Nothing the rules do lets   *)
(* another handler in (only time passes), so a handler that raises an      *)
(* event is a job that goes on when the event has been processed.          *)
(***************************************************************************)
EXTENDS EspTime, Sequences, SequencesExt

CONSTANTS
  Sets,         \* indices of rule files
  Others,       \* other files executerules may name, there or not
  OtherSource,  \* their contents
  Deletable,    \* files that may be deleted on the file list
  Sources,      \* contents a rule file may have: sequences of lines
  Conds,        \* what conditions are about
  Timers,       \* indices of rule timers
  Inputs,       \* events of tasks, pins and web clients: [name, value]
  MaxNesting,   \* RULES_MAX_NESTING_LEVEL
  MaxLag,       \* bound: time between two calls of rulesTimers
  MaxQueue,     \* bound: commands waiting while a second passes
  MaxPokes      \* bound: inputs and file changes

NoTrigger == [name |-> "none", compare |-> " ", value |-> 0]
Missing == <<>>                          \* no such file
Body(k, c, a) == [kind |-> k, cond |-> c, act |-> a]
NoAct == [op |-> "none", arg |-> 0, value |-> 0]
Nothing == Body("none", "none", NoAct)   \* empty text, or an unknown command
NoEvent == [name |-> "none", value |-> 0]
NoBranch == <<"none", 0>>
TimerEvent(n, t) == [name |-> n, value |-> t]

ASSUME RulesAssumption ==
  /\ MaxNesting \in Nat \ {0}
  /\ Sets \subseteq Nat \ {0} /\ Others \subseteq Nat \ {0} /\ Sets \intersect Others = {}
  /\ Deletable \subseteq Sets \union Others
  /\ Timers \subseteq Nat \ {0}
  /\ Missing \notin Sources \union {OtherSource}

VARIABLES
  now,          \* millis(), in seconds
  files,        \* contents of the rule files
  active,       \* activeRuleSets
  broken,       \* history: rule files an upload removed and could not open again
  cond,         \* what the conditions evaluate to
  queue,        \* EventQueue: commands
  eventBuffer,  \* the event of a web client
  timer,        \* RulesTimer
  job,          \* the handler that is running
  event,        \* the event being processed
  sets,         \* files still to be read for it
  nestingLevel, \* static of rulesProcessingFile
  notFound,     \* history: files named by executerules, or broken, and not there when read
  reading,      \* the file being read, 0 for none
  pos,          \* line of it
  match, codeBlock, conditional, condition, ifBranche, ifBrancheJustMatch,
  branch,       \* history: the last if, elseif ("if") or else, and its line
  done,         \* history: the branches of this chain that ran a command
  ran,          \* history: time each timer has run since it was set, as far as it matters
  wanted,       \* history: time each timer was set for
  lag,          \* time since rulesTimers was called
  pokes         \* inputs and file changes so far

flags == <<match, codeBlock, conditional, condition, ifBranche, ifBrancheJustMatch>>
chain == <<branch, done>>
frame == <<reading, pos, flags, chain>>
level == <<nestingLevel, notFound>>
run == <<event, sets, level, frame>>
store == <<files, active, broken>>
clock == <<now, lag>>
alarms == <<timer, ran, wanted>>
vars == <<clock, store, cond, queue, eventBuffer, alarms, job, run, pokes>>

Job(k, t, left) == [kind |-> k, t |-> t, left |-> left]
Handler(k) == Job(k, 0, 0)
Idle == Handler("idle")
Off == [timestamp |-> 0, interval |-> 0, paused |-> FALSE]
Running(t) == ~timer[t].paused /\ timer[t].timestamp # 0
-----------------------------------------------------------------------------
(* Matching an event.                                                        *)
\* ruleMatch: names without a comparison match whatever the value is.
Matches(e, on) ==
  \/ on.name = "*"
  \/ /\ on.name = e.name
     /\ CASE on.compare = ">" -> e.value > on.value
          [] on.compare = "<" -> e.value < on.value
          [] on.compare = "=" -> e.value = on.value
          [] on.compare = " " -> TRUE
-----------------------------------------------------------------------------
(* Reading a line: parseCompleteNonCommentLine and processMatchedRule.       *)
Line == files[reading][pos]
Starts == ~codeBlock /\ Line.on # NoTrigger

\* match after the line's trigger has been looked at.
Hit == IF Starts THEN Matches(event, Line.on) ELSE match

\* The action of the line: nothing outside a block, and inside one an "on" is
\* no trigger but the text of an unknown command.
Action == IF Starts \/ (codeBlock /\ Line.on = NoTrigger) THEN Line.body ELSE Nothing
Empty == Action.kind = "none"

Reads == /\ reading # 0 /\ pos <= Len(files[reading])
         /\ pos' = pos + 1
         /\ UNCHANGED <<clock, store, eventBuffer, alarms, job, event, sets,
                        level, reading, pokes>>
NoCommand == UNCHANGED <<cond, queue>>

\* "on ... do" with the actions on the lines that follow.
BlockStarts ==
  /\ Reads /\ NoCommand
  /\ Starts /\ Empty
  /\ match' = Hit /\ codeBlock' = TRUE
  /\ UNCHANGED <<conditional, condition, ifBranche, ifBrancheJustMatch, chain>>

EndOn ==
  /\ Reads /\ NoCommand
  /\ Action.kind = "endon"
  /\ match' = FALSE /\ codeBlock' = FALSE
  /\ UNCHANGED <<conditional, condition, ifBranche, ifBrancheJustMatch, chain>>

\* A line of a rule that does not match.
Skipped ==
  /\ Reads /\ NoCommand
  /\ ~Hit /\ Action.kind # "endon" /\ ~(Starts /\ Empty)
  /\ match' = FALSE
  /\ UNCHANGED <<codeBlock, conditional, condition, ifBranche, ifBrancheJustMatch, chain>>

\* Evaluates every condition of the chain.
Holds_Each(c) == cond[c]

\* conditionMatchExtended, unless a condition of this chain has held before.
Holds(c) == ~ifBrancheJustMatch /\ cond[c]

If ==
  /\ Reads /\ NoCommand
  /\ Hit /\ Action.kind \in {"if", "elseif"}
  /\ match' = TRUE
  /\ conditional' = (conditional \/ Action.kind = "if")
  /\ condition' = Holds(Action.cond)
  /\ ifBrancheJustMatch' = (ifBrancheJustMatch \/ condition')
  /\ ifBranche' = TRUE
  /\ branch' = <<"if", pos>> /\ UNCHANGED <<codeBlock, done>>

Else ==
  /\ Reads /\ NoCommand
  /\ Hit /\ Action.kind = "else"
  /\ match' = TRUE /\ ifBranche' = FALSE
  /\ branch' = <<"else", pos>>
  /\ UNCHANGED <<codeBlock, conditional, condition, ifBrancheJustMatch, done>>

EndIf ==
  /\ Reads /\ NoCommand
  /\ Hit /\ Action.kind = "endif"
  /\ match' = TRUE
  /\ conditional' = FALSE /\ ifBranche' = FALSE /\ ifBrancheJustMatch' = FALSE
  /\ branch' = NoBranch /\ done' = {}
  /\ UNCHANGED <<codeBlock, condition>>

\* The command of a line that is not inside a conditional, or is in the branch
\* the condition selects.  A plugin's command runs at once, any other goes to
\* the end of the event queue (schedule_command_timer).
Command ==
  /\ Reads
  /\ Hit /\ Action.kind \in {"do", "none"} /\ ~(Starts /\ Empty)
  /\ match' = TRUE
  /\ IF conditional /\ condition # ifBranche
       THEN NoCommand /\ UNCHANGED done
       ELSE /\ IF Action.act.op = "write"
                 THEN /\ cond' = [cond EXCEPT ![Action.act.arg] = Action.act.value]
                      /\ UNCHANGED queue
                 ELSE queue' = Append(queue, Action.act) /\ UNCHANGED cond
            /\ done' = IF conditional THEN done \union {branch} ELSE done
  /\ UNCHANGED <<codeBlock, conditional, condition, ifBranche, ifBrancheJustMatch, branch>>

ParseLine == BlockStarts \/ EndOn \/ Skipped \/ If \/ Else \/ EndIf \/ Command
-----------------------------------------------------------------------------
(* Processing an event: rulesProcessing and rulesProcessingFile.             *)
\* Calls rulesProcessing(e) for the job j; files says which files it reads.
Raise(j, e, read) ==
  /\ job' = j /\ event' = e /\ sets' = read
  /\ UNCHANGED <<level, frame>>

ActiveSets == {s \in Sets : active[s]}
FirstOf(S) == CHOOSE s \in S : \A t \in S : s <= t

\* What a user or a rule did wrong to a file that is not there.
Excused(s) == job.kind = "execute" \/ s \in broken

\* Enters the next file.  It is left at once when the level is exceeded, and
\* when it cannot be opened (SPIFFS_CHECK), but then without counting down.
OpenFile ==
  /\ reading = 0 /\ sets # {}
  /\ LET s == FirstOf(sets) IN
       /\ sets' = sets \ {s}
       /\ IF nestingLevel + 1 > MaxNesting
            THEN UNCHANGED <<level, frame>>
            ELSE /\ nestingLevel' = nestingLevel + 1
                 /\ IF files[s] = Missing
                      THEN /\ notFound' = IF Excused(s) THEN notFound + 1 ELSE notFound
                           /\ UNCHANGED frame
                      ELSE /\ reading' = s /\ pos' = 1
                           /\ match' = FALSE /\ codeBlock' = FALSE
                           /\ conditional' = FALSE /\ condition' = FALSE
                           /\ ifBranche' = FALSE /\ ifBrancheJustMatch' = FALSE
                           /\ branch' = NoBranch /\ done' = {}
                           /\ UNCHANGED notFound
  /\ UNCHANGED <<clock, store, cond, queue, eventBuffer, alarms, job, event, pokes>>

EndFile ==
  /\ reading # 0 /\ pos > Len(files[reading])
  /\ reading' = 0 /\ branch' = NoBranch /\ done' = {}
  /\ nestingLevel' = nestingLevel - 1
  /\ UNCHANGED <<pos, flags, notFound, clock, store, cond, queue, eventBuffer, alarms,
                 job, event, sets, pokes>>

\* rulesProcessing has returned.
Processed == reading = 0 /\ sets = {}
Return(j) == job' = j /\ event' = NoEvent /\ UNCHANGED <<sets, level, frame>>
PopCommand == queue' = Tail(queue)

EndInput ==
  /\ Processed /\ job.kind \in {"input", "buffer"}
  /\ Return(Idle)
  /\ eventBuffer' = IF job.kind = "buffer" THEN NoEvent ELSE eventBuffer
  /\ UNCHANGED <<clock, store, cond, queue, alarms, pokes>>

EndCommand ==
  /\ Processed /\ job.kind \in {"command", "execute"}
  /\ Return(Idle) /\ PopCommand
  /\ UNCHANGED <<clock, store, cond, eventBuffer, alarms, pokes>>
-----------------------------------------------------------------------------
(* Rule timers: rulesTimers and the timer commands.                          *)
\* A test that only holds in the second of the deadline.
Expired_Exact(t) == Running(t) /\ timer[t].timestamp = now

Expired(t) == Running(t) /\ TimeOutReached(timer[t].timestamp, now)
LeftToCheck == {t \in Timers : t >= job.t /\ Expired(t)}

CheckTimers ==
  /\ job = Idle
  /\ job' = Handler("timers")
  /\ lag' = 0
  /\ UNCHANGED <<now, store, cond, queue, eventBuffer, alarms, run, pokes>>

RingTimer ==
  /\ job.kind = "timers" /\ LeftToCheck # {}
  /\ LET t == FirstOf(LeftToCheck) IN
       /\ timer' = [timer EXCEPT ![t].timestamp = 0]
       /\ Raise(Job("ring", t + 1, 0), TimerEvent("Rules#Timer", t), ActiveSets)
  /\ UNCHANGED <<clock, store, cond, queue, eventBuffer, ran, wanted, pokes>>

EndTimers ==
  /\ \/ Processed /\ job.kind = "ring" /\ Return(Job("timers", job.t, 0))
     \/ job.kind = "timers" /\ LeftToCheck = {} /\ job' = Idle /\ UNCHANGED run
  /\ UNCHANGED <<clock, store, cond, queue, eventBuffer, alarms, pokes>>

\* The command at the head of the event queue, while no other handler runs.
Takes(op) == job = Idle /\ queue # <<>> /\ Head(queue).op = op
Alarm == Head(queue).arg

RaiseEvent ==
  /\ Takes("event")
  /\ Raise(Handler("command"),
           [name |-> Head(queue).arg, value |-> Head(queue).value], ActiveSets)
  /\ UNCHANGED <<clock, store, cond, queue, eventBuffer, alarms, pokes>>

\* executerules: the file is read whether it is active or not, if it is there.
ExecuteRules ==
  /\ Takes("executerules")
  /\ Raise(Handler("execute"), TimerEvent("", 0), {Head(queue).arg})
  /\ UNCHANGED <<clock, store, cond, queue, eventBuffer, alarms, pokes>>

TimerSet ==
  /\ Takes("timerset") /\ PopCommand
  /\ LET n == Head(queue).value IN
       /\ timer' = [timer EXCEPT ![Alarm] =
                      IF n = 0 THEN Off ELSE [timestamp |-> Plus(now, n),
                                              interval |-> n, paused |-> FALSE]]
       /\ wanted' = [wanted EXCEPT ![Alarm] = n]
       /\ ran' = [ran EXCEPT ![Alarm] = 0]
  /\ UNCHANGED <<clock, store, cond, eventBuffer, job, run, pokes>>

Left(t) == -TimeDiff(timer[t].timestamp, now)

\* TimerPause: what is left of the timer is taken before its event is
\* processed, and stored after it.
TimerPause ==
  /\ Takes("timerpause")
  /\ IF Running(Alarm) /\ Left(Alarm) > 0
       THEN /\ Raise(Job("pause", Alarm, Left(Alarm)),
                     TimerEvent("Rules#TimerPause", Alarm), ActiveSets)
            /\ UNCHANGED queue
       ELSE PopCommand /\ UNCHANGED <<job, run>>
  /\ UNCHANGED <<clock, store, cond, eventBuffer, alarms, pokes>>

EndPause ==
  /\ Processed /\ job.kind = "pause"
  /\ timer' = [timer EXCEPT ![job.t].paused = TRUE, ![job.t].interval = job.left]
  /\ Return(Idle) /\ PopCommand
  /\ UNCHANGED <<clock, store, cond, eventBuffer, ran, wanted, pokes>>

TimerResume ==
  /\ Takes("timerresume")
  /\ IF timer[Alarm].paused /\ timer[Alarm].interval > 0 /\ timer[Alarm].timestamp # 0
       THEN /\ Raise(Job("resume", Alarm, 0),
                     TimerEvent("Rules#TimerResume", Alarm), ActiveSets)
            /\ UNCHANGED queue
       ELSE PopCommand /\ UNCHANGED <<job, run>>
  /\ UNCHANGED <<clock, store, cond, eventBuffer, alarms, pokes>>

\* Lets the timer go on to the deadline it had.
EndResume_OldDeadline ==
  /\ Processed /\ job.kind = "resume"
  /\ timer' = [timer EXCEPT ![job.t].paused = FALSE]
  /\ Return(Idle) /\ PopCommand
  /\ UNCHANGED <<clock, store, cond, eventBuffer, ran, wanted, pokes>>

EndResume ==
  /\ Processed /\ job.kind = "resume"
  /\ timer' = [timer EXCEPT ![job.t].timestamp = Plus(now, timer[job.t].interval),
                            ![job.t].paused = FALSE]
  /\ Return(Idle) /\ PopCommand
  /\ UNCHANGED <<clock, store, cond, eventBuffer, ran, wanted, pokes>>

UnknownCommand ==
  /\ Takes("none") /\ PopCommand
  /\ UNCHANGED <<clock, store, cond, eventBuffer, alarms, job, run, pokes>>

RunCommand == RaiseEvent \/ ExecuteRules \/ TimerSet \/ TimerPause \/ TimerResume
                \/ UnknownCommand
Continue == OpenFile \/ ParseLine \/ EndFile \/ EndInput \/ EndCommand
              \/ RingTimer \/ EndTimers \/ EndPause \/ EndResume
-----------------------------------------------------------------------------
(* What else loop() runs between two jobs, and the files on the web pages.   *)
Outside == job = Idle /\ pokes < MaxPokes /\ pokes' = pokes + 1

\* An event of a task, a pin or a callback.
Input ==
  /\ Outside
  /\ \E e \in Inputs : Raise(Handler("input"), e, ActiveSets)
  /\ UNCHANGED <<clock, store, cond, queue, eventBuffer, alarms>>

\* handle_control keeps the last event it was given.
WebEvent ==
  /\ Outside
  /\ \E e \in Inputs : eventBuffer' = e
  /\ UNCHANGED <<clock, store, cond, queue, alarms, job, run>>

\* run10TimesPerSecond.
RunBuffer ==
  /\ job = Idle /\ eventBuffer # NoEvent
  /\ Raise(Handler("buffer"), eventBuffer, ActiveSets)
  /\ UNCHANGED <<clock, store, cond, queue, eventBuffer, alarms, pokes>>

ValueChanges ==
  /\ Outside
  /\ \E c \in Conds : cond' = [cond EXCEPT ![c] = ~@]
  /\ UNCHANGED <<clock, store, queue, eventBuffer, alarms, job, run>>

checkRuleSets(fs) == [s \in Sets |-> fs[s] # Missing]

\* Forgets to look which files there are.
DeleteRules_Unchecked ==
  /\ Outside
  /\ \E s \in Deletable : files' = [files EXCEPT ![s] = Missing]
  /\ UNCHANGED <<active, broken, clock, cond, queue, eventBuffer, alarms, job, run>>

\* handle_filelist
DeleteRules ==
  /\ Outside
  /\ \E s \in Deletable : files' = [files EXCEPT ![s] = Missing]
  /\ active' = checkRuleSets(files') /\ broken' = {}
  /\ UNCHANGED <<clock, cond, queue, eventBuffer, alarms, job, run>>

\* handle_rules
SaveRules ==
  /\ Outside
  /\ \E s \in Sets, c \in Sources : files' = [files EXCEPT ![s] = c]
  /\ active' = checkRuleSets(files') /\ broken' = {}
  /\ UNCHANGED <<clock, cond, queue, eventBuffer, alarms, job, run>>

\* handleFileUpload removes the file and opens it anew, which may fail; it
\* leaves activeRuleSets alone.
UploadRules ==
  /\ Outside
  /\ \E s \in Sets, c \in Sources \union {Missing} :
       /\ files' = [files EXCEPT ![s] = c]
       /\ broken' = IF c = Missing THEN broken \union {s} ELSE broken \ {s}
  /\ UNCHANGED <<active, clock, cond, queue, eventBuffer, alarms, job, run>>

\* A file is read within a second, and the queue is worked off before it grows.
Tick ==
  /\ reading = 0 /\ Len(queue) <= MaxQueue
  /\ lag < MaxLag /\ lag' = lag + 1
  /\ now' = Plus(now, 1)
  /\ ran' = [t \in Timers |->
       IF Running(t) /\ ~(job.kind = "pause" /\ job.t = t) /\ ran[t] <= wanted[t] + 2 * MaxLag
         THEN ran[t] + 1 ELSE ran[t]]
  /\ UNCHANGED <<store, cond, queue, eventBuffer, timer, wanted, job, run, pokes>>

\* setup() has checked the files and raises System#Boot.
Init ==
  /\ now = 0 /\ lag = 0
  /\ files \in [Sets \union Others -> Sources \union {Missing, OtherSource}]
  /\ \A f \in Sets \union Others :
       files[f] \in (IF f \in Sets THEN Sources ELSE {OtherSource}) \union {Missing}
  /\ active = checkRuleSets(files) /\ broken = {}
  /\ cond = [c \in Conds |-> FALSE]
  /\ queue = <<>> /\ eventBuffer = NoEvent
  /\ timer = [t \in Timers |-> Off]
  /\ ran = [t \in Timers |-> 0] /\ wanted = [t \in Timers |-> 0]
  /\ job = Handler("input")
  /\ event = TimerEvent("System#Boot", 0) /\ sets = ActiveSets
  /\ nestingLevel = 0 /\ notFound = 0 /\ reading = 0 /\ pos = 1
  /\ match = FALSE /\ codeBlock = FALSE /\ conditional = FALSE
  /\ condition = FALSE /\ ifBranche = FALSE /\ ifBrancheJustMatch = FALSE
  /\ branch = NoBranch /\ done = {}
  /\ pokes = 0

Environment == Input \/ WebEvent \/ ValueChanges \/ DeleteRules \/ SaveRules \/ UploadRules

Next == Continue \/ RunCommand \/ CheckTimers \/ RunBuffer \/ Tick \/ Environment

\* A handler that has begun goes on, loop() comes back to rulesTimers, to the
\* event buffer and to the event queue, and time passes.
Fairness ==
  /\ WF_vars(Continue) /\ WF_vars(Tick)
  /\ SF_vars(RunCommand) /\ SF_vars(CheckTimers) /\ SF_vars(RunBuffer)

Spec == Init /\ [][Next]_vars /\ Fairness
-----------------------------------------------------------------------------
\* The counter of rulesProcessingFile counts the file being read, and besides
\* only those it never counted down because executerules, or an event after an
\* upload that failed, asked for them in vain.  So rules are refused for good
\* after MaxNesting of those, and for nothing else: an event never asks for a
\* file that was deleted, and a file that was read is always counted down.
NestingLevelIsDepth == nestingLevel = (IF reading = 0 THEN 0 ELSE 1) + notFound

\* Of the if and elseif branches of a chain, up to its endif, at most one runs
\* commands, whatever values change while they run.
OneBranchRuns == \A b, c \in done : b[1] = "if" /\ c[1] = "if" => b = c

\* A timer rings when it has run for the time it was set for, pauses left out,
\* and rulesTimers, called every MaxLag and itself no longer than that, comes
\* round to it; until it rings or is stopped it is never later than that.  A
\* timer whose deadline is the word 0 does not run: rulesTimers takes it for off.
RingsOnTime ==
  [][\A t \in Timers :
       /\ timer[t].timestamp # 0 /\ timer'[t].timestamp = 0 /\ job'.kind = "ring"
            => ran[t] >= wanted[t] /\ ran[t] <= wanted[t] + 2 * MaxLag
       /\ Running(t)' => ran'[t] <= wanted'[t] + 2 * MaxLag]_vars

\* A timer that runs rings in the end, or is paused or turned off.
TimersRing == \A t \in Timers : Running(t) ~> ~Running(t)
=============================================================================
