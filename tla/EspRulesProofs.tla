--------------------------- MODULE EspRulesProofs ---------------------------
(***************************************************************************)
(* Proofs about the rule engine, for every rule file, every way the values *)
(* of conditions change, and every number of files and timers.             *)
(***************************************************************************)
EXTENDS EspRules, EspTimeProofs, WellFoundedInduction, SequenceTheorems, TLAPS

IfsDone == {b \in done : b[1] = "if"}

\* Inductive: a branch of if or elseif that ran was selected by a condition,
\* and after one condition held no other is taken to hold until endif.
ChainInv ==
  /\ conditional \in BOOLEAN /\ condition \in BOOLEAN
  /\ ifBranche \in BOOLEAN /\ ifBrancheJustMatch \in BOOLEAN
  /\ \A b, c \in IfsDone : b = c
  /\ IfsDone # {} => ifBrancheJustMatch
  /\ conditional /\ condition => ifBrancheJustMatch
  /\ conditional /\ condition /\ ifBranche => \A b \in IfsDone : b = branch
  /\ conditional /\ ~ifBranche => branch[1] # "if"

\* Steps that are not of the parser leave the chain alone.
LEMMA ChainUnchanged ==
  ASSUME ChainInv, UNCHANGED <<flags, chain>>
  PROVE  ChainInv'
BY DEF ChainInv, IfsDone, flags, chain

\* A new condition holds only when none of the chain held before.
LEMMA ChainIf == ASSUME ChainInv, If PROVE ChainInv'
<1>1. /\ conditional' = (conditional \/ Action.kind = "if")
      /\ condition' = (~ifBrancheJustMatch /\ cond[Action.cond])
      /\ ifBrancheJustMatch' = (ifBrancheJustMatch \/ condition')
      /\ ifBranche' = TRUE /\ done' = done /\ branch' = <<"if", pos>>
  BY DEF If, Holds
<1>2. IfsDone' = IfsDone
  BY <1>1 DEF IfsDone
<1>3. condition' => IfsDone = {}
  BY <1>1 DEF ChainInv
<1>4. conditional' \in BOOLEAN /\ condition' \in BOOLEAN
      /\ ifBranche' \in BOOLEAN /\ ifBrancheJustMatch' \in BOOLEAN
  BY <1>1 DEF ChainInv
<1>5. \A b, c \in IfsDone' : b = c
  BY <1>2 DEF ChainInv
<1>6. IfsDone' # {} => ifBrancheJustMatch'
  BY <1>1, <1>2 DEF ChainInv
<1>7. conditional' /\ condition' => ifBrancheJustMatch'
  BY <1>1
<1>8. condition' => \A b \in IfsDone' : b = branch'
  BY <1>2, <1>3
<1>9. conditional' /\ ~ifBranche' => branch'[1] # "if"
  BY <1>1
<1> QED BY <1>4, <1>5, <1>6, <1>7, <1>8, <1>9 DEF ChainInv

\* else forgets which branch the condition was for, but not that it held.
LEMMA ChainElse == ASSUME ChainInv, Else PROVE ChainInv'
<1>1. /\ conditional' = conditional /\ condition' = condition
      /\ ifBrancheJustMatch' = ifBrancheJustMatch
      /\ ifBranche' = FALSE /\ done' = done /\ branch' = <<"else", pos>>
  BY DEF Else
<1>2. IfsDone' = IfsDone
  BY <1>1 DEF IfsDone
<1>3. branch'[1] # "if"
  BY <1>1
<1> QED BY <1>1, <1>2, <1>3 DEF ChainInv

\* endif starts afresh.
LEMMA ChainEndIf == ASSUME ChainInv, EndIf PROVE ChainInv'
<1>1. /\ conditional' = FALSE /\ ifBranche' = FALSE /\ ifBrancheJustMatch' = FALSE
      /\ condition' = condition /\ done' = {}
  BY DEF EndIf
<1>2. IfsDone' = {}
  BY <1>1 DEF IfsDone
<1> QED BY <1>1, <1>2 DEF ChainInv

\* A command adds its branch only when the condition selects that branch.
LEMMA ChainCommand == ASSUME ChainInv, Command PROVE ChainInv'
<1>1. /\ conditional' = conditional /\ condition' = condition
      /\ ifBrancheJustMatch' = ifBrancheJustMatch
      /\ ifBranche' = ifBranche /\ branch' = branch
  BY DEF Command
<1>2. CASE done' = done
  BY <1>1, <1>2 DEF ChainInv, IfsDone
<1>3. CASE conditional /\ condition = ifBranche /\ done' = done \union {branch}
  <2>1. CASE ifBranche
    <3>1. condition /\ \A b \in IfsDone : b = branch
      BY <1>3, <2>1 DEF ChainInv
    <3>2. \A b \in IfsDone' : b = branch
      BY <1>3, <3>1 DEF IfsDone
    <3>3. ifBrancheJustMatch
      BY <1>3, <3>1 DEF ChainInv
    <3> QED BY <1>1, <2>1, <3>2, <3>3 DEF ChainInv
  <2>2. CASE ~ifBranche
    <3>1. branch[1] # "if"
      BY <1>3, <2>2 DEF ChainInv
    <3>2. IfsDone' = IfsDone
      BY <1>3, <3>1 DEF IfsDone
    <3> QED BY <1>1, <2>2, <3>1, <3>2 DEF ChainInv
  <2> QED BY <2>1, <2>2 DEF ChainInv
<1>4. done' = done \/ (conditional /\ condition = ifBranche /\ done' = done \union {branch})
  BY DEF Command, NoCommand
<1> QED BY <1>2, <1>3, <1>4

\* A file is entered with all flags down.
LEMMA ChainOpen == ASSUME ChainInv, OpenFile PROVE ChainInv'
<1>1. CASE UNCHANGED frame
  BY <1>1, ChainUnchanged DEF frame
<1>2. CASE conditional' = FALSE /\ condition' = FALSE /\ ifBranche' = FALSE
           /\ ifBrancheJustMatch' = FALSE /\ done' = {}
  <2>1. IfsDone' = {}
    BY <1>2 DEF IfsDone
  <2> QED BY <1>2, <2>1 DEF ChainInv
<1> QED BY <1>1, <1>2 DEF OpenFile

\* A file is left with no chain open.
LEMMA ChainEndFile == ASSUME ChainInv, EndFile PROVE ChainInv'
<1>1. UNCHANGED flags /\ done' = {} /\ branch' = NoBranch
  BY DEF EndFile
<1>2. IfsDone' = {}
  BY <1>1 DEF IfsDone
<1>3. branch'[1] # "if"
  BY <1>1 DEF NoBranch
<1> QED BY <1>1, <1>2, <1>3 DEF ChainInv, flags

\* Of the if and elseif branches of a chain at most one runs commands, for
\* every rule file, however the values change between its lines.
THEOREM AtMostOneBranch == Spec => []OneBranchRuns
<1>1. Init => ChainInv
  BY DEF Init, ChainInv, IfsDone, NoBranch
<1>2. ChainInv /\ [Next]_vars => ChainInv'
  <2> SUFFICES ASSUME ChainInv, [Next]_vars PROVE ChainInv'
    OBVIOUS
  <2>1. CASE If
    BY <2>1, ChainIf
  <2>2. CASE Else
    BY <2>2, ChainElse
  <2>3. CASE EndIf
    BY <2>3, ChainEndIf
  <2>4. CASE Command
    BY <2>4, ChainCommand
  <2>5. CASE BlockStarts \/ EndOn \/ Skipped
    <3>1. UNCHANGED <<conditional, condition, ifBranche, ifBrancheJustMatch, chain>>
      BY <2>5 DEF BlockStarts, EndOn, Skipped
    <3> QED BY <3>1 DEF ChainInv, IfsDone, chain
  <2>6. CASE OpenFile
    BY <2>6, ChainOpen
  <2>7. CASE EndFile
    BY <2>7, ChainEndFile
  <2>8. CASE EndInput \/ EndCommand \/ RingTimer \/ EndTimers \/ EndPause \/ EndResume
    <3>1. UNCHANGED frame
      BY <2>8 DEF EndInput, EndCommand, RingTimer, EndTimers, EndPause, EndResume,
                  Return, Raise, run
    <3> QED BY <3>1, ChainUnchanged DEF frame
  <2>9. CASE RunCommand \/ CheckTimers \/ RunBuffer
    <3>1. UNCHANGED frame
      BY <2>9 DEF RunCommand, RaiseEvent, ExecuteRules, TimerSet, TimerPause, TimerResume,
                  UnknownCommand, CheckTimers, RunBuffer, Raise, run
    <3> QED BY <3>1, ChainUnchanged DEF frame
  <2>10. CASE Tick \/ Environment
    <3>1. UNCHANGED frame
      BY <2>10 DEF Tick, Environment, Input, WebEvent, ValueChanges, DeleteRules, SaveRules,
                   UploadRules, Raise, run
    <3> QED BY <3>1, ChainUnchanged DEF frame
  <2>11. CASE UNCHANGED vars
    BY <2>11, ChainUnchanged DEF vars, run, frame
  <2> QED
    BY <2>1, <2>2, <2>3, <2>4, <2>5, <2>6, <2>7, <2>8, <2>9, <2>10, <2>11
       DEF Next, Continue, ParseLine
<1>3. ChainInv => OneBranchRuns
  BY DEF ChainInv, OneBranchRuns, IfsDone
<1> QED BY <1>1, <1>2, <1>3, PTL DEF Spec
-----------------------------------------------------------------------------
(* The nesting level, for any rules: only the files that executerules names *)
(* are bound to those of the model, which may be missing like any other.     *)
Acts == {NoAct} \union
        UNION {{src[i].body.act : i \in 1..Len(src)} : src \in Sources \union {OtherSource}}

SourcesFit ==
  /\ \A src \in Sources \union {OtherSource} : Len(src) \in Nat
  /\ \A a \in Acts : a.op = "executerules" => a.arg \in Sets \union Others

RuleFiles == [Sets \union Others -> Sources \union {Missing, OtherSource}]

Depth == IF reading = 0 THEN 0 ELSE 1

\* Inductive: an active file is there, or an upload has lost it, and what is
\* still to be read is there or asked for in vain.
FilesInv ==
  /\ files \in RuleFiles
  /\ \A s \in Sets : active[s] => files[s] # Missing \/ s \in broken
QueueInv == queue \in Seq(Acts)
SetsInv ==
  sets \subseteq Sets \union Others /\ \A s \in sets : files[s] # Missing \/ Excused(s)
TakesOne == {"command", "execute", "pause", "resume"}
JobInv ==
  /\ job.kind \in {"idle", "timers"} => sets = {} /\ reading = 0
  /\ job.kind \in TakesOne => queue # <<>>
NestingInv ==
  /\ FilesInv /\ QueueInv /\ SetsInv /\ JobInv
  /\ reading \in Sets \union Others \union {0} /\ pos \in Nat \ {0}
  /\ notFound \in Nat /\ nestingLevel = Depth + notFound

\* FirstOf is the least of a set of files or timers.
LEMMA FirstOfMember ==
  ASSUME NEW S \in SUBSET Nat, S # {}
  PROVE  FirstOf(S) \in S /\ \A y \in S : FirstOf(S) <= y
<1> DEFINE R == {ss \in Nat \X Nat : ss[1] < ss[2]}
<1>1. IsWellFoundedOn(R, Nat)
  BY NatLessThanWellFounded DEF OpToRel
<1>2. PICK x \in S : \A y \in S : <<y, x>> \notin R
  <2>1. S \subseteq Nat /\ S # {}
    OBVIOUS
  <2> HIDE DEF R
  <2> QED BY <1>1, <2>1, WFMin
<1>3. ASSUME NEW y \in S PROVE x <= y
  <2>1. x \in Nat /\ y \in Nat
    OBVIOUS
  <2>2. y < x => <<y, x>> \in R
    BY <2>1
  <2> QED BY <1>2, <2>1, <2>2
<1> QED BY <1>3 DEF FirstOf

\* The active files are there, but for those an upload lost.
LEMMA ActiveThere ==
  ASSUME FilesInv
  PROVE  ActiveSets \subseteq Sets /\ \A s \in ActiveSets : files[s] # Missing \/ s \in broken
BY DEF FilesInv, ActiveSets

\* A handler that raises an event for files that are there or asked for in vain.
LEMMA RaiseKeeps ==
  ASSUME NestingInv, NEW j, NEW e, NEW read, Raise(j, e, read), j.kind \notin {"idle", "timers"},
         read \subseteq Sets \union Others,
         \A s \in read : files[s] # Missing \/ s \in broken \/ j.kind = "execute",
         j.kind \in TakesOne => queue # <<>>,
         UNCHANGED store, queue' = queue
  PROVE  NestingInv'
<1>1. /\ UNCHANGED <<files, active, broken, queue, nestingLevel, notFound, reading, pos>>
      /\ job' = j /\ sets' = read
  BY DEF Raise, frame, store, level
<1>2. SetsInv'
  BY <1>1 DEF SetsInv, Excused
<1>3. FilesInv' /\ QueueInv' /\ JobInv' /\ Depth' = Depth
  BY <1>1 DEF NestingInv, FilesInv, QueueInv, JobInv, Depth
<1> QED BY <1>1, <1>2, <1>3 DEF NestingInv

\* What a line can put into the queue.
LEMMA ActionIsAct ==
  ASSUME SourcesFit, FilesInv, reading \in Sets \union Others, pos \in 1..Len(files[reading])
  PROVE  Action.act \in Acts
<1>1. CASE Action = Nothing
  BY <1>1 DEF Nothing, Body, Acts
<1>2. CASE Action = Line.body
  <2>1. files[reading] \in Sources \union {OtherSource}
    BY DEF FilesInv, RuleFiles, Missing
  <2> QED BY <1>2, <2>1 DEF Line, Acts
<1> QED BY <1>1, <1>2 DEF Action

\* Steps of the parser, which only move inside the file.
LEMMA NestingParse ==
  ASSUME SourcesFit, NestingInv, ParseLine PROVE NestingInv'
<1>1. /\ UNCHANGED <<files, active, broken, job, sets, nestingLevel, notFound, reading>>
      /\ reading # 0 /\ pos <= Len(files[reading]) /\ pos' = pos + 1
  BY DEF ParseLine, BlockStarts, EndOn, Skipped, If, Else, EndIf, Command, Reads, store, level
<1>2. QueueInv'
  <2>1. CASE queue' = queue
    BY <2>1 DEF NestingInv, QueueInv
  <2>2. CASE queue' = Append(queue, Action.act) /\ Action.act \in Acts
    BY <2>2, AppendProperties DEF NestingInv, QueueInv
  <2>3. Command => Action.act \in Acts
    <3> SUFFICES ASSUME Command PROVE Action.act \in Acts
      OBVIOUS
    <3>1. reading \in Sets \union Others
      BY <1>1 DEF NestingInv
    <3>2. Len(files[reading]) \in Nat
      BY <3>1 DEF SourcesFit, NestingInv, FilesInv, RuleFiles, Missing
    <3>3. pos \in 1..Len(files[reading])
      BY <1>1, <3>2 DEF NestingInv
    <3> QED BY <3>1, <3>3, ActionIsAct DEF NestingInv
  <2>4. queue' = queue \/ (Command /\ queue' = Append(queue, Action.act))
    BY DEF ParseLine, BlockStarts, EndOn, Skipped, If, Else, EndIf, Command, NoCommand
  <2> QED BY <2>1, <2>2, <2>3, <2>4
<1>3. FilesInv' /\ SetsInv' /\ notFound' \in Nat /\ nestingLevel' = Depth' + notFound'
  BY <1>1 DEF NestingInv, FilesInv, SetsInv, Depth, Excused
<1>5. queue # <<>> => queue' # <<>>
  <2>1. queue \in Seq(Acts)
    BY DEF NestingInv, QueueInv
  <2>2. queue' = queue \/ queue' = Append(queue, Action.act)
    BY DEF ParseLine, BlockStarts, EndOn, Skipped, If, Else, EndIf, Command, NoCommand
  <2> QED BY <2>1, <2>2, AppendProperties
<1>6. JobInv'
  BY <1>1, <1>5 DEF NestingInv, JobInv
<1>4. reading' \in Sets \union Others \union {0} /\ pos' \in Nat \ {0}
  BY <1>1 DEF NestingInv
<1> QED BY <1>2, <1>3, <1>4, <1>6 DEF NestingInv

\* A file is entered and counted, or asked for in vain.
LEMMA NestingOpen ==
  ASSUME NestingInv, OpenFile PROVE NestingInv'
<1> DEFINE s == FirstOf(sets)
<1>1. s \in sets /\ sets \subseteq Sets \union Others
  <2>1. sets \in SUBSET Nat /\ sets # {}
    BY RulesAssumption DEF NestingInv, SetsInv, OpenFile
  <2> QED BY <2>1, FirstOfMember DEF NestingInv, SetsInv
<1>2. reading = 0 /\ Depth = 0 /\ nestingLevel = notFound /\ notFound \in Nat /\ s # 0
  BY <1>1, RulesAssumption DEF OpenFile, NestingInv, Depth
<1>3. sets' = sets \ {s} /\ UNCHANGED <<files, active, broken, queue, job>>
  BY DEF OpenFile, store
<1>4. \/ UNCHANGED <<nestingLevel, notFound, reading, pos>>
      \/ nestingLevel' = nestingLevel + 1 /\ notFound' = notFound + 1 /\ UNCHANGED <<reading, pos>>
      \/ nestingLevel' = nestingLevel + 1 /\ notFound' = notFound /\ reading' = s /\ pos' = 1
  <2>1. files[s] # Missing \/ Excused(s)
    BY <1>1 DEF NestingInv, SetsInv
  <2> HIDE DEF s
  <2>2. CASE nestingLevel + 1 > MaxNesting
    BY <2>2 DEF OpenFile, level, frame
  <2>3. CASE ~(nestingLevel + 1 > MaxNesting) /\ files[s] = Missing
    BY <2>1, <2>3 DEF OpenFile, frame, s
  <2>4. CASE ~(nestingLevel + 1 > MaxNesting) /\ files[s] # Missing
    BY <2>4 DEF OpenFile, s
  <2> QED BY <2>2, <2>3, <2>4
<1> HIDE DEF s
<1>5. FilesInv' /\ QueueInv' /\ SetsInv' /\ JobInv'
  <2>1. JobInv'
    <3>1. job.kind \in {"idle", "timers"} => FALSE
      BY <1>1 DEF NestingInv, JobInv
    <3> QED BY <1>3, <3>1 DEF NestingInv, JobInv
  <2>2. SetsInv'
    BY <1>3 DEF NestingInv, SetsInv, Excused
  <2> QED BY <1>3, <2>1, <2>2 DEF NestingInv, FilesInv, QueueInv
<1>6. notFound' \in Nat /\ nestingLevel' = Depth' + notFound'
  BY <1>2, <1>4 DEF Depth
<1>7. reading' \in Sets \union Others \union {0} /\ pos' \in Nat \ {0}
  BY <1>1, <1>4 DEF NestingInv
<1> QED BY <1>5, <1>6, <1>7 DEF NestingInv

\* A file is left and counted down.
LEMMA NestingEndFile ==
  ASSUME NestingInv, EndFile PROVE NestingInv'
<1>1. /\ reading # 0 /\ reading' = 0 /\ nestingLevel' = nestingLevel - 1
      /\ UNCHANGED <<files, active, broken, queue, job, sets, pos, notFound>>
  BY DEF EndFile, store
<1>2. SetsInv' /\ FilesInv' /\ QueueInv' /\ JobInv'
  BY <1>1 DEF NestingInv, FilesInv, QueueInv, SetsInv, JobInv, Excused
<1>3. nestingLevel' = Depth' + notFound' /\ notFound' \in Nat
  BY <1>1 DEF NestingInv, Depth
<1> QED BY <1>1, <1>2, <1>3 DEF NestingInv

\* Steps after which nothing is being read, that change neither files nor sets.
LEMMA NestingQuiet ==
  ASSUME NestingInv,
         UNCHANGED <<files, active, broken, sets, nestingLevel, notFound, reading, pos>>,
         (sets = {} /\ reading = 0) \/ job' = job, queue' \in Seq(Acts),
         job'.kind \in TakesOne => queue' # <<>>
  PROVE  NestingInv'
BY DEF NestingInv, FilesInv, QueueInv, SetsInv, JobInv, Depth, Excused

\* Commands leave the queue from its head.
LEMMA QueueHead ==
  ASSUME QueueInv, queue # <<>> PROVE Head(queue) \in Acts /\ Tail(queue) \in Seq(Acts)
BY HeadTailProperties DEF QueueInv

\* A handler that returns, or one that raises nothing.
LEMMA NestingEnds ==
  ASSUME NestingInv, EndInput \/ EndCommand \/ EndTimers \/ EndPause \/ EndResume
  PROVE  NestingInv'
<1>1. UNCHANGED <<files, active, broken, sets, nestingLevel, notFound, reading, pos>>
  BY DEF EndInput, EndCommand, EndTimers, EndPause, EndResume, Return, store, run, frame, level
<1>2. sets = {} /\ reading = 0
  BY DEF EndInput, EndCommand, EndTimers, EndPause, EndResume, Processed, NestingInv, JobInv
<1>3. queue' = queue \/ (queue' = Tail(queue) /\ queue # <<>>)
  <2>1. EndInput \/ EndTimers => queue' = queue
    BY DEF EndInput, EndTimers
  <2>2. EndCommand \/ EndPause \/ EndResume =>
          queue' = Tail(queue) /\ job.kind \in TakesOne
    BY DEF EndCommand, EndPause, EndResume, PopCommand, TakesOne
  <2>3. job.kind \in TakesOne => queue # <<>>
    BY DEF NestingInv, JobInv
  <2>4. CASE EndInput \/ EndTimers
    BY <2>1, <2>4
  <2>5. CASE EndCommand \/ EndPause \/ EndResume
    BY <2>2, <2>3, <2>5
  <2> QED BY <2>4, <2>5
<1>4. queue' \in Seq(Acts)
  BY <1>3, QueueHead DEF NestingInv, QueueInv
<1>5. job'.kind \notin TakesOne
  BY DEF EndInput, EndCommand, EndTimers, EndPause, EndResume, Return, Idle, Handler, Job, TakesOne
<1> QED BY <1>1, <1>2, <1>4, <1>5, NestingQuiet

\* Events of tasks, web clients, timers and commands.
LEMMA NestingRaises ==
  ASSUME NestingInv, NEW j, NEW e, Raise(j, e, ActiveSets), j.kind \notin {"idle", "timers"},
         j.kind \in TakesOne => queue # <<>>,
         UNCHANGED store, queue' = queue
  PROVE  NestingInv'
<1>1. /\ ActiveSets \subseteq Sets \union Others
      /\ \A s \in ActiveSets : files[s] # Missing \/ s \in broken
  BY ActiveThere DEF NestingInv
<1> QED BY <1>1, RaiseKeeps

\* executerules of a file that may be there or not.
LEMMA NestingExecute ==
  ASSUME SourcesFit, NestingInv, ExecuteRules PROVE NestingInv'
<1> DEFINE f == Head(queue).arg
<1>1. f \in Sets \union Others
  <2>1. queue # <<>> /\ Head(queue).op = "executerules"
    BY DEF ExecuteRules, Takes
  <2>2. Head(queue) \in Acts
    BY <2>1, QueueHead DEF NestingInv
  <2> QED BY <2>1, <2>2 DEF SourcesFit
<1>2. {f} \subseteq Sets \union Others
  BY <1>1
<1>3. /\ Raise(Handler("execute"), TimerEvent("", 0), {f})
      /\ UNCHANGED store /\ queue' = queue
  BY DEF ExecuteRules
<1>4. Handler("execute").kind = "execute" /\ queue # <<>>
  BY DEF Handler, Job, ExecuteRules, Takes
<1> HIDE DEF f
<1>5. Handler("execute").kind \notin {"idle", "timers"}
  BY <1>4
<1> QED BY <1>2, <1>3, <1>4, <1>5, RaiseKeeps

\* Commands of rule timers.
LEMMA NestingTimers ==
  ASSUME NestingInv, TimerSet \/ TimerPause \/ TimerResume \/ UnknownCommand
  PROVE  NestingInv'
<1>1. CASE UNCHANGED <<store, job, run>> /\ queue # <<>> /\ queue' = Tail(queue)
  <2>1. queue' \in Seq(Acts)
    BY <1>1, QueueHead DEF NestingInv
  <2>2. job' = Idle
    BY <1>1 DEF TimerSet, TimerPause, TimerResume, UnknownCommand, Takes
  <2> QED BY <1>1, <2>1, <2>2, NestingQuiet DEF store, run, frame, level, Idle, Handler, Job, TakesOne
<1>2. CASE \E e, left : Raise(Job("pause", Alarm, left), e, ActiveSets)
                          /\ queue # <<>> /\ UNCHANGED <<queue, store>>
  <2>1. \A left : Job("pause", Alarm, left).kind \notin {"idle", "timers"}
    BY DEF Job
  <2> QED BY <1>2, <2>1, NestingRaises
<1>3. CASE \E e : Raise(Job("resume", Alarm, 0), e, ActiveSets)
                    /\ queue # <<>> /\ UNCHANGED <<queue, store>>
  <2>1. Job("resume", Alarm, 0).kind \notin {"idle", "timers"}
    BY DEF Job
  <2> QED BY <1>3, <2>1, NestingRaises
<1>4. TimerSet \/ UnknownCommand => UNCHANGED <<store, job, run>> /\ queue # <<>> /\ queue' = Tail(queue)
  BY DEF TimerSet, UnknownCommand, Takes, PopCommand
<1>5. TimerPause => \/ UNCHANGED <<store, job, run>> /\ queue # <<>> /\ queue' = Tail(queue)
                    \/ \E e, left : Raise(Job("pause", Alarm, left), e, ActiveSets)
                                      /\ queue # <<>> /\ UNCHANGED <<queue, store>>
  BY DEF TimerPause, Takes, PopCommand
<1>6. TimerResume => \/ UNCHANGED <<store, job, run>> /\ queue # <<>> /\ queue' = Tail(queue)
                     \/ \E e : Raise(Job("resume", Alarm, 0), e, ActiveSets)
                                 /\ queue # <<>> /\ UNCHANGED <<queue, store>>
  BY DEF TimerResume, Takes, PopCommand
<1> QED BY <1>1, <1>2, <1>3, <1>4, <1>5, <1>6

\* Files change only between two jobs, when none is still to be read.
LEMMA NestingFiles ==
  ASSUME SourcesFit, NestingInv, DeleteRules \/ SaveRules \/ UploadRules
  PROVE  NestingInv'
<1>1. /\ job = Idle /\ UNCHANGED <<job, queue, sets, nestingLevel, notFound, reading, pos>>
  BY DEF DeleteRules, SaveRules, UploadRules, Outside, run, frame, level
<1>2. sets = {} /\ reading = 0
  BY <1>1 DEF NestingInv, JobInv, Idle, Handler, Job
<1>3. files' \in RuleFiles
  BY DEF NestingInv, FilesInv, RuleFiles, DeleteRules, SaveRules, UploadRules
<1>4. \A s \in Sets : active'[s] => files'[s] # Missing \/ s \in broken'
  <2>1. CASE DeleteRules \/ SaveRules
    BY <2>1 DEF DeleteRules, SaveRules, checkRuleSets
  <2>2. CASE UploadRules
    <3>1. PICK u \in Sets, c \in Sources \union {Missing} :
            /\ files' = [files EXCEPT ![u] = c] /\ active' = active
            /\ broken' = IF c = Missing THEN broken \union {u} ELSE broken \ {u}
      BY <2>2 DEF UploadRules
    <3> QED BY <3>1 DEF NestingInv, FilesInv, RuleFiles
  <2> QED BY <2>1, <2>2
<1>6. FilesInv'
  BY <1>3, <1>4 DEF FilesInv
<1>7. QueueInv' /\ SetsInv' /\ JobInv' /\ Depth' = Depth
  BY <1>1, <1>2 DEF NestingInv, QueueInv, SetsInv, JobInv, Depth
<1> QED BY <1>1, <1>6, <1>7 DEF NestingInv

\* Every file that is entered is counted down again, whatever rules are saved,
\* uploaded and deleted: the level exceeds the depth only by the files that
\* executerules, and events after an upload that failed, asked for in vain.
THEOREM NestingIsCounted ==
  ASSUME SourcesFit PROVE Spec => []NestingLevelIsDepth
<1>1. Init => NestingInv
  <2> SUFFICES ASSUME Init PROVE NestingInv
    OBVIOUS
  <2>1. FilesInv
    BY DEF Init, checkRuleSets, FilesInv, RuleFiles
  <2>2. SetsInv
    BY <2>1, ActiveThere DEF Init, SetsInv, Excused
  <2>3. QueueInv /\ JobInv
    BY DEF Init, QueueInv, JobInv, Handler, Job, TakesOne
  <2> QED BY <2>1, <2>2, <2>3 DEF Init, NestingInv, Depth
<1>2. NestingInv /\ [Next]_vars => NestingInv'
  <2> SUFFICES ASSUME NestingInv, [Next]_vars PROVE NestingInv'
    OBVIOUS
  <2>1. CASE ParseLine
    BY <2>1, NestingParse
  <2>2. CASE OpenFile
    BY <2>2, NestingOpen
  <2>3. CASE EndFile
    BY <2>3, NestingEndFile
  <2>4. CASE EndInput \/ EndCommand \/ EndTimers \/ EndPause \/ EndResume
    BY <2>4, NestingEnds
  <2>5. CASE ExecuteRules
    BY <2>5, NestingExecute
  <2>6. CASE TimerSet \/ TimerPause \/ TimerResume \/ UnknownCommand
    BY <2>6, NestingTimers
  <2>7. CASE DeleteRules \/ SaveRules \/ UploadRules
    BY <2>7, NestingFiles
  <2>8. CASE RingTimer \/ RaiseEvent \/ Input \/ RunBuffer
    <3> DEFINE Raises == \E k, t, e : /\ Raise(Job(k, t, 0), e, ActiveSets)
                                      /\ \/ k \in {"ring", "input", "buffer"}
                                         \/ k = "command" /\ queue # <<>>
    <3>8. RaiseEvent => queue # <<>>
      BY DEF RaiseEvent, Takes
    <3>3. RingTimer => Raises
      BY Zenon DEF RingTimer
    <3>4. RaiseEvent => Raises
      BY <3>8, Zenon DEF RaiseEvent, Handler
    <3>5. Input => Raises
      BY Zenon DEF Input, Handler
    <3>6. RunBuffer => Raises
      BY Zenon DEF RunBuffer, Handler
    <3>7. UNCHANGED store /\ queue' = queue
      BY <2>8 DEF RingTimer, RaiseEvent, Input, RunBuffer
    <3>1. Raises /\ UNCHANGED store /\ queue' = queue
      BY <2>8, <3>3, <3>4, <3>5, <3>6, <3>7
    <3>2. \A k, t : Job(k, t, 0).kind = k
      BY DEF Job
    <3> QED BY <3>1, <3>2, NestingRaises DEF TakesOne
  <2>9. CASE CheckTimers \/ WebEvent \/ ValueChanges \/ Tick \/ UNCHANGED vars
    <3>1. UNCHANGED <<store, run, queue>> /\ (job' = job \/ job = Idle)
      BY <2>9 DEF CheckTimers, WebEvent, ValueChanges, Tick, vars
    <3>2. job = Idle => sets = {} /\ reading = 0
      BY DEF NestingInv, JobInv, Idle, Handler, Job
    <3>3. job'.kind \in TakesOne => job' = job
      BY <2>9 DEF CheckTimers, WebEvent, ValueChanges, Tick, vars, Outside, Idle, Handler, Job, TakesOne
    <3> QED BY <3>1, <3>2, <3>3, NestingQuiet
            DEF NestingInv, QueueInv, JobInv, store, run, frame, level
  <2> QED
    BY <2>1, <2>2, <2>3, <2>4, <2>5, <2>6, <2>7, <2>8, <2>9
       DEF Next, Continue, RunCommand, Environment
<1>3. NestingInv => NestingLevelIsDepth
  BY DEF NestingInv, NestingLevelIsDepth, Depth
<1> QED BY <1>1, <1>2, <1>3, PTL DEF Spec
-----------------------------------------------------------------------------
(* The commands in the event queue are those of the rule files, whatever     *)
(* files are deleted, saved and uploaded.                                    *)
\* Inductive: handlers that take their command from the queue when they return
\* have left it there.
CommandsInv ==
  /\ files \in RuleFiles
  /\ queue \in Seq(Acts)
  /\ sets \subseteq Sets \union Others
  /\ reading \in Sets \union Others \union {0} /\ pos \in Nat \ {0}
  /\ job.kind \in TakesOne => queue # <<>>

\* Steps that read no line.
LEMMA CommandsOfOthers ==
  ASSUME CommandsInv, files' \in RuleFiles, queue' \in Seq(Acts),
         sets' \subseteq Sets \union Others,
         reading' \in Sets \union Others \union {0}, pos' \in Nat \ {0},
         job'.kind \in TakesOne => queue' # <<>>
  PROVE  CommandsInv'
BY DEF CommandsInv, RuleFiles

\* A line adds the command it holds at most.
LEMMA CommandsOfLines ==
  ASSUME SourcesFit, CommandsInv, ParseLine PROVE CommandsInv'
<1>1. /\ UNCHANGED <<files, job, sets, reading>>
      /\ reading # 0 /\ pos <= Len(files[reading]) /\ pos' = pos + 1
  BY DEF ParseLine, BlockStarts, EndOn, Skipped, If, Else, EndIf, Command, Reads, store
<1>2. queue' = queue \/ queue' = Append(queue, Action.act)
  BY DEF ParseLine, BlockStarts, EndOn, Skipped, If, Else, EndIf, Command, NoCommand
<1>3. Action.act \in Acts
  <2>1. reading \in Sets \union Others
    BY <1>1 DEF CommandsInv
  <2>2. files[reading] \in Sources \union {Missing, OtherSource}
    BY <2>1 DEF CommandsInv, RuleFiles
  <2>3. Len(files[reading]) \in Nat
    BY <2>2 DEF SourcesFit, Missing
  <2>4. pos \in 1..Len(files[reading])
    BY <1>1, <2>3 DEF CommandsInv
  <2>5. files[reading] \in Sources \union {OtherSource}
    BY <2>2, <2>4 DEF Missing
  <2>6. CASE Action = Nothing
    BY <2>6 DEF Nothing, Body, Acts
  <2>7. CASE Action = Line.body
    BY <2>4, <2>5, <2>7 DEF Line, Acts
  <2> QED BY <2>6, <2>7 DEF Action
<1>4. queue' \in Seq(Acts) /\ (queue # <<>> => queue' # <<>>)
  <2>1. queue \in Seq(Acts)
    BY DEF CommandsInv
  <2> QED BY <2>1, <1>2, <1>3, AppendProperties
<1>5. pos' \in Nat \ {0}
  BY <1>1 DEF CommandsInv
<1> QED BY <1>1, <1>4, <1>5, CommandsOfOthers DEF CommandsInv

\* A file that is read is one of those there can be.
LEMMA CommandsOfFiles ==
  ASSUME CommandsInv, OpenFile \/ EndFile PROVE CommandsInv'
<1>1. UNCHANGED <<files, queue, job>>
  BY DEF OpenFile, EndFile, store
<1>2. CASE OpenFile
  <2>1. FirstOf(sets) \in sets
    <3>1. sets \in SUBSET Nat /\ sets # {}
      BY <1>2, RulesAssumption DEF OpenFile, CommandsInv
    <3> QED BY <3>1, FirstOfMember
  <2>2. /\ sets' \subseteq sets
        /\ \/ reading' = reading /\ pos' = pos
           \/ reading' = FirstOf(sets) /\ pos' = 1
    BY <1>2 DEF OpenFile, frame
  <2>3. reading' \in Sets \union Others \union {0} /\ pos' \in Nat \ {0}
    BY <2>1, <2>2 DEF CommandsInv
  <2> QED BY <1>1, <2>2, <2>3, CommandsOfOthers DEF CommandsInv
<1>3. CASE EndFile
  <2>1. sets' = sets /\ reading' = 0 /\ pos' = pos
    BY <1>3 DEF EndFile
  <2> QED BY <1>1, <2>1, CommandsOfOthers DEF CommandsInv
<1> QED BY <1>2, <1>3

\* A command that has been run, or whose handler returns, leaves the queue.
LEMMA CommandsAreTaken ==
  ASSUME CommandsInv, UNCHANGED <<files, sets, reading, pos>>, queue # <<>>, PopCommand,
         job'.kind \notin TakesOne
  PROVE  CommandsInv'
<1>1. queue' \in Seq(Acts)
  BY HeadTailProperties DEF CommandsInv, PopCommand
<1> QED BY <1>1, CommandsOfOthers DEF CommandsInv

\* A handler that raises an event, with its command still in the queue.
LEMMA CommandsStay ==
  ASSUME CommandsInv, UNCHANGED <<files, queue, reading, pos>>,
         sets' \subseteq Sets \union Others,
         job'.kind \in TakesOne => queue # <<>>
  PROVE  CommandsInv'
BY CommandsOfOthers DEF CommandsInv

\* The queue holds commands of the rule files only.
LEMMA CommandsInvariant == ASSUME SourcesFit PROVE Spec => []CommandsInv
<1>1. Init => CommandsInv
  <2> SUFFICES ASSUME Init PROVE CommandsInv
    OBVIOUS
  <2>2. files \in RuleFiles
    BY DEF Init, RuleFiles
  <2>3. ActiveSets \subseteq Sets /\ Handler("input").kind \notin TakesOne
    BY DEF ActiveSets, Handler, Job, TakesOne
  <2> QED BY <2>2, <2>3 DEF Init, CommandsInv
<1>2. CommandsInv /\ [Next]_vars => CommandsInv'
  <2> SUFFICES ASSUME CommandsInv, [Next]_vars PROVE CommandsInv'
    OBVIOUS
  <2> USE DEF Idle, Handler, Job, TakesOne
  <2>1. CASE ParseLine
    BY <2>1, CommandsOfLines
  <2>2. CASE OpenFile \/ EndFile
    BY <2>2, CommandsOfFiles
  <2>3. CASE EndCommand \/ EndPause \/ EndResume
    <3>1. UNCHANGED <<files, sets, reading, pos>> /\ PopCommand /\ job'.kind = "idle"
      BY <2>3 DEF EndCommand, EndPause, EndResume, Return, store, frame
    <3>2. job.kind \in TakesOne
      BY <2>3 DEF EndCommand, EndPause, EndResume
    <3> QED BY <3>1, <3>2, CommandsAreTaken DEF CommandsInv
  <2>4. CASE EndInput \/ EndTimers \/ CheckTimers
    <3>1. UNCHANGED <<files, queue, sets, reading, pos>> /\ job'.kind \in {"idle", "timers"}
      BY <2>4 DEF EndInput, EndTimers, CheckTimers, Return, store, run, frame
    <3> QED BY <3>1, CommandsStay DEF CommandsInv
  <2>5. CASE RingTimer \/ Input \/ RunBuffer \/ RaiseEvent
    <3>1. UNCHANGED <<files, queue, reading, pos>> /\ sets' = ActiveSets
      BY <2>5 DEF RingTimer, Input, RunBuffer, RaiseEvent, Raise, store, frame
    <3>2. job'.kind \in {"ring", "input", "buffer"} \/ queue # <<>>
      BY <2>5 DEF RingTimer, Input, RunBuffer, RaiseEvent, Raise, Takes
    <3>3. sets' \subseteq Sets \union Others
      BY <3>1 DEF ActiveSets
    <3> QED BY <3>1, <3>2, <3>3, CommandsStay
  <2>6. CASE ExecuteRules
    <3>1. UNCHANGED <<files, queue, reading, pos>> /\ sets' = {Head(queue).arg}
          /\ queue # <<>> /\ Head(queue).op = "executerules"
      BY <2>6 DEF ExecuteRules, Raise, Takes, store, frame
    <3>2. Head(queue) \in Acts
      BY <3>1, HeadTailProperties DEF CommandsInv
    <3>3. sets' \subseteq Sets \union Others
      BY <3>1, <3>2 DEF SourcesFit
    <3> QED BY <3>1, <3>3, CommandsStay
  <2>7. CASE TimerSet \/ UnknownCommand
    <3>1. UNCHANGED <<files, sets, reading, pos>> /\ PopCommand /\ queue # <<>> /\ job' = Idle
      BY <2>7 DEF TimerSet, UnknownCommand, Takes, store, run, frame
    <3> QED BY <3>1, CommandsAreTaken
  <2>8. CASE TimerPause \/ TimerResume
    <3>1. UNCHANGED <<files, reading, pos>> /\ queue # <<>>
      BY <2>8 DEF TimerPause, TimerResume, Takes, Raise, store, run, frame
    <3>2. \/ sets' = ActiveSets /\ queue' = queue
          \/ sets' = sets /\ PopCommand /\ job' = Idle
      BY <2>8 DEF TimerPause, TimerResume, Takes, Raise, run
    <3>3. ActiveSets \subseteq Sets \union Others
      BY DEF ActiveSets
    <3> QED BY <3>1, <3>2, <3>3, CommandsAreTaken, CommandsStay
  <2>9. CASE DeleteRules \/ SaveRules \/ UploadRules
    <3>1. UNCHANGED <<queue, job, sets, reading, pos>>
      BY <2>9 DEF DeleteRules, SaveRules, UploadRules, run, frame
    <3>2. files' \in RuleFiles
      BY <2>9 DEF DeleteRules, SaveRules, UploadRules, CommandsInv, RuleFiles
    <3> QED BY <3>1, <3>2, CommandsOfOthers DEF CommandsInv
  <2>10. CASE WebEvent \/ ValueChanges \/ Tick \/ UNCHANGED vars
    <3>1. UNCHANGED <<files, queue, job, sets, reading, pos>>
      BY <2>10 DEF WebEvent, ValueChanges, Tick, vars, store, run, frame
    <3> QED BY <3>1, CommandsStay DEF CommandsInv
  <2> QED
    BY <2>1, <2>2, <2>3, <2>4, <2>5, <2>6, <2>7, <2>8, <2>9, <2>10
       DEF Next, Continue, RunCommand, Environment
<1> QED BY <1>1, <1>2, PTL DEF Spec
-----------------------------------------------------------------------------
(* Rule timers.  The history ran counts what the words of millis() say about *)
(* a timer, wherever they wrap; a timer is late by the time rulesTimers has  *)
(* not been called, and while it runs, by the time before that as well.      *)

\* The commands of rule timers name timers and times below half the range of
\* millis(), and rulesTimers is called more often than that range would need.
TimersFit ==
  /\ MaxLag \in Nat /\ 2 * MaxLag <= HalfMax
  /\ \A a \in Acts :
       /\ a.op \in {"timerset", "timerpause", "timerresume"} => a.arg \in Timers
       /\ a.op = "timerset" => a.value \in 0 .. HalfMax

TimerRecord == [timestamp : Word, interval : 0 .. HalfMax, paused : BOOLEAN]
TimerTypes ==
  /\ now \in Word /\ lag \in 0 .. MaxLag
  /\ timer \in [Timers -> TimerRecord]
  /\ wanted \in [Timers -> 0 .. HalfMax] /\ ran \in [Timers -> Nat]

\* rulesTimers is running and has not looked at the timer yet.
Unswept(t) == job.kind \in {"timers", "ring"} /\ job.t <= t
Grace(t) == IF Unswept(t) THEN MaxLag ELSE 0

\* Time goes on while the event of a pause is processed, for other timers.
IsPausing(t) == job.kind = "pause" /\ job.t = t

Counted(t) ==
  /\ IsPausing(t) => job.left = wanted[t] - ran[t]
  /\ ~IsPausing(t) => /\ TimeDiff(timer[t].timestamp, now) = ran[t] - wanted[t]
                      /\ ran[t] - wanted[t] <= lag + Grace(t)
Kept(t) == timer[t].interval = wanted[t] - ran[t] /\ timer[t].interval \in 1 .. HalfMax

HandlerInv ==
  /\ job.kind = "pause" => job.t \in Timers /\ Running(job.t) /\ job.left \in 1 .. HalfMax
  /\ job.kind = "resume" => job.t \in Timers /\ timer[job.t].paused
  /\ job.kind \in {"timers", "ring"} => job.t \in Nat

TimersInv ==
  /\ TimerTypes /\ HandlerInv
  /\ \A t \in Timers : Running(t) => Counted(t)
  /\ \A t \in Timers : timer[t].paused => Kept(t)

\* The types of what is said of one timer.
LEMMA TimerFacts ==
  ASSUME TimersInv, NEW t \in Timers
  PROVE  /\ timer[t] \in TimerRecord
         /\ timer[t].timestamp \in Word /\ timer[t].interval \in 0 .. HalfMax
         /\ timer[t].paused \in BOOLEAN
         /\ wanted[t] \in 0 .. HalfMax /\ ran[t] \in Nat /\ t \in Nat
BY RulesAssumption DEF TimersInv, TimerTypes, TimerRecord

\* The numbers HalfMax and MaxLag, and times that are words.
LEMMA TimerNumbers ==
  ASSUME TimersFit
  PROVE  /\ HalfMax \in Nat /\ MaxLag \in Nat /\ 2 * MaxLag <= HalfMax
         /\ 0 \in Word /\ (0 .. HalfMax) \subseteq Word
BY HalfIsNatural DEF TimersFit, HalfMax, Word

\* Handlers that have nothing to do with timers.
LEMMA TimersStay ==
  ASSUME TimersInv, UNCHANGED <<clock, alarms, job>> PROVE TimersInv'
BY DEF TimersInv, TimerTypes, HandlerInv, Running, Counted, Kept, IsPausing, Grace, Unswept,
       clock, alarms

\* The start and the end of such a handler.
LEMMA TimersOfJobs ==
  ASSUME TimersInv, UNCHANGED <<clock, alarms>>,
         job.kind \notin {"timers", "ring", "pause"},
         job'.kind \in {"idle", "input", "buffer", "command", "execute"}
  PROVE  TimersInv'
<1>1. TimerTypes' /\ HandlerInv'
  BY DEF TimersInv, TimerTypes, HandlerInv, clock, alarms
<1>2. ASSUME NEW t \in Timers, Running(t)' PROVE Counted(t)'
  <2>1. Counted(t) /\ ~IsPausing(t) /\ ~Unswept(t) /\ ~IsPausing(t)' /\ ~Unswept(t)'
    BY <1>2 DEF TimersInv, Running, IsPausing, Unswept, alarms
  <2> QED BY <2>1 DEF Counted, Grace, clock, alarms
<1>3. ASSUME NEW t \in Timers, timer'[t].paused PROVE Kept(t)'
  BY <1>3 DEF TimersInv, Kept, alarms
<1> QED BY <1>1, <1>2, <1>3 DEF TimersInv

\* rulesTimers begins: every timer is late by the time since its last call.
LEMMA TimersOfSweep ==
  ASSUME TimersFit, TimersInv, CheckTimers PROVE TimersInv'
<1>1. /\ job = Idle /\ job' = Handler("timers") /\ lag' = 0
      /\ UNCHANGED <<now, timer, ran, wanted>>
  BY DEF CheckTimers, alarms
<1>2. job.kind = "idle" /\ job'.kind = "timers" /\ job'.t = 0
  BY <1>1 DEF Idle, Handler, Job
<1>3. TimerTypes' /\ HandlerInv'
  BY <1>1, <1>2, TimerNumbers DEF TimersInv, TimerTypes, HandlerInv
<1>4. ASSUME NEW t \in Timers, Running(t)' PROVE Counted(t)'
  <2>1. Counted(t) /\ ~IsPausing(t) /\ ~Unswept(t) /\ ~IsPausing(t)' /\ Unswept(t)'
    BY <1>1, <1>2, <1>4, TimerFacts DEF TimersInv, Running, IsPausing, Unswept
  <2>2. ran[t] - wanted[t] <= lag /\ lag <= MaxLag /\ lag' + Grace(t)' = MaxLag
    BY <2>1, <1>1, TimerNumbers DEF Counted, Grace, TimersInv, TimerTypes
  <2>3. ran[t] - wanted[t] <= lag' + Grace(t)'
    BY <2>2, TimerFacts, TimerNumbers DEF TimersInv, TimerTypes
  <2> QED BY <2>1, <2>3, <1>1 DEF Counted
<1>5. ASSUME NEW t \in Timers, timer'[t].paused PROVE Kept(t)'
  BY <1>1, <1>5 DEF TimersInv, Kept
<1> QED BY <1>3, <1>4, <1>5 DEF TimersInv

\* A running timer that has not expired has not run its time.
LEMMA UnexpiredIsEarly ==
  ASSUME TimersFit, TimersInv, NEW t \in Timers, Running(t), ~IsPausing(t), ~Expired(t)
  PROVE  ran[t] - wanted[t] <= lag
<1>1. TimeDiff(timer[t].timestamp, now) = ran[t] - wanted[t]
  BY DEF TimersInv, Counted
<1>2. ~(TimeDiff(timer[t].timestamp, now) >= 0)
  BY DEF Expired, TimeOutReached
<1>3. ran[t] - wanted[t] \in Int /\ lag \in Nat
  BY TimerFacts, TimerNumbers DEF TimersInv, TimerTypes
<1> QED BY <1>1, <1>2, <1>3

\* The sweep goes on with the timers after the one that rings.
LEMMA TimersOfRing ==
  ASSUME TimersFit, TimersInv, RingTimer PROVE TimersInv'
<1> DEFINE f == FirstOf(LeftToCheck)
<1>1. f \in LeftToCheck /\ \A t \in LeftToCheck : f <= t
  <2>1. LeftToCheck \in SUBSET Nat /\ LeftToCheck # {}
    BY RulesAssumption DEF RingTimer, LeftToCheck
  <2> QED BY <2>1, FirstOfMember
<1>2. f \in Timers /\ f \in Nat /\ f >= job.t /\ job.kind = "timers" /\ job.t \in Nat
  BY <1>1, RulesAssumption DEF RingTimer, LeftToCheck, TimersInv, HandlerInv
<1>3. /\ timer' = [timer EXCEPT ![f].timestamp = 0]
      /\ job' = Job("ring", f + 1, 0)
      /\ UNCHANGED <<now, lag, ran, wanted>>
  BY DEF RingTimer, Raise, clock
<1> HIDE DEF f
<1>4. job'.kind = "ring" /\ job'.t = f + 1
  BY <1>3 DEF Job
<1>5. TimerTypes'
  <2>1. \A r \in TimerRecord : [r EXCEPT !.timestamp = 0] \in TimerRecord
    BY TimerNumbers DEF TimerRecord
  <2>2. timer \in [Timers -> TimerRecord]
    BY DEF TimersInv, TimerTypes
  <2>3. timer' \in [Timers -> TimerRecord]
    BY <1>2, <1>3, <2>1, <2>2, Zenon
  <2> QED BY <2>3, <1>3 DEF TimersInv, TimerTypes
<1>6. HandlerInv'
  BY <1>2, <1>4 DEF HandlerInv
<1>7. \A t \in Timers : t # f => timer'[t] = timer[t]
  BY <1>2, <1>3 DEF TimersInv, TimerTypes
<1>8. timer'[f].timestamp = 0 /\ timer'[f].interval = timer[f].interval
      /\ timer'[f].paused = timer[f].paused
  <2>1. timer'[f] = [timer[f] EXCEPT !.timestamp = 0]
    BY <1>2, <1>3 DEF TimersInv, TimerTypes
  <2> QED BY <2>1, <1>2, TimerFacts DEF TimerRecord
<1>9. ASSUME NEW t \in Timers, Running(t)' PROVE Counted(t)'
  <2>1. t # f /\ timer'[t] = timer[t] /\ Running(t) /\ t \in Nat
    BY <1>9, <1>7, <1>8, TimerFacts DEF Running
  <2>2. ~IsPausing(t) /\ ~IsPausing(t)' /\ Counted(t)
    BY <2>1, <1>2, <1>4 DEF IsPausing, TimersInv
  <2>3. ran[t] - wanted[t] <= lag' + Grace(t)'
    <3>1. CASE Unswept(t)'
      <4>1. Unswept(t)
        BY <3>1, <1>2, <1>4, <2>1 DEF Unswept
      <4> QED BY <4>1, <3>1, <2>2, <1>3 DEF Counted, Grace
    <3>2. CASE ~Unswept(t)'
      <4>1. t < f
        BY <3>2, <1>2, <1>4, <2>1 DEF Unswept
      <4>2. ~Unswept(t) \/ ~Expired(t)
        BY <4>1, <1>1, <1>2, <2>1 DEF Unswept, LeftToCheck
      <4>3. ran[t] - wanted[t] <= lag
        <5>1. lag + 0 = lag
          BY TimerNumbers DEF TimersInv, TimerTypes
        <5>2. CASE ~Unswept(t)
          BY <5>1, <5>2, <2>2 DEF Counted, Grace
        <5> QED BY <4>2, <5>2, <2>1, <2>2, UnexpiredIsEarly
      <4>4. lag' + Grace(t)' = lag
        BY <3>2, <1>3, TimerNumbers DEF Grace, TimersInv, TimerTypes
      <4> QED BY <4>3, <4>4
    <3> QED BY <3>1, <3>2
  <2> QED BY <2>1, <2>2, <2>3, <1>3 DEF Counted
<1>10. ASSUME NEW t \in Timers, timer'[t].paused PROVE Kept(t)'
  <2>1. timer[t].paused /\ timer'[t].interval = timer[t].interval
    BY <1>7, <1>8, <1>10
  <2> QED BY <2>1, <1>3 DEF TimersInv, Kept
<1> QED BY <1>5, <1>6, <1>9, <1>10 DEF TimersInv

\* rulesTimers goes on after an event, or has looked at every timer.
LEMMA TimersOfSweepEnd ==
  ASSUME TimersFit, TimersInv, EndTimers PROVE TimersInv'
<1>1. UNCHANGED <<now, lag, timer, ran, wanted>>
  BY DEF EndTimers, clock, alarms
<1>2. CASE job.kind = "ring" /\ job' = Job("timers", job.t, 0)
  <2>1. job'.kind = "timers" /\ job'.t = job.t
    BY <1>2 DEF Job
  <2>2. TimerTypes' /\ HandlerInv'
    BY <1>1, <1>2, <2>1 DEF TimersInv, TimerTypes, HandlerInv
  <2>3. ASSUME NEW t \in Timers, Running(t)' PROVE Counted(t)'
    <3>1. Counted(t) /\ ~IsPausing(t) /\ ~IsPausing(t)' /\ Grace(t)' = Grace(t)
      BY <1>1, <1>2, <2>1, <2>3 DEF TimersInv, Running, IsPausing, Grace, Unswept
    <3> QED BY <3>1, <1>1 DEF Counted
  <2>4. ASSUME NEW t \in Timers, timer'[t].paused PROVE Kept(t)'
    BY <1>1, <2>4 DEF TimersInv, Kept
  <2> QED BY <2>2, <2>3, <2>4 DEF TimersInv
<1>3. CASE job.kind = "timers" /\ LeftToCheck = {} /\ job' = Idle
  <2>1. job'.kind = "idle"
    BY <1>3 DEF Idle, Handler, Job
  <2>2. TimerTypes' /\ HandlerInv'
    BY <1>1, <2>1 DEF TimersInv, TimerTypes, HandlerInv
  <2>3. ASSUME NEW t \in Timers, Running(t)' PROVE Counted(t)'
    <3>1. /\ Running(t) /\ Counted(t)
          /\ ~IsPausing(t) /\ ~IsPausing(t)' /\ ~Unswept(t)'
      BY <1>1, <1>3, <2>1, <2>3 DEF TimersInv, Running, IsPausing, Unswept
    <3>2. ~Unswept(t) \/ ~Expired(t)
      BY <1>3, TimerFacts DEF Unswept, LeftToCheck, TimersInv, HandlerInv
    <3>3. ran[t] - wanted[t] <= lag
      <4>1. lag + 0 = lag
        BY TimerNumbers DEF TimersInv, TimerTypes
      <4>2. CASE ~Unswept(t)
        BY <4>1, <4>2, <3>1 DEF Counted, Grace
      <4> QED BY <4>2, <3>1, <3>2, UnexpiredIsEarly
    <3>4. lag' + Grace(t)' = lag
      BY <3>1, <1>1, TimerNumbers DEF Grace, TimersInv, TimerTypes
    <3> QED BY <3>1, <3>3, <3>4, <1>1 DEF Counted
  <2>4. ASSUME NEW t \in Timers, timer'[t].paused PROVE Kept(t)'
    BY <1>1, <2>4 DEF TimersInv, Kept
  <2> QED BY <2>2, <2>3, <2>4 DEF TimersInv
<1> QED BY <1>2, <1>3 DEF EndTimers, Return

\* The commands of the rules name a timer, and a time below half the range.
LEMMA AlarmIsTimer ==
  ASSUME TimersFit, CommandsInv, queue # <<>>,
         Head(queue).op \in {"timerset", "timerpause", "timerresume"}
  PROVE  Alarm \in Timers /\ (Head(queue).op = "timerset" => Head(queue).value \in 0 .. HalfMax)
<1>1. Head(queue) \in Acts
  BY HeadTailProperties DEF CommandsInv
<1> QED BY <1>1 DEF TimersFit, Alarm

\* Only one timer is changed, and no handler of the timers runs afterwards.
LEMMA TimersOfOne ==
  ASSUME TimersFit, TimersInv, NEW f \in Timers, NEW r \in TimerRecord,
         timer' = [timer EXCEPT ![f] = r],
         UNCHANGED <<now, lag>>, job.kind \notin {"timers", "ring"},
         job.kind = "pause" => job.t = f, job' = Idle,
         wanted' \in [Timers -> 0 .. HalfMax], ran' \in [Timers -> Nat],
         \A t \in Timers : t # f => ran'[t] = ran[t] /\ wanted'[t] = wanted[t],
         ~r.paused /\ r.timestamp # 0 =>
           /\ TimeDiff(r.timestamp, now) = ran'[f] - wanted'[f]
           /\ ran'[f] - wanted'[f] <= 0,
         r.paused => r.interval = wanted'[f] - ran'[f] /\ r.interval \in 1 .. HalfMax
  PROVE  TimersInv'
<1>1. timer \in [Timers -> TimerRecord]
  BY DEF TimersInv, TimerTypes
<1>2. timer'[f] = r /\ \A t \in Timers : t # f => timer'[t] = timer[t]
  BY <1>1
<1>3. job'.kind = "idle"
  BY DEF Idle, Handler, Job
<1>4. TimerTypes' /\ HandlerInv'
  BY <1>1, <1>3 DEF TimersInv, TimerTypes, HandlerInv
<1>5. lag' + 0 = lag /\ \A i \in Int : i <= 0 => i <= lag
  BY TimerNumbers DEF TimersInv, TimerTypes
<1>6. ASSUME NEW t \in Timers, Running(t)' PROVE Counted(t)'
  <2>1. ~IsPausing(t)' /\ ~Unswept(t)'
    BY <1>3 DEF IsPausing, Unswept
  <2>2. CASE t = f
    <3>1. /\ TimeDiff(timer'[t].timestamp, now') = ran'[t] - wanted'[t]
          /\ ran'[t] - wanted'[t] <= 0
      BY <1>2, <1>6, <2>2 DEF Running
    <3>2. ran'[t] - wanted'[t] <= lag' + Grace(t)'
      <4>1. ran'[t] - wanted'[t] \in Int
        <5>1. ran'[t] \in Nat /\ wanted'[t] \in 0 .. HalfMax
          BY Zenon
        <5> QED BY <5>1, TimerNumbers
      <4> QED BY <4>1, <3>1, <1>5, <2>1 DEF Grace
    <3> QED BY <3>1, <3>2, <2>1 DEF Counted
  <2>3. CASE t # f
    <3>1. Running(t) /\ Counted(t)
      BY <1>2, <1>6, <2>3 DEF Running, TimersInv
    <3>2. ~IsPausing(t) /\ ~Unswept(t)
      BY <2>3 DEF IsPausing, Unswept
    <3> QED BY <1>2, <2>1, <2>3, <3>1, <3>2 DEF Counted, Grace
  <2> QED BY <2>2, <2>3
<1>7. ASSUME NEW t \in Timers, timer'[t].paused PROVE Kept(t)'
  <2>1. CASE t = f
    BY <1>2, <1>7, <2>1 DEF Kept
  <2>2. CASE t # f
    BY <1>2, <1>7, <2>2 DEF Kept, TimersInv
  <2> QED BY <2>1, <2>2
<1> QED BY <1>4, <1>6, <1>7 DEF TimersInv

\* A timer that is set has its whole time to run.
LEMMA TimersOfSet ==
  ASSUME TimersFit, CommandsInv, TimersInv, TimerSet PROVE TimersInv'
<1> DEFINE f == Alarm
           n == Head(queue).value
           r == IF n = 0 THEN Off ELSE [timestamp |-> Plus(now, n), interval |-> n, paused |-> FALSE]
<1>1. f \in Timers /\ n \in 0 .. HalfMax
  BY AlarmIsTimer DEF TimerSet, Takes
<1>2. /\ timer' = [timer EXCEPT ![f] = r] /\ job = Idle /\ job' = Idle
      /\ wanted' = [wanted EXCEPT ![f] = n] /\ ran' = [ran EXCEPT ![f] = 0]
      /\ UNCHANGED <<now, lag>>
  BY DEF TimerSet, Takes, clock
<1> HIDE DEF f, n
<1>3. job.kind = "idle"
  BY <1>2 DEF Idle, Handler, Job
<1>4. now \in Word /\ n \in Word /\ n \in Int
  BY <1>1, TimerNumbers DEF TimersInv, TimerTypes
<1>5. r \in TimerRecord
  <2>1. CASE n = 0
    BY <2>1, TimerNumbers DEF TimerRecord, Off
  <2>2. CASE n # 0
    <3>1. Plus(now, n) \in Word
      BY <1>4, PlusIsWord
    <3> QED BY <3>1, <2>2, <1>1 DEF TimerRecord
  <2> QED BY <2>1, <2>2
<1>6. wanted' \in [Timers -> 0 .. HalfMax] /\ ran' \in [Timers -> Nat]
  BY <1>1, <1>2 DEF TimersInv, TimerTypes
<1>7. ran'[f] = 0 /\ wanted'[f] = n
  BY <1>1, <1>2 DEF TimersInv, TimerTypes
<1>8. \A t \in Timers : t # f => ran'[t] = ran[t] /\ wanted'[t] = wanted[t]
  BY <1>1, <1>2 DEF TimersInv, TimerTypes
<1>9. ~r.paused /\ r.timestamp # 0 =>
        /\ TimeDiff(r.timestamp, now) = ran'[f] - wanted'[f]
        /\ ran'[f] - wanted'[f] <= 0
  <2>1. CASE n = 0
    BY <2>1 DEF Off
  <2>2. CASE n # 0
    <3>1. TimeDiff(Plus(now, n), now) = -n /\ 0 - n = -n /\ -n <= 0
      BY <1>1, <1>4, NewTimerIsNotDue, TimerNumbers
    <3>2. r.timestamp = Plus(now, n)
      BY <2>2
    <3> QED BY <3>1, <3>2, <1>7
  <2> QED BY <2>1, <2>2
<1>10. ~r.paused
  BY DEF Off
<1> HIDE DEF r
<1> QED BY <1>1, <1>2, <1>3, <1>5, <1>6, <1>8, <1>9, <1>10, TimersOfOne

\* The time left is taken before the event of the pause is processed.
LEMMA TimersOfPause ==
  ASSUME TimersFit, CommandsInv, TimersInv, TimerPause PROVE TimersInv'
<1> DEFINE f == Alarm
<1>1. f \in Timers /\ job.kind = "idle" /\ UNCHANGED <<clock, alarms>>
  BY AlarmIsTimer DEF TimerPause, Takes, Idle, Handler, Job
<1>2. CASE job' = job
  BY <1>1, <1>2, TimersStay
<1>3. CASE Running(f) /\ Left(f) > 0 /\ job' = Job("pause", f, Left(f))
  <2> HIDE DEF f
  <2>1. job'.kind = "pause" /\ job'.t = f /\ job'.left = Left(f)
    BY <1>3 DEF Job
  <2>2. Left(f) = wanted[f] - ran[f]
    <3>1. TimeDiff(timer[f].timestamp, now) = ran[f] - wanted[f]
      BY <1>1, <1>3 DEF TimersInv, Counted, IsPausing
    <3>2. -(ran[f] - wanted[f]) = wanted[f] - ran[f]
      BY <1>1, TimerFacts, TimerNumbers
    <3> QED BY <3>1, <3>2 DEF Left
  <2>3. Left(f) \in 1 .. HalfMax
    BY <2>2, <1>1, <1>3, TimerFacts, TimerNumbers
  <2>4. TimerTypes' /\ HandlerInv'
    BY <1>1, <1>3, <2>1, <2>3 DEF TimersInv, TimerTypes, HandlerInv, clock, alarms, Running
  <2>5. ASSUME NEW t \in Timers, Running(t)' PROVE Counted(t)'
    <3>1. /\ Counted(t) /\ ~IsPausing(t) /\ ~Unswept(t) /\ ~Unswept(t)'
          /\ IsPausing(t)' <=> t = f
      BY <1>1, <2>1, <2>5 DEF TimersInv, Running, IsPausing, Unswept, alarms
    <3>2. CASE t = f
      BY <1>1, <2>1, <2>2, <3>1, <3>2 DEF Counted, alarms
    <3>3. CASE t # f
      BY <1>1, <3>1, <3>3 DEF Counted, Grace, clock, alarms
    <3> QED BY <3>2, <3>3
  <2>6. ASSUME NEW t \in Timers, timer'[t].paused PROVE Kept(t)'
    BY <1>1, <2>6 DEF TimersInv, Kept, alarms
  <2> QED BY <2>4, <2>5, <2>6 DEF TimersInv
<1> QED BY <1>2, <1>3 DEF TimerPause, Raise

\* A timer is paused with the time it has left.
LEMMA TimersOfPauseEnd ==
  ASSUME TimersFit, TimersInv, EndPause PROVE TimersInv'
<1> DEFINE f == job.t
           r == [[timer[f] EXCEPT !.paused = TRUE] EXCEPT !.interval = job.left]
<1>1. /\ job.kind = "pause" /\ job' = Idle /\ UNCHANGED <<now, lag, ran, wanted>>
      /\ timer' = [timer EXCEPT ![job.t].paused = TRUE, ![job.t].interval = job.left]
  BY DEF EndPause, Return, clock
<1>2. f \in Timers /\ Running(f) /\ job.left \in 1 .. HalfMax
  BY <1>1 DEF TimersInv, HandlerInv
<1>3. timer \in [Timers -> TimerRecord] /\ timer[f] \in TimerRecord
  BY <1>2 DEF TimersInv, TimerTypes
<1>4. timer' = [timer EXCEPT ![f] = r]
  BY <1>1, <1>2, <1>3
<1>5. r \in TimerRecord /\ r.paused /\ r.interval = job.left
  <2>1. \A q \in TimerRecord, i \in 0 .. HalfMax :
          LET p == [q EXCEPT !.paused = TRUE]
          IN  [p EXCEPT !.interval = i] \in TimerRecord
    BY DEF TimerRecord
  <2>2. job.left \in 0 .. HalfMax
    BY <1>2, TimerNumbers
  <2> QED BY <1>3, <2>1, <2>2 DEF TimerRecord
<1>6. job.left = wanted[f] - ran[f]
  BY <1>1, <1>2 DEF TimersInv, Counted, IsPausing
<1>7. wanted' \in [Timers -> 0 .. HalfMax] /\ ran' \in [Timers -> Nat]
  BY <1>1 DEF TimersInv, TimerTypes
<1>8. r.interval = wanted'[f] - ran'[f] /\ r.interval \in 1 .. HalfMax
  BY <1>1, <1>2, <1>5, <1>6
<1> HIDE DEF f, r
<1>9. job.kind = "pause" => job.t = f
  BY DEF f
<1> QED BY <1>1, <1>2, <1>4, <1>5, <1>7, <1>8, <1>9, TimersOfOne

\* A timer that is resumed has the time to run that it had left.
LEMMA TimersOfResumeEnd ==
  ASSUME TimersFit, TimersInv, EndResume PROVE TimersInv'
<1> DEFINE f == job.t
           n == timer[f].interval
           r == [[timer[f] EXCEPT !.timestamp = Plus(now, n)] EXCEPT !.paused = FALSE]
<1>1. /\ job.kind = "resume" /\ job' = Idle /\ UNCHANGED <<now, lag, ran, wanted>>
      /\ timer' = [timer EXCEPT ![job.t].timestamp = Plus(now, timer[job.t].interval),
                                ![job.t].paused = FALSE]
  BY DEF EndResume, Return, clock
<1>2. f \in Timers /\ timer[f].paused
  BY <1>1 DEF TimersInv, HandlerInv
<1>3. timer \in [Timers -> TimerRecord] /\ timer[f] \in TimerRecord
  BY <1>2 DEF TimersInv, TimerTypes
<1>4. timer' = [timer EXCEPT ![f] = r]
  BY <1>1, <1>2, <1>3
<1>5. n = wanted[f] - ran[f] /\ n \in 1 .. HalfMax
  BY <1>2 DEF TimersInv, Kept
<1>6. now \in Word /\ n \in Word /\ n \in 0 .. HalfMax
  BY <1>5, TimerNumbers DEF TimersInv, TimerTypes
<1>7. Plus(now, n) \in Word /\ TimeDiff(Plus(now, n), now) = -n
  <2> HIDE DEF n
  <2> QED BY <1>6, PlusIsWord, NewTimerIsNotDue
<1>8. r \in TimerRecord /\ ~r.paused /\ r.timestamp = Plus(now, n)
  BY <1>3, <1>7 DEF TimerRecord
<1>9. -n = ran[f] - wanted[f] /\ ran[f] - wanted[f] <= 0
  BY <1>2, <1>5, TimerFacts, TimerNumbers
<1>10. wanted' \in [Timers -> 0 .. HalfMax] /\ ran' \in [Timers -> Nat]
  BY <1>1 DEF TimersInv, TimerTypes
<1> HIDE DEF f, n, r
<1>11. /\ TimeDiff(r.timestamp, now) = ran'[f] - wanted'[f]
       /\ ran'[f] - wanted'[f] <= 0
  BY <1>1, <1>7, <1>8, <1>9
<1> QED BY <1>1, <1>2, <1>4, <1>8, <1>10, <1>11, TimersOfOne

\* A second passes, for every timer that runs and is not being paused.
LEMMA TimersOfTick ==
  ASSUME TimersFit, TimersInv, Tick PROVE TimersInv'
<1>1. /\ lag < MaxLag /\ lag' = lag + 1 /\ now' = Plus(now, 1)
      /\ ran' = [t \in Timers |->
           IF Running(t) /\ ~(job.kind = "pause" /\ job.t = t) /\ ran[t] <= wanted[t] + 2 * MaxLag
             THEN ran[t] + 1 ELSE ran[t]]
      /\ UNCHANGED <<timer, wanted, job>>
  BY DEF Tick
<1>2. now \in Word /\ lag \in Nat /\ MaxLag \in Nat /\ HalfMax \in Nat /\ 2 * MaxLag <= HalfMax
  BY TimerNumbers DEF TimersInv, TimerTypes
<1>3. 1 \in Word /\ now' \in Word
  <2>1. 1 \in Word
    BY HalfIsNatural DEF Word
  <2> QED BY <2>1, <1>1, <1>2, PlusIsWord
<1>4. TimerTypes'
  <2>1. lag' \in 0 .. MaxLag
    BY <1>1, <1>2
  <2>2. ran' \in [Timers -> Nat]
    <3>1. \A t \in Timers : ran[t] \in Nat /\ ran[t] + 1 \in Nat
      BY TimerFacts
    <3> QED BY <1>1, <3>1
  <2> QED BY <1>1, <1>3, <2>1, <2>2 DEF TimersInv, TimerTypes
<1>5. HandlerInv'
  BY <1>1 DEF TimersInv, HandlerInv, Running
<1>6. ASSUME NEW t \in Timers, Running(t)' PROVE Counted(t)'
  <2>1. /\ Running(t) /\ Counted(t)
        /\ IsPausing(t)' <=> IsPausing(t)
        /\ Grace(t)' = Grace(t) /\ Grace(t) \in 0 .. MaxLag
    BY <1>1, <1>2, <1>6 DEF TimersInv, Running, IsPausing, Grace, Unswept
  <2>2. CASE IsPausing(t)
    <3>1. ran'[t] = ran[t]
      BY <1>1, <2>2 DEF IsPausing
    <3> QED BY <3>1, <1>1, <2>1, <2>2 DEF Counted
  <2>3. CASE ~IsPausing(t)
    <3> DEFINE d == ran[t] - wanted[t]
    <3>1. TimeDiff(timer[t].timestamp, now) = d /\ d <= lag + Grace(t)
      BY <2>1, <2>3 DEF Counted
    <3>2. /\ ran[t] \in Nat /\ wanted[t] \in 0 .. HalfMax
          /\ timer[t].timestamp \in Word
      BY TimerFacts
    <3>3. d \in Int /\ d <= 2 * MaxLag - 1 /\ d >= -HalfMax /\ ran[t] <= wanted[t] + 2 * MaxLag
      BY <3>1, <3>2, <1>1, <1>2, <2>1
    <3>4. d \in -HalfMax .. HalfMax - 1
      BY <3>3, <1>2
    <3>5. TimeDiff(timer[t].timestamp, Plus(now, 1)) = d + 1
      BY <3>1, <3>2, <3>4, <1>2, DeadlinesAgeTogether
    <3>6. ran'[t] = ran[t] + 1
      BY <1>1, <2>1, <2>3, <3>3 DEF IsPausing
    <3>7. (ran[t] + 1) - wanted[t] = d + 1 /\ d + 1 <= lag + 1 + Grace(t)
      BY <3>1, <3>2, <1>2, <2>1
    <3>8. ran'[t] - wanted'[t] = d + 1
      <4>1. wanted'[t] = wanted[t]
        BY <1>1
      <4>2. ran'[t] - wanted'[t] = (ran[t] + 1) - wanted[t]
        BY <4>1, <3>6, Zenon
      <4> QED BY <4>2, <3>7, Zenon
    <3> HIDE DEF d
    <3>9. ran'[t] - wanted'[t] <= lag' + Grace(t)'
      BY <3>7, <3>8, <1>1, <2>1
    <3> QED BY <3>5, <3>8, <3>9, <1>1, <2>1, <2>3 DEF Counted
  <2> QED BY <2>2, <2>3
<1>7. ASSUME NEW t \in Timers, timer'[t].paused PROVE Kept(t)'
  <2>1. Kept(t) /\ ran'[t] = ran[t]
    BY <1>1, <1>7 DEF TimersInv, Running
  <2> QED BY <2>1, <1>1 DEF Kept
<1> QED BY <1>4, <1>5, <1>6, <1>7 DEF TimersInv

\* What is known of the rule timers in every state.
LEMMA TimersInvariant ==
  ASSUME SourcesFit, TimersFit PROVE Spec => [](CommandsInv /\ TimersInv)
<1>1. Init => TimersInv
  <2> SUFFICES ASSUME Init PROVE TimersInv
    OBVIOUS
  <2>1. /\ now = 0 /\ lag = 0 /\ job.kind = "input"
        /\ timer = [t \in Timers |-> Off]
        /\ wanted = [t \in Timers |-> 0] /\ ran = [t \in Timers |-> 0]
    BY DEF Init, Handler, Job
  <2>2. Off \in TimerRecord /\ 0 \in 0 .. HalfMax /\ 0 \in 0 .. MaxLag /\ 0 \in Nat
    BY TimerNumbers DEF Off, TimerRecord
  <2>3. TimerTypes /\ HandlerInv
    BY <2>1, <2>2, TimerNumbers DEF TimerTypes, HandlerInv
  <2>4. \A t \in Timers : ~Running(t) /\ ~timer[t].paused
    BY <2>1 DEF Off, Running
  <2> QED BY <2>3, <2>4 DEF TimersInv
<1>2. CommandsInv /\ TimersInv /\ [Next]_vars => TimersInv'
  <2> SUFFICES ASSUME CommandsInv, TimersInv, [Next]_vars PROVE TimersInv'
    OBVIOUS
  <2> USE DEF Idle, Handler, Job, TakesOne
  <2>1. CASE ParseLine \/ OpenFile \/ EndFile
    <3>1. UNCHANGED <<clock, alarms, job>>
      BY <2>1 DEF ParseLine, BlockStarts, EndOn, Skipped, If, Else, EndIf, Command, Reads,
                  OpenFile, EndFile
    <3> QED BY <3>1, TimersStay
  <2>2. CASE EndInput \/ EndCommand \/ ExecuteRules \/ RaiseEvent \/ Input \/ RunBuffer
    <3>1. UNCHANGED <<clock, alarms>>
      BY <2>2 DEF EndInput, EndCommand, ExecuteRules, RaiseEvent, Input, RunBuffer
    <3>2. job = Idle \/ job.kind \in {"input", "buffer", "command", "execute"}
      BY <2>2 DEF EndInput, EndCommand, ExecuteRules, RaiseEvent, Input, RunBuffer, Takes,
                  Outside
    <3>3. \/ job' = Idle \/ job' = Handler("input") \/ job' = Handler("buffer")
          \/ job' = Handler("command") \/ job' = Handler("execute")
      <4> USE DEF Raise, Return
      <4>1. EndInput \/ EndCommand => job' = Idle
        BY DEF EndInput, EndCommand
      <4>2. (RaiseEvent => job' = Handler("command")) /\ (ExecuteRules => job' = Handler("execute"))
        BY DEF ExecuteRules, RaiseEvent
      <4>3. (Input => job' = Handler("input")) /\ (RunBuffer => job' = Handler("buffer"))
        BY DEF Input, RunBuffer
      <4> HIDE DEF Idle, Handler
      <4> QED BY <2>2, <4>1, <4>2, <4>3
    <3>4. job.kind \notin {"timers", "ring", "pause"}
      BY <3>2
    <3>5. job'.kind \in {"idle", "input", "buffer", "command", "execute"}
      BY <3>3
    <3> QED BY <3>1, <3>4, <3>5, TimersOfJobs
  <2>3. CASE CheckTimers
    BY <2>3, TimersOfSweep
  <2>4. CASE RingTimer
    BY <2>4, TimersOfRing
  <2>5. CASE EndTimers
    BY <2>5, TimersOfSweepEnd
  <2>6. CASE TimerSet
    BY <2>6, TimersOfSet
  <2>7. CASE TimerPause
    BY <2>7, TimersOfPause
  <2>8. CASE EndPause
    BY <2>8, TimersOfPauseEnd
  <2>9. CASE TimerResume
    <3>1. UNCHANGED <<clock, alarms>> /\ job = Idle
      BY <2>9 DEF TimerResume, Takes
    <3>2. CASE job' = job
      BY <3>1, <3>2, TimersStay
    <3>3. CASE timer[Alarm].paused /\ job' = Job("resume", Alarm, 0)
      <4>1. Alarm \in Timers
        BY <2>9, AlarmIsTimer DEF TimerResume, Takes
      <4>2. job'.kind = "resume" /\ job'.t = Alarm
        BY <3>3
      <4>3. TimerTypes' /\ HandlerInv'
        BY <3>1, <3>3, <4>1, <4>2 DEF TimersInv, TimerTypes, HandlerInv, clock, alarms
      <4>4. ASSUME NEW t \in Timers, Running(t)' PROVE Counted(t)'
        <5>1. Counted(t) /\ ~IsPausing(t) /\ ~Unswept(t) /\ ~IsPausing(t)' /\ ~Unswept(t)'
          BY <3>1, <4>2, <4>4 DEF TimersInv, Running, IsPausing, Unswept, alarms
        <5> QED BY <3>1, <5>1 DEF Counted, Grace, clock, alarms
      <4>5. ASSUME NEW t \in Timers, timer'[t].paused PROVE Kept(t)'
        BY <3>1, <4>5 DEF TimersInv, Kept, alarms
      <4> QED BY <4>3, <4>4, <4>5 DEF TimersInv
    <3> QED BY <2>9, <3>2, <3>3 DEF TimerResume, Raise
  <2>10. CASE EndResume
    BY <2>10, TimersOfResumeEnd
  <2>11. CASE UnknownCommand \/ WebEvent \/ ValueChanges \/ DeleteRules \/ SaveRules
              \/ UploadRules \/ UNCHANGED vars
    <3>1. UNCHANGED <<clock, alarms, job>>
      BY <2>11 DEF UnknownCommand, WebEvent, ValueChanges, DeleteRules, SaveRules,
                   UploadRules, vars
    <3> QED BY <3>1, TimersStay
  <2>12. CASE Tick
    BY <2>12, TimersOfTick
  <2> QED
    BY <2>1, <2>2, <2>3, <2>4, <2>5, <2>6, <2>7, <2>8, <2>9, <2>10, <2>11, <2>12
       DEF Next, Continue, RunCommand, Environment
<1> QED BY <1>1, <1>2, CommandsInvariant, PTL DEF Spec

\* A running timer is late by two calls of rulesTimers at most.
LEMMA RunningIsInTime ==
  ASSUME TimersFit, TimersInv, NEW t \in Timers, Running(t)
  PROVE  ran[t] <= wanted[t] + 2 * MaxLag
<1>1. ran[t] \in Nat /\ wanted[t] \in Nat /\ MaxLag \in Nat
  BY TimerFacts, TimerNumbers
<1>2. CASE IsPausing(t)
  <2>1. job.left = wanted[t] - ran[t] /\ job.left \in 1 .. HalfMax
    BY <1>2 DEF TimersInv, Counted, HandlerInv, IsPausing
  <2> QED BY <2>1, <1>1, TimerNumbers
<1>3. CASE ~IsPausing(t)
  <2>1. ran[t] - wanted[t] <= lag + Grace(t)
    BY <1>3 DEF TimersInv, Counted
  <2>2. lag \in 0 .. MaxLag /\ Grace(t) \in 0 .. MaxLag
    BY <1>1 DEF Grace, TimersInv, TimerTypes
  <2> QED BY <2>1, <2>2, <1>1
<1> QED BY <1>2, <1>3

\* Every rule timer rings when it has run for the time it was set for, pauses
\* left out, and no later than two calls of rulesTimers after that, and none
\* that runs gets later: for every rule file, every number of timers and every
\* width of the word, wherever millis() wraps.  Nothing is said of a timer
\* whose deadline falls on the word 0: it does not run.
THEOREM TimersAreOnTime ==
  ASSUME SourcesFit, TimersFit PROVE Spec => RingsOnTime
<1> DEFINE Ring == \A t \in Timers :
             /\ timer[t].timestamp # 0 /\ timer'[t].timestamp = 0 /\ job'.kind = "ring"
                  => ran[t] >= wanted[t] /\ ran[t] <= wanted[t] + 2 * MaxLag
             /\ Running(t)' => ran'[t] <= wanted'[t] + 2 * MaxLag
           InTime == \A t \in Timers : Running(t) => ran[t] <= wanted[t] + 2 * MaxLag
<1>0. TimersInv => InTime
  BY RunningIsInTime
<1>1. TimersInv /\ InTime' /\ [Next]_vars => [Ring]_vars
  <2> SUFFICES ASSUME TimersInv, Next, NEW t \in Timers, timer[t].timestamp # 0,
                      timer'[t].timestamp = 0, job'.kind = "ring"
               PROVE  ran[t] >= wanted[t] /\ ran[t] <= wanted[t] + 2 * MaxLag
    OBVIOUS
  <2>1. timer' # timer
    OBVIOUS
  <2>2. TimerSet \/ RingTimer \/ EndPause \/ EndResume
    BY <2>1 DEF Next, Continue, ParseLine, BlockStarts, EndOn, Skipped, If, Else, EndIf,
         Command, Reads, OpenFile, EndFile, EndInput, EndCommand, EndTimers, RunCommand,
         RaiseEvent, ExecuteRules, TimerPause, TimerResume, UnknownCommand, CheckTimers,
         RunBuffer, Tick, Environment, Input, WebEvent, ValueChanges, DeleteRules,
         SaveRules, UploadRules, alarms
  <2>3. RingTimer
    BY <2>2 DEF TimerSet, EndPause, EndResume, Takes, Return, Idle, Handler, Job
  <2> DEFINE f == FirstOf(LeftToCheck)
  <2>4. f \in LeftToCheck
    <3>1. LeftToCheck \in SUBSET Nat /\ LeftToCheck # {}
      BY <2>3, RulesAssumption DEF RingTimer, LeftToCheck
    <3> QED BY <3>1, FirstOfMember
  <2>5. timer' = [timer EXCEPT ![f].timestamp = 0] /\ job.kind = "timers"
    BY <2>3 DEF RingTimer
  <2> HIDE DEF f
  <2>6. t = f
    BY <2>1, <2>4, <2>5 DEF LeftToCheck, TimersInv, TimerTypes
  <2>7. Running(t) /\ TimeDiff(timer[t].timestamp, now) >= 0 /\ Counted(t) /\ ~IsPausing(t)
    BY <2>4, <2>5, <2>6 DEF LeftToCheck, Expired, TimeOutReached, TimersInv, IsPausing
  <2>8. ran[t] - wanted[t] >= 0 /\ ran[t] - wanted[t] <= lag + Grace(t)
    BY <2>7 DEF Counted
  <2>9. lag \in 0 .. MaxLag /\ Grace(t) \in 0 .. MaxLag
    BY TimerNumbers DEF Grace, TimersInv, TimerTypes
  <2> QED BY <2>8, <2>9, TimerFacts, TimerNumbers
<1> QED BY <1>0, <1>1, TimersInvariant, PTL DEF Spec, RingsOnTime
=============================================================================
