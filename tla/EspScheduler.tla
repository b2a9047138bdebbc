---------------------------- MODULE EspScheduler ----------------------------
(***************************************************************************)
(* The scheduler of ESPEasy: one list of timers kept sorted by how overdue *)
(* they are, the queue of asynchronous events handled when no timer is     *)
(* due, and the handlers of the three kinds of timers:                     *)
(*   - interval timers, which keep their own pace,                         *)
(*   - task timers, a chain per enabled task that reads its sensor,        *)
(*   - plugin timers, set by a command to end a pulse later.               *)
(* The processor runs loop(): one call of handle_schedule per pass, then   *)
(* the background tasks, in which web pages and commands are served.       *)
(* late is a history variable: the true time since each queued timer's     *)
(* deadline, in unbounded integers, next to the words the code computes.   *)
(***************************************************************************)
EXTENDS EspTime, FiniteSets, Sequences, SequencesExt

CONSTANTS
  Tasks,        \* task indices
  Periodic,     \* ids of interval timers
  Mqtt,         \* the interval timer MQTTpublish hurries
  Keys,         \* ids of plugin timers: a plugin and a pin
  Plugins,      \* devices a task can be given
  PluginOf,     \* the plugin of a key
  StartDelay,   \* delay of the first deadline of a task or interval timer
  Step,         \* interval of an interval timer
  Intervals,    \* intervals of a task, 0 for none
  Soon,         \* delay of a timer that is hurried: 10 ms
  PulseTimes,   \* delays of a plugin timer
  MaxRun,       \* bound: time one pass of loop() normally takes
  MaxLag,       \* bound: time a queued timer is overdue at most
  MaxPokes      \* bound: calls from outside and stalls

NoTask == -1     \* TASKS_MAX: the task index of a command no task took
NoData == -2     \* no entry: operator[] makes one with task index -1
NoPlugin == "none"
Data == Tasks \union {NoTask, NoData}   \* the task index of a systemTimerStruct

\* getMixedId
TaskId(t) == <<"task", t>>
IntervalId(i) == <<"interval", i>>
PluginId(k) == <<"plugin", k>>
Ids == {TaskId(t) : t \in Tasks} \union {IntervalId(i) : i \in Periodic}
         \union {PluginId(k) : k \in Keys}
Loop == <<"loop", 0>>
Event == <<"event", 0>>

ASSUME SchedulerAssumption ==
  /\ Tasks \subseteq Nat /\ Periodic \subseteq Nat /\ Keys \subseteq Nat
  /\ IsFiniteSet(Tasks) /\ Mqtt \in Periodic
  /\ PluginOf \in [Keys -> Plugins] /\ NoPlugin \notin Plugins
  /\ Step \in [Periodic -> 1 .. HalfMax]
  /\ StartDelay \in [Ids -> 0 .. HalfMax]
  /\ Intervals \subseteq 0 .. HalfMax /\ PulseTimes \subseteq 0 .. HalfMax
  /\ Soon \in 0 .. HalfMax /\ MaxRun \in Nat /\ MaxPokes \in Nat
  /\ MaxLag \in 0 .. HalfMax

VARIABLES
  now,        \* millis()
  timers,     \* msecTimerHandler._timer_ids: list of [id, at]
  late,       \* history: true time since the deadline of each queued timer
  enabled,    \* Settings.TaskDeviceEnabled
  interval,   \* Settings.TaskDeviceTimer
  device,     \* Settings.TaskDeviceNumber
  remote,     \* Settings.TaskDeviceDataFeed: another node sends the values
  data,       \* systemTimers
  events,     \* number of entries of EventQueue
  starting,   \* timers setup() or the first connected loop has yet to set
  firstLoop,  \* firstLoop
  running,    \* the handler being run
  called,     \* the plugin the running plugin timer called
  ran,        \* time since the last call of handle_schedule
  stalled,    \* this pass of loop() takes longer than MaxRun
  pokes       \* calls from outside and stalls so far

settings == <<enabled, interval, device, remote>>
loopVars == <<starting, firstLoop, running, called, ran, stalled>>
vars == <<now, timers, late, settings, data, events, loopVars, pokes>>
-----------------------------------------------------------------------------
\* registerAt: remove_if of the old entry, then the new one goes before the
\* first that is not more overdue: what push_front and the stable sort() leave
\* of a list that is sorted already.
Overdue(entry) == TimeDiff(entry.at, now)

\* Never finds an old entry to remove.
Position_None(list, id) == 0

Position(list, id) == IF \E i \in DOMAIN list : list[i].id = id
                        THEN CHOOSE i \in DOMAIN list : list[i].id = id ELSE 0

\* Sorts by the words, as if they never wrapped.
Insert_Words(list, entry) ==
  LET rest   == RemoveAt(list, Position(list, entry.id))
      before == {i \in DOMAIN rest : rest[i].at < entry.at}
  IN  InsertAt(rest, Cardinality(before) + 1, entry)

Insert(list, entry) ==
  LET rest   == RemoveAt(list, Position(list, entry.id))
      before == {i \in DOMAIN rest : Overdue(rest[i]) > Overdue(entry)}
  IN  InsertAt(rest, Cardinality(before) + 1, entry)

\* Sets a timer of list at a moment whose true lateness is l.
Schedule(list, id, at, l) ==
  /\ \E entry \in [id : {id}, at : {at}] : timers' = Insert(list, entry)
  /\ late' = [late EXCEPT ![id] = l]

SetTimer(id, delay) == Schedule(timers, id, Plus(now, delay), -delay)

KeepTimers == UNCHANGED <<timers, late>>

\* schedule_task_device_timer: only an enabled task gets a timer.
ScheduleTask(list, t, at, l) ==
  IF enabled[t] THEN Schedule(list, TaskId(t), at, l)
                ELSE timers' = list /\ late' = [late EXCEPT ![TaskId(t)] = 0]

Queued == {timers[i].id : i \in DOMAIN timers}

\* The timer handle_schedule takes: the first one, when its deadline passed.
Due == timers # <<>> /\ TimeOutReached(Head(timers).at, now)
Dispatches(id) == /\ running = Loop /\ starting = {}
                  /\ Due /\ Head(timers).id = id
                  /\ running' = id /\ ran' = 0 /\ stalled' = FALSE
                  /\ UNCHANGED <<starting, firstLoop>>

Outside == pokes < MaxPokes /\ pokes' = pokes + 1
\* Background tasks are served between the passes and from inside the handlers
\* of tasks (delayBackground), of TIMER_100MSEC and of commands.
Background == Outside /\ starting = {} /\ running[1] # "plugin"
-----------------------------------------------------------------------------
(* setup() and schedule_all_task_device_timers: tasks in order, then the     *)
(* interval timers.                                                          *)
TasksLeft == {t \in Tasks : TaskId(t) \in starting}

\* PLUGIN_INIT_ALL, in setup(), leaves out the tasks with a remote feed; the first
\* connection starts them too.
Served(t) == enabled[t] /\ (remote[t] => ~firstLoop)

StartTask ==
  /\ TasksLeft # {}
  /\ LET t == CHOOSE u \in TasksLeft : \A v \in TasksLeft : u <= v
     IN  /\ IF Served(t) THEN SetTimer(TaskId(t), StartDelay[TaskId(t)])
                          ELSE KeepTimers
         /\ starting' = starting \ {TaskId(t)}
  /\ UNCHANGED <<now, settings, data, events, firstLoop, running, called, ran,
                 stalled, pokes>>

StartInterval ==
  /\ TasksLeft = {}
  /\ \E i \in Periodic :
       /\ IntervalId(i) \in starting
       /\ SetTimer(IntervalId(i), StartDelay[IntervalId(i)])
       /\ starting' = starting \ {IntervalId(i)}
  /\ UNCHANGED <<now, settings, data, events, firstLoop, running, called, ran,
                 stalled, pokes>>

\* The first pass of loop() that finds every connection established.
FirstConnection ==
  /\ running = Loop /\ starting = {} /\ firstLoop
  /\ firstLoop' = FALSE
  /\ starting' = {TaskId(t) : t \in Tasks}
  /\ UNCHANGED <<now, timers, late, settings, data, events, running, called,
                 ran, stalled, pokes>>
-----------------------------------------------------------------------------
(* handle_schedule, and the ends of the handlers it calls.                   *)

\* The true lateness of a timer after setIntervalTimer, in unbounded integers.
NextLate(l, step) == CASE l < step      -> l - step
                       [] l > 2 * step  -> -step
                       [] l \in step .. 2 * step -> l - 2 * step

\* setIntervalTimer(id, lasttimer), then the handler.
ProcessIntervalTimer ==
  /\ \E i \in Periodic :
       /\ Dispatches(IntervalId(i))
       /\ Schedule(Tail(timers), IntervalId(i),
                   NextTimeInterval(Head(timers).at, Step[i], now),
                   NextLate(late[IntervalId(i)], Step[i]))
  /\ UNCHANGED <<now, settings, data, events, called, pokes>>

\* Reads the sensor first and sets the next deadline after.
ProcessTaskTimer_NoChain ==
  /\ \E t \in Tasks :
       /\ Dispatches(TaskId(t))
       /\ timers' = Tail(timers) /\ late' = [late EXCEPT ![TaskId(t)] = 0]
  /\ UNCHANGED <<now, settings, data, events, called, pokes>>

\* The chain of a task goes on from the old deadline; then SensorSendTask.
ProcessTaskTimer ==
  /\ \E t \in Tasks :
       /\ Dispatches(TaskId(t))
       /\ IF interval[t] # 0
            THEN ScheduleTask(Tail(timers), t,
                              Plus(Head(timers).at, interval[t]),
                              late[TaskId(t)] - interval[t])
            ELSE /\ timers' = Tail(timers)
                 /\ late' = [late EXCEPT ![TaskId(t)] = 0]
  /\ UNCHANGED <<now, settings, data, events, called, pokes>>

\* getPluginId: the plugin of the task that is in the timer's data.
PluginFor(t) == IF t \in Tasks THEN device[t] ELSE NoPlugin

ProcessPluginTimer ==
  /\ \E k \in Keys :
       /\ Dispatches(PluginId(k))
       /\ timers' = Tail(timers) /\ late' = [late EXCEPT ![PluginId(k)] = 0]
       /\ called' = PluginFor(data[k])
  /\ UNCHANGED <<now, settings, data, events, pokes>>

\* No timer is due: the oldest event is handled.
ProcessEvent ==
  /\ running = Loop /\ starting = {} /\ ~Due /\ events > 0
  /\ running' = Event /\ ran' = 0 /\ stalled' = FALSE
  /\ UNCHANGED <<now, timers, late, settings, data, events, starting,
                 firstLoop, called, pokes>>

IdlePass ==
  /\ running = Loop /\ starting = {} /\ ~Due /\ events = 0 /\ ran > 0
  /\ ran' = 0 /\ stalled' = FALSE
  /\ UNCHANGED <<now, timers, late, settings, data, events, starting,
                 firstLoop, running, called, pokes>>

EndHandler ==
  /\ running[1] \in {"task", "interval"}
  /\ running' = Loop
  /\ UNCHANGED <<now, timers, late, settings, data, events, starting,
                 firstLoop, called, ran, stalled, pokes>>

\* Leaves the handled event in the queue.
EndEvent_NoPop ==
  /\ running = Event
  /\ running' = Loop
  /\ UNCHANGED <<now, timers, late, settings, data, events, starting,
                 firstLoop, called, ran, stalled, pokes>>

EndEvent ==
  /\ running = Event
  /\ running' = Loop /\ events' = events - 1
  /\ UNCHANGED <<now, timers, late, settings, data, starting, firstLoop,
                 called, ran, stalled, pokes>>

\* systemTimers.erase after PLUGIN_TIMER_IN.
EndPluginTimer ==
  /\ \E k \in Keys : /\ running = PluginId(k)
                    /\ data' = [data EXCEPT ![k] = NoData]
  /\ running' = Loop /\ called' = NoPlugin
  /\ UNCHANGED <<now, timers, late, settings, events, starting, firstLoop,
                 ran, stalled, pokes>>
-----------------------------------------------------------------------------
(* Calls from outside.                                                       *)

\* The device page is saved without a change of the device: PLUGIN_INIT
\* schedules an enabled task.
SaveTask_NoInit(t, on, time) ==
  /\ Background
  /\ enabled' = [enabled EXCEPT ![t] = on]
  /\ interval' = [interval EXCEPT ![t] = time]
  /\ KeepTimers
  /\ UNCHANGED <<now, device, remote, data, events, loopVars>>

SaveTask(t, on, time) ==
  /\ Background
  /\ enabled' = [enabled EXCEPT ![t] = on]
  /\ interval' = [interval EXCEPT ![t] = time]
  /\ IF on THEN SetTimer(TaskId(t), StartDelay[TaskId(t)]) ELSE KeepTimers
  /\ UNCHANGED <<now, device, remote, data, events, loopVars>>

\* The page is saved with another device: taskClear.
ChangeDevice(t, p) ==
  /\ Background /\ p # device[t]
  /\ device' = [device EXCEPT ![t] = p]
  /\ enabled' = [enabled EXCEPT ![t] = FALSE]
  /\ interval' = [interval EXCEPT ![t] = 0]
  /\ remote' = [remote EXCEPT ![t] = FALSE]
  /\ KeepTimers
  /\ UNCHANGED <<now, data, events, loopVars>>

\* A plugin asks for an early reading of its task.
HurryTask(t) ==
  /\ Background /\ enabled[t]
  /\ SetTimer(TaskId(t), Soon)
  /\ UNCHANGED <<now, settings, data, events, loopVars>>

\* MQTTpublish, and updateMQTTclient_connected: setIntervalTimer(TIMER_MQTT).
SetMqttTimer(delay) ==
  /\ Background
  /\ SetTimer(IntervalId(Mqtt), delay)
  /\ UNCHANGED <<now, settings, data, events, loopVars>>

\* The tasks PluginCall(PLUGIN_WRITE) offers a command of plugin p to, before
\* it falls back to the plugin itself with the caller's task index.
Takers(p) == {t \in Tasks : enabled[t] /\ ~remote[t] /\ device[t] = p}
TaskOfCommand(p) == IF Takers(p) = {} THEN NoTask
                    ELSE CHOOSE t \in Takers(p) : \A u \in Takers(p) : t <= u

\* A pulse command: setPluginTaskTimer.
SetPluginTimer(k, delay) ==
  /\ Background
  /\ data' = [data EXCEPT ![k] = TaskOfCommand(PluginOf[k])]
  /\ SetTimer(PluginId(k), delay)
  /\ UNCHANGED <<now, settings, events, loopVars>>

\* A callback or a command is queued: schedule_event_timer.
ScheduleEvent ==
  /\ Outside /\ events' = events + 1
  /\ KeepTimers /\ UNCHANGED <<now, settings, data, loopVars>>

\* A handler or the background tasks take unusually long.
Stall ==
  /\ Outside /\ starting = {} /\ ~stalled /\ stalled' = TRUE
  /\ UNCHANGED <<now, timers, late, settings, data, events, starting,
                 firstLoop, running, called, ran>>

\* setup() takes no time here: StartDelay of the interval timers has its length.
Tick ==
  /\ starting = {}
  /\ ran < MaxRun \/ (stalled /\ ran < MaxLag)
  /\ \A id \in Queued : late[id] < MaxLag
  /\ now' = Plus(now, 1) /\ ran' = ran + 1
  /\ late' = [id \in Ids |-> IF id \in Queued THEN late[id] + 1 ELSE late[id]]
  /\ UNCHANGED <<timers, settings, data, events, starting, firstLoop,
                 running, called, stalled, pokes>>
-----------------------------------------------------------------------------
Init ==
  /\ now = 0 /\ timers = <<>> /\ late = [id \in Ids |-> 0]
  /\ enabled \in [Tasks -> BOOLEAN] /\ interval \in [Tasks -> Intervals]
  /\ device \in [Tasks -> Plugins] /\ remote \in [Tasks -> BOOLEAN]
  /\ data = [k \in Keys |-> NoData]
  /\ events = 0 /\ firstLoop = TRUE
  /\ starting = {TaskId(t) : t \in Tasks} \union {IntervalId(i) : i \in Periodic}
  /\ running = Loop /\ called = NoPlugin
  /\ ran = 0 /\ stalled = FALSE /\ pokes = 0

Start == StartTask \/ StartInterval
Pass == \/ ProcessIntervalTimer \/ ProcessTaskTimer \/ ProcessPluginTimer
        \/ ProcessEvent \/ IdlePass
End == EndHandler \/ EndEvent \/ EndPluginTimer
Poke == \/ \E t \in Tasks, on \in BOOLEAN, time \in Intervals : SaveTask(t, on, time)
        \/ \E t \in Tasks, p \in Plugins : ChangeDevice(t, p)
        \/ \E t \in Tasks : HurryTask(t)
        \/ \E delay \in {Soon, Step[Mqtt]} : SetMqttTimer(delay)
        \/ \E k \in Keys, delay \in PulseTimes : SetPluginTimer(k, delay)
        \/ ScheduleEvent \/ Stall
Next == Start \/ Pass \/ End \/ Tick \/ FirstConnection \/ Poke

Processor == Start \/ Pass \/ End

\* Time passes, and the processor runs on: loop() calls handle_schedule again
\* and again, and the handlers return.
Fairness == WF_vars(Processor) /\ WF_vars(Tick)
Spec == Init /\ [][Next]_vars /\ Fairness
-----------------------------------------------------------------------------
(* Properties.                                                               *)

\* The variables stay in their types; no timer is queued twice.
TypeOK ==
  /\ now \in Word /\ late \in [Ids -> -HalfMax .. MaxLag]
  /\ timers \in Seq([id : Ids, at : Word])
  /\ \A i, j \in DOMAIN timers : timers[i].id = timers[j].id => i = j
  /\ enabled \in [Tasks -> BOOLEAN] /\ interval \in [Tasks -> Intervals \union {0}]
  /\ device \in [Tasks -> Plugins] /\ remote \in [Tasks -> BOOLEAN]
  /\ data \in [Keys -> Data]
  /\ events \in 0 .. MaxPokes /\ pokes \in 0 .. MaxPokes
  /\ starting \subseteq Ids /\ firstLoop \in BOOLEAN
  /\ running \in Ids \union {Loop, Event}
  /\ called \in Plugins \union {NoPlugin}
  /\ ran \in 0 .. MaxRun + MaxLag /\ stalled \in BOOLEAN

\* Across every wrap of millis(), the words of a queued timer and the clock say
\* exactly how far its true deadline is.
DeadlinesSurviveWrap ==
  \A i \in DOMAIN timers : Overdue(timers[i]) = late[timers[i].id]

\* The list, sorted only when a timer is set, still has the timer whose
\* deadline passed first at its head.
MostOverdueFirst ==
  \A i, j \in DOMAIN timers : i < j => late[timers[i].id] >= late[timers[j].id]

\* An enabled task with an interval never drops out of the list, whatever pages
\* are saved while its reading is under way; one with a remote feed is in it since
\* the first connection.
ChainAlive ==
  \A t \in Tasks : Served(t) /\ interval[t] # 0 =>
                     TaskId(t) \in Queued \union starting

\* No handler starts before the true deadline of its timer.
NeverEarly == [][\A id \in Ids : running' = id /\ running # id => late[id] >= 0]_vars

\* How overdue each queued timer is, in the words of the list and the clock.
Lateness == [id \in Queued |-> Overdue(timers[Position(timers, id)])]

Timers == INSTANCE EspTimers WITH
  Chained <- {TaskId(t) : t \in Tasks},
  Paced <- {IntervalId(i) : i \in Periodic},
  Single <- {PluginId(k) : k \in Keys},
  Intervals <- Intervals \ {0},
  Pace <- [id \in {IntervalId(i) : i \in Periodic} |-> Step[id[2]]],
  Delays <- 0 .. HalfMax,
  lateness <- Lateness

\* The list of words with the clock that wraps is, in every step, a set of timers
\* on a clock that does not: the timer handled is the one whose deadline passed
\* first, setting one changes no other, and events wait for all that are due.
ImplementsTimers == Timers!Spec

\* An interval timer, however late it is handled, gets a deadline that has not
\* passed and is at most a step away; unless it missed more than a whole
\* interval the deadline stays on the grid of the old ones.
KeepsPace ==
  [][\A i \in Periodic :
       running' = IntervalId(i) /\ running # running' =>
         LET before == late[IntervalId(i)]
             entry  == CHOOSE e \in {timers'[n] : n \in DOMAIN timers'} : e.id = IntervalId(i)
             after  == TimeDiff(entry.at, now)
         IN  /\ -Step[i] <= after /\ after <= 0
             /\ before <= 2 * Step[i] => (before - after) % Step[i] = 0]_vars

\* A task that stays enabled with an interval is read again and again; one with a
\* remote feed, from the first connection on.
TasksAreRead ==
  \A t \in Tasks : <>[](Served(t) /\ interval[t] # 0) => []<>(running = TaskId(t))

\* Every event is handled once the calls from outside cease.
EventsAreHandled == events > 0 ~> events = 0
=============================================================================
