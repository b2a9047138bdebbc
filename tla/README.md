# FanCoilController: models, checks and proofs

The repository makes a fan coil unit with a wall keypad controllable over the network.
An Arduino sketch (`src/Arduino/src/fancoil.ino`) is wired to the keypad: it reads
what the keypad's LEDs show from the display bus, pulls one line low at the moment the
scan selects a key to press that key, and is an I2C slave.  The I2C master is a copy
of the ESPEasy firmware (`src/Espeasy/src`) with one plugin of its own,
`_P201_Fancoil.ino`, which turns the commands `FancoilSetTemp`, `FancoilSetMode` and
`FancoilReset` and the periodic reading of a task into I2C transactions.

This directory holds TLA+ modules of the parts with state that several actors touch,
configurations that check them with TLC, and proofs checked with TLAPS.

1. [Inventory](#inventory): the system's parts, their state, operations, hazards
2. [Plan](#plan): modules, order, composition, what comes next
3. [Modules](#modules-and-the-code): how variables and actions correspond to the code
4. [Runs](#runs): what TLC checks, bounds, what each run shows
5. [Fairness](#fairness)
6. [Findings](#findings): where the code does not do what it says
7. [Observations](#observations): what modelling showed besides
8. [Proofs](#proofs)
9. [What is not modelled](#what-is-not-modelled)

## Inventory

### The fan coil

| Part | State | Operations | Correct when |
|---|---|---|---|
| Display codec (`fancoil.ino`: `reworkData`, `decodeData`, quantisation in `setTemp`; two byte split in the plugin) | none | unpack seven SPI bytes into four words, LEDs into set point and mode | decodes what is shown from any word of the scan cycle; a damaged cycle decodes no mode nobody showed |
| Sketch, main program (`loop`, `setTemp`, `setMode`, `readFancoilData`, `resetFunc`) | `fancoilTemp`, `fancoilMode`, loop counters | serve a raised flag by key presses until the display shows the value, at most three tries | presses keys only for the command in progress, ends, ends with the value shown on a keypad that cooperates |
| Sketch, I2C handlers (`receiveEvent`, `requestEvent`) | `receiveCmd`, `receivedParam`, `setTempFlag`, `setModeFlag`, `resetFlag` | store a command byte and its parameter; answer, and raise the flag of the command last received | what is served is what was asked for |
| Plugin P201 (`Plugin_201`) | call in progress, `UserVar` of the task | `PLUGIN_READ`: two write/request pairs; `PLUGIN_WRITE`: a write, a request, `delay(timeout)` | the values it stores were shown |
| I2C bus, keypad (external) | what the keypad shows; whether its bus carries words | transactions may be lost; user keys; presses may be missed | |

*Interaction.*  Plugin and sketch share nothing but the bus.  Inside the sketch the
handlers are interrupts: they share `receiveCmd`, `receivedParam`, `fancoilTemp` and
three flags with `loop()`, none of them guarded, and the processor moves 16-bit values
one byte at a time.

*Hard.*  Interrupts between any two byte accesses; a parameter shared by two commands;
a flag raised by the request and not by the write, so that a lost write repeats the
previous command; a fixed timeout for work of unknown length; a key that toggles the
power; a keypad that misses presses; readings that lag; 8-bit and 16-bit conversions;
a failure value that is also a measurement.

### ESPEasy

| Part (under `src/Espeasy/src`) | State | Operations | Correct when |
|---|---|---|---|
| Scheduler and timers (`Scheduler.ino`, `ESPEasyTimeTypes.h`, part of `TimeESPeasy.ino`) | sorted list of timers, `systemTimers`, `EventQueue`, `Settings.TaskDevice*` | `handle_schedule`, set timers of three kinds, queue and handle events | no timer early, none lost, the wrap of `millis()` goes unnoticed, tasks are read and events handled for ever |
| WiFi connection (`ESPEasyWifi.ino`, `ESPEasyWiFiEvent.h`, part of `ESPEasy.ino`) | `wifiStatus`, `processed*` flags, attempt counter, selected settings, own access point and its timer, wizard | callbacks; `processConnect`, `processGotIP`, ...; `WifiCheck`; `tryConnectWiFi` | the node ends up connected when an access point stays in reach, and its own access point goes off |
| Rule engine (`Misc.ino`, `Commands/Timer.h`, `Commands/Rules.h`) | `nestingLevel`, `activeRuleSets`, state of the parser, `RulesTimer`, `eventBuffer` | match an event against the rule files line by line; run actions; rule timers: set, pause, resume, ring | nesting counts the files being read, one branch of a chain runs, timers ring once and on time |
| MQTT and controllers (`Controller.ino`, `_P037_MQTTImport.ino`, part of `ESPEasy.ino`, `PubSubClient.cpp`) | two connections with keep-alive, `timermqtt_interval`, `MQTTclient_connected`, `MQTTclient_should_reconnect` | poll, ping, reconnect, publish; attempts that block the node | a silent broker is noticed and a broker that is back is connected to in time |
| Storage (`ESPEasyStorage.ino`, `ESPEasyRTC.ino`, `ResetFactory`, `setup()`) | `config.dat`, `security.dat`, the copies in RAM and a digest, counters in RTC memory | load, save (two files), flash guard, factory reset, start-up checks | a save that reports no error has saved; the flash is spared; every start-up ends with settings of this firmware |
| Networking (`Networking.ino`) | node list with ages | UDP broadcast and receive, aging, syslog, SSDP | a node that keeps announcing itself stays known |
| Clock and time zones (`TimeESPeasy.ino`, `TimeZoneESPeasy.ino`) | system time, DST rule | NTP, calendar, clock events | every minute fires once |
| Main program (`ESPEasy.ino`) | loop statistics, deep sleep | `setup`, `loop`, `backgroundtasks` | |
| Plugin registry (`__Plugin.ino`, `__CPlugin.ino`, `__NPlugin.ino`) | tables | dispatch of calls to plugins | |
| Web server, commands, console (`WebServer.ino`, `Command.ino`, `Commands/*.h`, `Serial.ino`) | form fields | pages and text commands that call the parts above | |
| Other plugins, controllers' formats, notifications (`_P0*.ino`, `_N0*.ino`) | drivers' own | other hardware; not used by the fan coil | |
| Hardware access, globals, statistics, conversions | registers | | |

*Interaction.*  Everything runs on one processor without preemption.  What interleaves
is chosen by the places that yield: `delay`, `delayBackground`, `backgroundtasks`,
`rulesProcessing`, waiting for NTP.  There the WiFi callbacks run, and web pages and
commands are served in the middle of another handler; all parts share `Settings` and
the list of timers.

*Hard.*  State read before a yield and used after it; callbacks that overwrite one
another's status; a clock that wraps after 49.7 days; a list kept sorted by a key that
changes with time; pages saved while the very task is being read; retries racing late
answers; two credentials one of which may be empty; two files written one after the
other.

The hazards of the code, each with its line and the properties that watch it, are
listed under `hazards` in `PROJECT.json`.  Those without a property say why.

## Plan

| Order | Modules | Subject | State |
|---|---|---|---|
| 1 | `FancoilCodec`, `FancoilDecode`, `FancoilDecodeProofs` | pure functions of the sketch, and the sampling of the display | done, proved |
| 2 | `FancoilSketch`, `FancoilSystem` (composes sketch, bus and plugin) | the fan coil end to end | done |
| 3 | `FancoilService`, `FancoilRefinement` | abstract remote control, refinement mapping | done, proved |
| 4 | `FancoilProofs` | types, the safety of the end to end system, the refinement | done |
| 5 | `EspTime`, `EspTimers`, `EspScheduler` (uses `EspTime`, implements `EspTimers`), `EspTimeProofs`, `EspSchedulerProofs` | time arithmetic, timers, events | done, safety proved |
| 6 | `EspWifi`, `EspWifiProofs` | connection, callbacks, retries | done, safety proved |
| 7 | `EspRules` (uses `EspTime`), `EspRulesProofs` | rule files, chains of conditions, nesting, rule timers | done, safety proved |
| 8 | `EspMqtt`, `EspMqttProofs` | two MQTT clients that block one another, keep-alive, back-off | done, safety proved |
| 9 | `EspStorage`, `EspStorageProofs` | two files of settings, flash guard, factory reset, start-up, failures of power and flash | done |
| 10 | node list | aging against a lossy broadcast | later |
| 11 | clock | NTP, DST, clock events fired once | later |

Within the modules that exist: a handler that sets its own plugin timer again
(`_P022_PCA9685`) in `EspScheduler`; the WiFi scan and the console commands in
`EspWifi`.

## Modules and the code

### `FancoilCodec`, `FancoilDecode`

`FancoilCodec` holds the pure functions; shifts and masks become `\div`, `%` and `*`,
widths are kept (`Quantise` wraps at 8 bits, `TwoBytes` at 16). `DecodeData` takes two
extra arguments for what the uninitialised locals `val1` and `flagTempMax` hold: any
byte of the constant `Junk`, and either truth value.  `FancoilDecode` adds the keypad:
which LEDs it lights for a set point (`Light`, `Column2`, `Column4`) and a mode, in
which order it scans its columns (`Cycle`), and seven bytes cut bit by bit from the
endless stream starting at any word (`StreamBit`, `SampledByte`).  Its one operation
is `readFancoilData`, on an intact cycle or on one of whose words any were lost: in
their place came words of the constant `Damaged`, with the prefix of no column
`decodeData` knows.

### `FancoilSketch`

| TLA+ | `fancoil.ino` |
|---|---|
| `pc`, `ret` | where `loop()` is; the call site `readFancoilData` returns to |
| `fancoilTemp`, `fancoilMode`, flags, `receiveCmd`, `receivedParam` | the globals of those names |
| `param` | the value of `receivedParam` the main program loaded |
| `tries`, `presses`, `polls` | the three nested `counter`s (3; 50 or 20; 10) |
| `sampled` | the cycle in `fancoilData`, before `decodeData` stores its result |
| `panel`, `talking` | external: what the keypad shows, whether its bus carries words |
| `ReadSPI`, `StoreFirstByte`, `StoreSecondByte` | `readFancoilData`, with the two byte stores apart |
| `TestTempFlag` .. `ClearTempFlag` | first `if` of `loop()` with `setTemp` |
| `TestModeFlag` .. `ClearModeFlag` | second `if` of `loop()` with `setMode` |
| `ResetFunc`, `Idle` | third `if`; `delay(1000)` |
| `ReceiveEvent`, `RequestEvent` | the handlers, atomic: interrupts are not interrupted |

An action is a stretch of code between two points where an interrupt or the keypad can
make a difference.  The set point is stored, and the parameter loaded, a byte at a
time in an order the compiler chooses (`Torn`).  A simulated press is registered or
missed unless `Responsive`.  A cycle of the display shows what the keypad shows or,
with `Misreads`, was damaged: then the mode is the last one or any, and the set point
the last one or any code of the table the constant names, since it may come from
`val1` as the stack left it (`Misread`).

### `FancoilSystem`

Plugin P201 as a program counter `stage`, with the transactions of the bus as joint
steps with the sketch's handlers.  `BusWrite` and the `Request...` actions may instead
be lost when `Lossy`: the code ignores what `endTransmission` and `requestFrom`
return.  `TempAnswer` and `ModeAnswer` are the tests against 255 and the stores to
`UserVar`.  `EndDelay` ends the fixed `delay(timeout)`: with `WaitSuffices` not before
the sketch took its flags down, without it at any time.  The code ensures nothing of
that: the delay ends by the clock, and `WaitSuffices` stands for a timeout that was
chosen long enough.

### `FancoilService`, `FancoilRefinement`

What plugin and sketch promise together, without bus, bytes, flags, counters or loops:
a remote control that works on one job at a time, presses keys only towards what the
job wants as far as it knows, and answers with what it last saw.  Its looks may be
mistaken (`Mistaken`), a set point may be taken in by halves (`Halves`), and a restart
may make it forget that it was asked for the mode (`forgot`): that much a caller has
to expect of this code.  The refinement mapping takes the job from the flags and the
shared parameter, the knowledge from `fancoilTemp`/`fancoilMode` and the answers from
`UserVar`.

### `EspTime`, `EspTimers`, `EspScheduler`

`EspTime` has the arithmetic of `timeDiff`, `timeOutReached` and `setNextTimeInterval`
on words of any width.  `EspScheduler` has `_timer_ids` as the sequence `timers` of
`[id, at]`, with `registerAt` (`Insert`), the head test of `getNextId` (`Due`) and the
three kinds of handlers.  `running` is the handler in progress: actions of `Poke`, the
calls from outside, come between its start and its end exactly where the code serves
background tasks.  `data` is `systemTimers`; `events` the length of `EventQueue`.
`late` is a history variable: for each queued timer the true time since its deadline
as an unbounded integer.  The code never sees it; properties compare it with the
words.  `remote` is `TaskDeviceDataFeed`: `PLUGIN_INIT_ALL` starts the tasks with a
local feed, the first connection all of them (`Served`).

`EspTimers` is what the scheduler promises: timers on a clock that never wraps, of
which the one whose deadline passed first is handled, one at a time, and events only
when no timer is due.  The refinement mapping (`Lateness`) has nothing to do with
`late`: it takes from the list how overdue each timer is by `timeDiff` of its word and
`millis()`.

### `EspWifi`

| TLA+ | code |
|---|---|
| `wifiStatus`, `attempt`, `selected`, `wifiSetup`, `wifiSetupConnect` | the globals (`attempt` counts to 7 and stays in its parity: the code compares it with 0 and 5 and tests its parity) |
| `todo` | the `processed*` flags that are FALSE |
| `mode`, `timerAPoff`, `age`, `ended` | `WiFi.getMode()`, `timerAPoff`, what `timeOutReached` says of the last attempt, whether a disconnect came since |
| `LoopSetup` .. `ProcessAPmode` | the pass of `loop()`; functions that yield are cut in two |
| `CheckAP`, `CheckIP`, `CheckRetry` | `WifiCheck` |
| `Relaxed`, `Try`, `Begin` | `WiFiConnectRelaxed`, `tryConnectWiFi` |
| `OnConnected`, `OnDisconnect`, `MarkGotIP`, `ClientComes`, `ClientGoes` | callbacks |
| `Wizard*`, `SavesSettings` | pages that change the connection |
| `link`, `target`, `ip`, `near`, `clients` | external: radio and surroundings |

`Yields` lists where callbacks may run.  Two simplifications: the guard of line 577
(no valid settings) is absent from `Try`, because `WiFiConnectRelaxed` checked the
same before calling; callbacks in the delays of `setAP(false)` and `resetWiFi` are
left out, since `WifiCheck` reads nothing they write afterwards.

### `EspRules`

| TLA+ | code |
|---|---|
| `files`, `active` | contents of the rule files, `activeRuleSets` |
| `event`, `sets`, `reading`, `pos` | the event in `rulesProcessing`, the files left of its loop, the file and line of `rulesProcessingFile` |
| `match`, `codeBlock`, `conditional`, `condition`, `ifBranche`, `ifBrancheJustMatch` | the locals of those names |
| `nestingLevel` | the static of `rulesProcessingFile` |
| `queue`, `eventBuffer`, `timer` | commands in `EventQueue`, the event of `handle_control`, `RulesTimer` |
| `job` | the handler that is running, and what it does when `rulesProcessing` returns |
| `BlockStarts` .. `Command` | the cases of `parseCompleteNonCommentLine` and `processMatchedRule` |
| `OpenFile`, `EndFile` | `rulesProcessingFile`, with the early return of `SPIFFS_CHECK` that leaves the level raised |
| `CheckTimers`, `RingTimer`, `EndTimers` | `rulesTimers` |
| `TimerSet`, `TimerPause`, `EndPause`, `TimerResume`, `EndResume` | the timer commands, cut where they process an event |
| `DeleteRules`, `SaveRules`, `UploadRules` | pages of the web server that change rule files |

Files are sequences of lines; a line has a trigger or none, and a body.  The text of a
line (spaces, brackets, substitution of values) is not modelled.  A condition is about
a named value (`cond`), which a plugin's command may change at once, between two
lines.  `branch`, `done`, `ran` and `wanted` are history variables, and so are
`broken`, the files an upload removed and could not open again, and `notFound`, the
times a file of `executerules` or a broken one was asked for and was not there.

### `EspMqtt`

| TLA+ | code |
|---|---|
| `client` | `MQTTclient`, `MQTTclient_037`: link, `pingOutstanding`, the ages of `lastOutActivity` and `lastInActivity`, what has arrived |
| `connected`, `should_reconnect`, `interval`, `due` | `MQTTclient_connected` and `_037_`, `MQTTclient_should_reconnect`, `timermqtt_interval`, the deadline of `TIMER_MQTT` |
| `job` | the attempt to connect that blocks the node |
| `runPeriodicalMQTT`, `MQTTCheck`, `Succeed`, `Refuse`, `Update` | functions of these names, the two ends of `MQTTConnect` once the link is made, and `updateMQTTclient_connected` |
| `ImportLoop`, `ImportCheck`, `ImportConnected`, `SavesImport` | `PLUGIN_TEN_PER_SECOND`, `PLUGIN_ONCE_A_SECOND`, the end of an attempt, `PLUGIN_INIT` of P037 |
| `Loop` | `PubSubClient::loop` |
| `BrokerMoves`, `Drops`, `Resets`, `Arrives`, `Answers`, `WifiGoes`, `WifiComes` | external: broker and network |

Time is counted in beats of five seconds, the step of the back-off.  In a round
(`todo`) every call that is due is served once.  Attempts end at any moment up to
`SocketTimeout`.  `deaf` and `waiting` are history variables that count beats: since
the broker went away from a connection, and since it is in reach again; a new
connection starts both anew.  `refused` is history as well: the link was made, but its
connect message could not be published, so nothing counts it as a connection
(`HalfMade`).

Left out: packets that arrive in pieces or pile up (`readByte` waits for the socket
time-out and `loop` reads one packet; here the polls of a beat read what has arrived),
a second task that uses the import plugin, and the restart by
`ConnectionFailuresThreshold`, which is 0 unless somebody sets it.

`NoticeBound` is `LastRead`, the beats until the poll that reads what arrived last,
and twice a keep-alive (until a ping is sent, until its answer is overdue), each
prolonged by `Blocking`, the three attempts of the import client. `ReconnectBound` is
the longest back-off or, when the old connection died unnoticed, two keep-alives and
the attempt under way.

### `EspStorage`

| TLA+ | code |
|---|---|
| `config`, `security` | `config.dat`, of which only matters whether version and build are those of the firmware; `security.dat`: security settings with their digest |
| `settings`, `data`, `digest` | `Settings`, `SecuritySettings` and its md5 in RAM |
| `day`, `resets`; `warm`, `storedDay`, `storedResets` | `RTC`, and what RTC memory holds |
| `SaveConfig`, `SameSecurity`, `SaveSecurity` | `SaveSettings`, one action per file |
| `flashCount`, `flashGuard`, `flashGuard_NotStored` | functions of these names; `flashGuard_NotStored` is the mutant's |
| `ResetFactory`, `InitConfig` .. `SetDefaults`, `SetDefaultController`, `Reboot` | `ResetFactory`, one action per file it creates or writes; the last write only in builds with `DEFAULT_CONTROLLER` |
| `Start` .. `BuildFixes` | `setup()`: `emergencyReset`, RTC memory, `fileSystemCheck`, `LoadSettings`, the two checks of version and build; `BuildFixes` makes the file of notifications anew, past the flash guard, and saves |
| `SavePage`, `SetupPage`, `SaveArea`, `LoadCommand`, `ResetCommand`, `ClearRTC` | pages and commands |
| `Tick` | `runOncePerSecond` with the daily reset of the counter |
| `Crash`, `PowerFails` | a watchdog keeps RTC memory and flash; a power failure loses RTC memory, may cut a write of `config.dat` (between version and build) or of `security.dat` in two and may leave a file system that does not mount, or no flash |

`failed` and `torn` are history: whether the last write of `security.dat` was refused
or cut short.  `Observe` starts an observer who counts writes for a day.

## Runs

Every configuration is checked exhaustively, for deadlock too: each modelled part can
always go on.  State counts are distinct states.

| Run | States | Question and answer |
|---|---|---|
| `decode` | 1,220 | Is what is shown decoded, from any word, and what do lost words do?  Set point and mode are decoded; a cycle that lost words keeps the old mode or decodes the one shown. |
| `system_serves` | 972,072 | Does the sketch work on the command the plugin waits for?  And is it the remote control of `FancoilService`?  Yes with a sufficient timeout and no losses on the I2C bus, with interrupts between bytes, damaged cycles, missed presses, resets and power cycles. |
| `system_hostile` | 6,866,764 | And without those conditions?  Keys still only drive towards a value some command of that kind asked for. |
| `system_quiet` | 157,504 | Do commands take effect on a keypad left alone?  Yes; presses never pass the target and the power is only toggled on purpose. |
| `system_readings` | 1,051,570 | What does the task come to hold, and do flags come down, without a sufficient timeout?  Only set points decoded or bytes of two of them, and in the end the one shown unless it is 25.5; every flag comes down once the keypad bus talks for good. |
| `sched_timers` | 224,756 | Do timers survive the wrap of the clock, stalls, and pages saved at any moment, as timers on a clock without a wrap would?  Yes. |
| `wifi_dhcp` | 435,203 | Does the node end up connected and its access point switched off, wherever callbacks fall?  Yes with DHCP. |
| `rules` | 502,503 | Does the parser keep count but for files that are not there, run one branch of a chain while its commands change what the chain compares, and do timers that are set, paused and resumed ring once, on time?  Yes. |
| `mqtt` | 879,298 | Do the two clients notice a silent broker and come back to it in bounded time although they block one another?  Yes, within bounds that follow from keep-alive, time-out and back-off, except while a link stands whose connect message was refused. |
| `storage` | 2,426,741 | Do settings survive resets, failures of power and flash and the flash guard?  Saves that report no error are saved, start-ups end with valid settings, the guard holds over any day. |
| `storage_refused`, `storage_defaults` | | Violations, see [Findings](#findings). |

*Bounds.*

- `decode`: four of the 27 set points: both ends beyond the scale (155, 285), a pair
  within a column and the pair across the columns (225).  All modes, all four starting
  words, both values of the free bit, any words lost.  The table has one row per set
  point, and rows do not interact.  The local left uninitialised holds one of three
  representatives: no LED, the LEDs of a set point, LEDs of none; a damaged word is
  one with the prefix of no column.  The theorems of `FancoilDecodeProofs` have none
  of these bounds.
- Fan coil runs: the keypad shows a window of neighbouring set points, since the
  sketch only compares and steps.  The windows are chosen for what is special in them:
  {160, 165} and 160..175 at the lower limit (with 1450, which wraps to 170 in 8 bits,
  and 172, no multiple of five), {250, 255} with the failure value, {255, 260} where
  the high byte changes and torn accesses show.
- Loop counters 3/50/20/10 become 1 to 4: each only has to run out, not run out and be
  exceeded.  `system_quiet` needs as many presses as its window is wide (four) for its
  liveness to be about the code and not about the bound.
- `system_hostile` has one try instead of three and two parameters, because the losses
  multiply the states; that the parameter may change between tries is in
  `system_serves`, and the theorem `TargetsAreRequested` has no bound.
- `system_serves`: the window {255, 260} and damaged cycles that decode to 250, so
  that stores and loads are torn to values nobody showed or asked for.  Nobody else
  uses the keypad, since any change of it could then be the user's and the refinement
  would say nothing of the sketch's presses; the theorem `Implementation` allows it,
  and `system_hostile` has users.
- `system_readings`: one try and one press of each key; set points 25.5 (the failure
  value) and 26.0, whose mixed bytes are 0.4 and 51.1.
- Scheduler: a clock of 12 ms, so that it wraps many times; one task, one interval
  timer with step 2, one plugin timer, task intervals 0 and 3, at most two calls from
  outside or stalls, a stall of at most 5 ms (below half the range, as 25 days are for
  the code).  Three timers are enough for every order of two neighbours and one
  inserted between; two calls are enough for a page saved during the reading another
  call hurried.  `SchedulerMC!Given` names the settings it starts with: one device,
  which pages may change, and a remote feed only on a task that is to be read, where
  it makes a difference.
- WiFi: both credentials filled in or none, one station, three moves of the
  surroundings, the wizard or the clock (an access point comes or goes, the link
  drops, the lease is lost, a connection is slower than the timeout, an answer comes
  in a short window, a page is served).  The radio's normal answers, the callbacks and
  time are not counted.  Three moves are enough to fail, to be rescued and to fail
  again.
- Rules: a clock of eight seconds (the timers run two and three, so they span the
  wrap); two rule files and one that only `executerules` names, each of three
  contents: a chain of two conditions of which the first branch's command changes the
  second condition, a timer that arms itself again, and a pause that is ended from its
  own event.  Two events or changes from outside (saving, deleting or uploading a file
  counts, also an upload that loses it).  Nesting up to three, so that it can be
  exceeded by two levels left behind.  `rulesTimers` is called at least every second
  and at most one command waits while a second passes.
- MQTT: keep-alive of two beats (10 s, the header of the library), socket time-out of
  three (15 s), back-off of up to six (`timermqtt_interval` stops at 30 s). Three
  changes of broker, WiFi, controller or name: lost, back, and lost again.  The proofs
  of both bounds have no limit on any of these.
- Storage: a limit of six writes, just enough for one factory reset (four files and
  two of `SaveSettings`, so that the write of the controller is refused), so that the
  guard refuses during the next; a day of one tick; `DEFAULT_CONTROLLER` set, which
  adds a write to the factory reset (the two runs of the findings have it unset, as it
  is by default); two faults: a reset or crash followed by another.  One user with one
  set of other values.  With three resets allowed and two faults the limit of resets
  is reached by those that start-ups add.

## Fairness

- `FancoilSystem!FairSpec`: `WF(MainRuns)`: the Arduino's processor runs on. Where it
  waits for the keypad's bus the action is disabled, so nothing is assumed of a silent
  bus.  `WF(PluginStep)`: a call of ESPEasy that has started runs on; no assumption
  that anyone starts one.  That the *keypad* registers presses is a constant
  (`Responsive`), used only for `SetTempTakesEffect` and `SetModeTakesEffect`;
  `FlagsAreLowered` and `ReadingsSettle` are checked without it and without
  `WaitSuffices`, so that `delay` ends by the clock at any time.  Both state their
  conditions: that the keypad bus talks for good from some time on, and that what the
  cycles show stays and the task goes on being read.
- `EspScheduler!Fairness`: `WF(Processor)`: `loop()` is called for ever and handlers
  return.  `WF(Tick)`: time passes.  Nothing is assumed of the calls from outside.
- `EspWifi!Fairness`: `WF(Loop \/ Check)`: the processor runs on. `SF(ProcessAPmode /\
  pc' = "check")`: TIMER_1SEC is due again and again, which `TasksAreRead` and
  `KeepsPace` support on the side of the scheduler.  Strong fairness of the radio's
  answers and of the passing of time at the end of `loop()`: both happen there within
  bounded real time, but are disabled between, since the model looks at them only
  where the processor yields.

- `EspRules!Fairness`: `WF(Continue)`: a handler that has begun goes on. `WF(Tick)`.
  Strong fairness of `RunCommand`, `CheckTimers` and `RunBuffer`, since the model
  disables them while another handler runs: `loop()` comes back to the event queue and
  the timers that call `rulesTimers` and the buffer, which `EventsAreHandled` and
  `KeepsPace` support on the side of the scheduler.
- `EspMqtt!Fairness`: `WF(Node \/ Answers \/ Tick)`: as a whole the node serves what
  is due, a broker in reach answers a ping, and time passes; which comes first is
  open.  The broker need not stay.
- `EspStorage!Spec`: `WF(Boot)`: the start-up and a save in progress go on.  Crashes
  and power failures are bounded by `MaxFaults`, or nothing could be promised.

## Findings

1. `storage_refused`: the comment at `Misc.ino:641` says that the flash counter is
   reset so that a factory reset does not hit the limit.  `ResetFactory` clears
   `RTC.flashCounter`, but the guard refuses by `RTC.flashDayCounter`, which
   `readFromRTC` has just brought back.  After a day of more writes than are permitted
   the flash is formatted and then every `InitFile` is refused.
2. `storage_defaults`: `SaveSettings` skips `security.dat` when the digest in RAM is
   that of the data, although `ResetFactory` has just formatted the flash.  A node
   that has the defaults already is left with zeros: no SSID, no key for its own
   access point.

## Observations

Modelling showed more that no document contradicts clearly enough to call it a
finding, or that needs a configuration of its own.  To see one of the first four,
state the property named and change the configuration as said.

- `PLUGIN_READ` tests a 16-bit set point against 255 to detect a failed read.  A
  failed `I2CReadTwoBytes` gives `(-1 * 256) + (-1)`, 65279 in 16 bits, which is
  stored as the set point: `ReadingIsDecoded` in `SystemReadings.cfg` with `Lossy =
  TRUE`.
- `requestEvent` interrupts `decodeData` between the two bytes of `fancoilTemp`;
  between 25.5 and 26.0 degrees the answer is 0.4 or 51.1: in `SystemReadings.cfg` the
  invariant `userTemp \in ShownTemps \cup {0}`.
- The set point 25.5 degrees equals the failure value and is never delivered: in
  `SystemReadings.cfg` `ReadingsSettle` for all of `ShownTemps`.
- With a static address (`Static = TRUE` in `WifiDhcp.cfg`), a disconnect callback
  that comes while `processGotIP` runs rules or asks for the time is overwritten by
  `SERVICES_INITIALIZED`.  Nothing tests the link any more and the node stays offline,
  against `Reconnects`.  With DHCP the missing address gives it away.
- A timed pulse given while no enabled task has the plugin switches its pin, but the
  timer that should switch it back calls nobody, because the plugin is looked up
  through the task index in the timer's data (`Scheduler.ino:170`): `running =
  PluginId(k) => called = PluginOf[k]` in `sched_timers`.
- Rules: an `else` after an `elseif` runs although the `if` of its chain did, since
  the `else` only looks at the last condition, and `ifBrancheJustMatch` makes that
  false (`Misc.ino:2180`).  `OneBranchRuns` is therefore about `if` and `elseif`.
  `executerules` of a file that does not exist leaves `nestingLevel` raised for good
  (`Misc.ino:2004`), and after a few of them every rule is refused.  Uploading a file
  does not refresh `activeRuleSets`; so when the upload has removed a rule file and
  cannot open it again (`WebServer.ino:4192`), every event leaks a level too, until
  rules are saved or deleted.  `NestingLevelIsDepth` counts both (`notFound`).  A rule
  timer whose deadline is the word 0 is lost, since 0 means off (`Misc.ino:2525`).  A
  plugin's command in a rule runs before the other commands that stand before it,
  since those are queued.
- MQTT: when the connect message of a new link cannot be published, `MQTTConnect`
  returns FALSE without updating `MQTTclient_connected` (`Controller.ino:206-212`),
  and `runPeriodicalMQTT` does nothing as long as it finds the link up
  (`ESPEasy.ino:518-523`): the node sends nothing until the link breaks, for example
  by an overdue ping when the back-off was longer than the keep-alive.
- MQTT: the flag that asks for a reconnect under a new name is only looked at when the
  connection is lost (`ESPEasy.ino:518`).  A comment at `ESPEasy.ino:510` speaks of a
  keep-alive of 15 seconds, the library's header says 10. `PubSubClient::loop` checks
  its time-outs before it reads, so an answered ping can still drop a connection after
  the node was blocked.  `MQTTclient_connected` stays set when the controller is
  disabled after its link was closed.
- Storage: `BuildFixes` writes the file of notifications without asking the flash
  guard.  The guard lets up to twice the limit through in 24 hours, since the day ends
  by the uptime, not by the first write.  A refused write of `security.dat` is never
  tried again, because the digest in RAM was replaced before it
  (`ESPEasyStorage.ino:162`).  The second access point and the users of controllers
  survive a factory reset.

## Proofs

Eight modules hold proofs checked by TLAPS, for all values of the constants that meet
the named assumptions of the modules.

**`FancoilProofs`** (about `FancoilSystem!Spec`)

- `TypeCorrect`.  `TypeOK` is not inductive: `tries - 1` stays a natural number only
  because a try is begun with tries left, and what `decodeData` compares is a set
  point only when no store is half done.  `TInv` adds that: `CountersInv` and
  `WholeInv`.
- `FlagsAreCurrent`, `KeysAreServed`, assuming `WaitSuffices` and `~Lossy`.  The
  argument: a flag is up only during the `delay` of the call that raised it, so no
  `receiveEvent` can change `receivedParam` while the main program loads it. `SParts`
  needs, besides the two properties, that the main program is in the part of `loop()`
  of a command only with its flag up (`PhaseInv`), that a half loaded parameter is the
  one received (`LoadInv`), and what the sketch received last before each request
  (`RequestInv`: after a power cycle a request is answered as GET_TEMP and raises no
  flag).
- `TargetsAreRequested`, without those assumptions but with `SeparateParams`: all
  parameters fit a byte and none passes the range test of the other command.  Then a
  torn load is one of the two parameters (`TornBelow256`), and the range tests of
  `setTemp` and `setMode` reject the other command's.  Both conditions are needed: a
  set point above 255 can be torn into one nobody asked for.

The keys, assuming `Undisturbed`: nobody else uses the keypad and its cycles are
decoded correctly (what `FancoilDecodeProofs` proves of whole cycles), `Misreads =
{}`:

- `TargetIsNotPassed` (`NeverPastTheTarget`), for every timeout, lost transaction,
  power cycle and missed press.  The invariant `ShownInv`: outside `readFancoilData`
  the sketch knows what the keypad shows, because every press is followed by a reading
  before the next decision.  The one exception, `LooksAgain`, is the tap of the mode
  key: the loop that waits for the new mode reads before it believes anything.  That a
  step of five does not pass the target then follows from both being multiples of five
  (`StepsReachTargets`).
- `PowerIsCommanded` (`PowerFollowsTheCommand`), assuming `WaitSuffices` and `~Lossy`
  as well: `HoldInv` says for which modes each loop of `setMode` that holds the key is
  entered, `KeysServeTheCommand` that the mode is the command's.

Readings and the refinement:

- `ReadingsAreDecoded` (`ReadingIsDecoded`), `ReadingsAreCurrent`
  (`ReadReturnsSetPoint`, which no run checks), assuming `~Lossy` and nothing about
  set points, damaged cycles, power, user and timeouts.  The first allows the torn
  values (`Found`), the second states the exception of 255.  `ReadInv`: while the
  plugin waits for a set point the sketch has GET_TEMP as its last command, which a
  boot leaves too.  With losses both fail, see [Observations](#observations).
- `Implementation`: `Spec => ImplementsService`, assuming `Orderly`, that is
  `WaitSuffices` and `~Lossy`.  The code ensures neither: a shorter timeout lets
  commands overtake one another, and a lost write repeats the one before.  Initial
  states map to initial ones, each step of the main program (`MainImplements`) and of
  plugin, bus and keypad (`OthersImplement`) to one step of the service or to none.
  Above `TInv`, `SParts` and `ReadInv` it needs `GoalInv`: inside the loops the goal
  has passed the range test, and a request for the mode follows GET_MODE or a boot.

**`FancoilDecodeProofs`** (about `FancoilDecode!Spec`, for any set of set points of
the scale)

- `WordsAreRestored`: `reworkData` unpacks the seven bytes to the four words of 13
  bits they were cut from, for all contents of the words.  `WordOfBits` writes a word
  as the sum of its bits; each byte is then a sum of eight of them, and division and
  remainder of the code pick out its two parts.
- `TypeCorrect`; `DisplayIsDecoded` (`DecodesWhatIsShown`) for all 27 set points, of
  which the run has room for four; `NoiseIsHarmless` (`NoiseKeepsMode`), for every
  `Junk` and `Damaged`.  Besides `WordsAreRestored` they need that the loop of
  `decodeData` finds the word of each column exactly once in whatever rotation
  (`ColumnIsFound`), and that no two rows of the table light the same LEDs
  (`RowsDiffer`), so the row that matches is the row of the set point (`TempIsShown`).
  A damaged word has the prefix of no column and matches none, so a column is found
  once or not at all.

**`EspTimeProofs`**: for every even width of the word, `timeDiff` is the true distance
of moments less than half the range apart (`TimeDiffIsExact`); a tick makes every
deadline one more overdue (`DeadlinesAgeTogether`), so a sorted list stays sorted
while time passes; a task's next deadline is one interval from the old one
(`ChainKeepsItsGrid`); `setNextTimeInterval` gives a deadline that is neither past nor
more than one interval away, on the old grid unless more than an interval was missed
(`IntervalTimerKeepsPace`).  Two words half the range apart are excluded: there
`timeDiff` gives the same answer both ways.

**`EspSchedulerProofs`** (about `EspScheduler!Spec`, for any numbers of tasks and
timers, any width of the clock and any intervals that meet `SchedulerAssumption`)

- The inductive invariant `Inv` has five parts.  `ListInv`: the list is a sequence
  without repeated timers, the words of each entry and of the clock give its true
  lateness, lateness does not increase along the list and stays within half the range.
  `SettingsInv`, `EventsInv`, `LoopInv`: types, and what the handler in progress may
  rely on.  `ChainAlive` itself.
- The argument for the list: `registerAt` removes the old entry, which keeps an order,
  and puts the new one behind exactly those more overdue (`InsertIs`), since
  `timeDiff` is exact for what is queued (`TimeDiffIsExact`); a tick or a stall makes
  all entries later alike (`DeadlinesAgeTogether`), so nothing needs sorting again.
- `Implementation`: `Spec => ImplementsTimers`.  From `Inv` the words of the list are
  the true lateness (`LatenessIs`), so a tick is one millisecond for all timers
  (`TickImplements`), what `handle_schedule` takes is the most overdue timer
  (`DispatchIsHandled`), and each handler and each call from outside sets or drops the
  one timer it is about.  Nothing beyond `SchedulerAssumption` is assumed.
- From `Inv`: `TypeCorrect`, `WrapIsSafe` (`DeadlinesSurviveWrap`), `HeadIsFirst`
  (`MostOverdueFirst`), `ChainsStayAlive` (`ChainAlive`), and of the steps
  `NoTimerIsEarly` (`NeverEarly`, which no run checks, as `ImplementsTimers` says
  more) and `IntervalTimersKeepPace` (`KeepsPace`, from the four cases of
  `setNextTimeInterval`).

**`EspWifiProofs`**: `NoAttemptWhileConnected` (`ReadyToRetry` is inductive by
itself); `NeverConnectsWithInvalid`, whose invariant adds that the selection is valid
from the check in `WiFiConnectRelaxed` on, including when `tryConnectWiFi` goes back
to the first settings or on to the next; and `TypeCorrect`, inductive in four parts
that the provers treat apart.

**`EspRulesProofs`** (about `EspRules!Spec`)

- `AtMostOneBranch`: for every content of the files, at most one `if` or `elseif`
  branch of a chain runs a command, whatever the conditions change to meanwhile. The
  invariant: branches that ran are those of lines already read, and once one ran
  `ifBrancheJustMatch` is up, which keeps the later conditions false.
- `NestingIsCounted`: `nestingLevel` is 1 while a file is read and 0 otherwise, and
  one more for each time a file was not there that `executerules` named or an upload
  lost.  The invariant ties the files still to be read to those that exist: `active`
  claims only existing or broken files, since other uploads can only add to what it
  knows and deleting refreshes it, and no file changes while a job runs.
- `TimersAreOnTime` (`RingsOnTime`): a timer rings after the time it was set for,
  pauses left out, and as long as it runs it is at most `2 * MaxLag` later.
  `CommandsInv` says that the queue only holds commands of the rule files
  (`SourcesFit`: files are sequences, and `executerules` names files of the model,
  which need not exist).  `TimersInv` relates the clock's words to true time: for a
  timer that runs, `TimeDiff` of its `timestamp` and the clock is the time it ran less
  the time wanted, and this is at most the time since `rulesTimers` was last called,
  and `MaxLag` more while a call has not come to the timer yet (`Grace`); for a paused
  timer `interval` is what is left (`Kept`), also while the event of its own pause is
  processed (`IsPausing`).  `TimersFit` is needed: set times, and twice `MaxLag`, are
  within half the range of the clock, 24.8 days; beyond it `timeDiff` takes a deadline
  ahead for one that has passed.

**`EspMqttProofs`** (about `EspMqtt!Spec`, for every keep-alive, socket time-out,
longest back-off and number of moves, with the import client and without)

- `TypeCorrect`, inductive in groups: the ages only stay below their bounds because a
  round ends before time passes.
- `SilenceIsNoticed` (`DeadBrokerNoticed`) and `ReconnectionIsPrompt`
  (`ReconnectsInTime`) count down.  `NoticeLeft` and `ReconnectLeft` say how many
  beats can still pass, from the state of the connection (something unread, ping
  outstanding or not, age of what came last), of the poll, and of the attempts that
  block the node.  Every step that is not a beat leaves the potential as it is or
  makes it smaller, a beat takes one away, and a new connection starts the history
  anew; so history and potential together never exceed the bound (`DeafInv`,
  `WaitingInv`).  `MainInv` says that a link that is up counts as connected, unless
  its connect message was refused, and that its timer is due in the next beat; a
  refused link is no connection to begin with (`WorseIsNoOpener`).
- The proof corrected the bounds, which had only been checked for one set of values:
  without the import client a broker could go unnoticed for one beat more (a poll in
  the same beat reads what had arrived), and a connection that died unnoticed, or
  dropped again and again, was not counted in `ReconnectBound`.

**`EspStorageProofs`** (about `EspStorage!Spec`)

- `TypeCorrect`, inductive except that the counters are only bounded because the guard
  and the limit of resets are asked before they are raised.
- `AtMostTwice`.  `FlashInv` relates the observer's count to `day`: in the observer's
  first day it is at most `day` after the count started, and once the daily reset has
  come in between it is at most one day's limit more.  Restarts read the counter back
  from RTC memory, which every count is saved to.
- `StartsValid`: `Checked` says that after the version check the settings are valid
  unless the flash is dead or the last reset was refused.
- `SavedMeansSaved`: the digest in RAM is that of what the file holds unless a write
  of it failed or was cut short (`FileInv`, `DigestInv`); so a save that is skipped
  because of the digest has nothing to write.

*Only model-checked*: all liveness, since the prover has no rule for fairness:
`SetTempTakesEffect`, `SetModeTakesEffect`, `FlagsAreLowered`, `ReadingsSettle`,
`TasksAreRead`, `EventsAreHandled`, `Reconnects`, `AccessPointGoesOff`, `TimersRing`,
`StaysConnected`, `StartsUp`. Every invariant a run checks, and every action property,
is a theorem.

## What is not modelled

- Web pages, text commands, the console, log output and formats: they compute texts or
  call the parts above.  The calls that matter (saving a device, saving settings, the
  wizard, pulse commands) are actions of `EspScheduler` and `EspWifi`.
- Node list, syslog, SSDP and the clock (NTP, daylight saving, clock events): in the
  [plan](#plan).
- Of the rule engine: the text of lines and expressions.  Of MQTT: messages,
  subscriptions, the connections of controllers that are not MQTT, and the delay in
  `sendData`, during which pages are served and may change what it sends.  Of the
  storage: the cache `ExtraTaskSettings`, files that are uploaded (nothing guards
  their writes), firmware updates.
- Deep sleep; the ESP32 variant; the scan for access points and the commands that
  change the WiFi; `connectionCheckHandler`.
- Drivers of hardware the fan coil does not use, vendored libraries, build products,
  test scripts for a flashed node.
- Times: the lengths of the key pulses and delays of the sketch.  That a held key
  toggles the power once, and a tapped one steps the mode, is taken from how `setMode`
  uses them.
