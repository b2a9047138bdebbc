---------------------------- MODULE FancoilSystem ---------------------------
(***************************************************************************)
(* The ESPEasy plugin P201 (the I2C master) and the Arduino sketch (the    *)
(* slave) on one bus.  The plugin runs one PLUGIN_READ or PLUGIN_WRITE at  *)
(* a time: ESPEasy is single threaded and delay() does not return to its   *)
(* loop.  A transaction on the bus runs the sketch's handler in the same   *)
(* step, or is lost: the plugin ignores what endTransmission and           *)
(* requestFrom return.                                                     *)
(***************************************************************************)
EXTENDS FancoilSketch

CONSTANTS
  TempParams,    \* parameters of FancoilSetTemp commands
  ModeParams,    \* parameters of FancoilSetMode commands
  Lossy,         \* TRUE: a bus transaction may fail
  WaitSuffices   \* TRUE: the timeout chosen for the task outlasts the
                 \* sketch's work; the code takes 1000 to 65535 ms as entered

ASSUME SystemAssumption ==
  /\ TempParams \subseteq Word16 /\ ModeParams \subseteq Word16
  /\ Lossy \in BOOLEAN /\ WaitSuffices \in BOOLEAN
  /\ WaitSuffices => ~MayDisconnect

VARIABLES
  stage,      \* where Plugin_201 is
  op,         \* the command it serves: [cmd, param]
  userTemp,   \* UserVar[BaseVarIndex]
  userMode,   \* UserVar[BaseVarIndex + 1]
  success     \* what the call returns

pluginVars == <<stage, op, userTemp, userMode, success>>
vars == <<sketchVars, pluginVars>>

NoOp == [cmd |-> "none", param |-> 0]
Ops == {NoOp, [cmd |-> "read", param |-> 0], [cmd |-> "other", param |-> 0],
        [cmd |-> "reset", param |-> 0]}
       \cup [cmd : {"setTemp"}, param : TempParams]
       \cup [cmd : {"setMode"}, param : ModeParams]
CommandByte(o) ==
  CASE o.cmd = "setTemp" -> SET_TEMP [] o.cmd = "setMode" -> SET_MODE [] OTHER -> RESET

-----------------------------------------------------------------------------
(* The bus.  Of a lost request the master reads -1 for every byte; of one  *)
(* shorter than asked for, the bus idles high and the rest reads 255.      *)

BusWrite(cmd, hasParam, p) ==
  ReceiveEvent(cmd, hasParam, p) \/ (Lossy /\ UNCHANGED sketchVars)

ByteOfReply(i) == IF i <= Len(Reply) THEN Reply[i] ELSE 255

\* Mutated: low byte first.
WordRead_Swapped == TwoBytes(ByteOfReply(2), ByteOfReply(1))
WordRead == TwoBytes(ByteOfReply(1), ByteOfReply(2))
LostWord == 65536 - 257   \* (-1 * 256) + (-1) in a uint16_t
LostByte == 255           \* -1 in a uint8_t
-----------------------------------------------------------------------------
(* PLUGIN_READ: getFancoilTemp, then getFancoilMode.                       *)

Begin(o, at) ==
  /\ stage = "idle"
  /\ stage' = at /\ op' = o /\ success' = FALSE
  /\ UNCHANGED <<userTemp, userMode, sketchVars>>

PluginRead == Begin([cmd |-> "read", param |-> 0], "tempWrite")

WriteGetTemp ==
  /\ stage = "tempWrite"
  /\ BusWrite(GET_TEMP, FALSE, 0)
  /\ stage' = "tempRequest"
  /\ UNCHANGED <<op, userTemp, userMode, success>>

\* Mutated: everything from 255 up taken for a failure.
TempAnswer_HighFails(v) ==
  /\ userTemp' = IF v < 255 THEN v ELSE userTemp
  /\ success' = (v # 255)

TempAnswer(v) ==
  /\ userTemp' = IF v # 255 THEN v ELSE userTemp
  /\ success' = (v # 255)

RequestTemp ==
  /\ stage = "tempRequest"
  /\ \/ RequestEvent /\ TempAnswer(WordRead)
     \/ Lossy /\ UNCHANGED sketchVars /\ TempAnswer(LostWord)
  /\ stage' = "modeWrite"
  /\ UNCHANGED <<op, userMode>>

WriteGetMode ==
  /\ stage = "modeWrite"
  /\ BusWrite(GET_MODE, FALSE, 0)
  /\ stage' = "modeRequest"
  /\ UNCHANGED <<op, userTemp, userMode, success>>

ModeAnswer(v) ==
  /\ userMode' = IF v # 255 THEN v ELSE userMode
  /\ success' = (v # 255)

RequestMode ==
  /\ stage = "modeRequest"
  /\ \/ RequestEvent /\ ModeAnswer(ByteOfReply(1))
     \/ Lossy /\ UNCHANGED sketchVars /\ ModeAnswer(LostByte)
  /\ stage' = "idle" /\ op' = NoOp
  /\ UNCHANGED userTemp
-----------------------------------------------------------------------------
(* PLUGIN_WRITE.  A command that is not the fan coil's still waits.        *)

PluginWrite ==
  \E o \in Ops : o.cmd \in {"setTemp", "setMode", "reset"} /\ Begin(o, "write")

OtherCommand == Begin([cmd |-> "other", param |-> 0], "delay")

WriteCommand ==
  /\ stage = "write"
  /\ BusWrite(CommandByte(op), op.cmd # "reset", op.param)
  /\ stage' = "request"
  /\ UNCHANGED <<op, userTemp, userMode, success>>

RequestAck ==
  /\ stage = "request"
  /\ RequestEvent \/ (Lossy /\ UNCHANGED sketchVars)
  /\ stage' = "delay" /\ success' = TRUE
  /\ UNCHANGED <<op, userTemp, userMode>>

SketchServed == setTempFlag = 0 /\ setModeFlag = 0 /\ resetFlag = 0

\* Mutated: no delay.
EndDelay_AtOnce ==
  /\ stage = "delay"
  /\ stage' = "idle" /\ op' = NoOp
  /\ UNCHANGED <<userTemp, userMode, success, sketchVars>>

(* delay(timeout) ends by the clock, whatever the sketch does meanwhile;   *)
(* a sufficient timeout ends when the sketch has served the command.       *)
EndDelay ==
  /\ stage = "delay"
  /\ WaitSuffices => SketchServed
  /\ stage' = "idle" /\ op' = NoOp
  /\ UNCHANGED <<userTemp, userMode, success, sketchVars>>
-----------------------------------------------------------------------------
PluginStep ==
  \/ WriteGetTemp \/ RequestTemp \/ WriteGetMode \/ RequestMode
  \/ WriteCommand \/ RequestAck \/ EndDelay
Caller == PluginRead \/ PluginWrite \/ OtherCommand

Init ==
  /\ SketchInit
  /\ stage = "idle" /\ op = NoOp
  /\ userTemp = 0 /\ userMode = 0 /\ success = FALSE

Next ==
  \/ (Main \/ PowerCycle \/ Keypad) /\ UNCHANGED pluginVars
  \/ PluginStep
  \/ Caller

Spec == Init /\ [][Next]_vars

(* The processor of the Arduino runs on, and ESPEasy's call does.          *)
MainRuns == Main /\ UNCHANGED pluginVars
FairSpec == Spec /\ WF_vars(MainRuns) /\ WF_vars(PluginStep)
-----------------------------------------------------------------------------
Stages == {"idle", "tempWrite", "tempRequest", "modeWrite", "modeRequest",
           "write", "request", "delay"}

TypeOK ==
  /\ SketchTypeOK
  /\ stage \in Stages /\ op \in Ops
  /\ userTemp \in Word16 /\ userMode \in Byte
  /\ success \in BOOLEAN

Reading == {"read", "store1", "store2"}
InTempLoop == pc \in {"plus", "minus"} \/ (pc \in Reading /\ ret \in {"plus", "minus"})
InModeLoop ==
  \/ pc \in {"off", "wake", "cycle", "poll"}
  \/ pc \in Reading /\ ret \in {"off", "wake", "poll"}

(* With a timeout that outlasts the sketch and a bus that loses nothing,   *)
(* the one flag that is up belongs to the PLUGIN_WRITE still in delay(),   *)
(* and receivedParam, which both commands share, still holds its value.    *)
ServedIsCurrent ==
  /\ setTempFlag = 1 => stage = "delay" /\ op.cmd = "setTemp" /\ receivedParam = op.param
  /\ setModeFlag = 1 => stage = "delay" /\ op.cmd = "setMode" /\ receivedParam = op.param
  /\ resetFlag = 1 => stage = "delay" /\ op.cmd = "reset"

(* Under the same conditions setTemp and setMode only press keys for the   *)
(* command in progress, with its whole parameter and never a torn one.     *)
KeysServeTheCommand ==
  /\ InTempLoop => stage = "delay" /\ op.cmd = "setTemp" /\ param = op.param
  /\ InModeLoop => stage = "delay" /\ op.cmd = "setMode" /\ param = op.param

(* Whatever the timeout, the losses and the order of commands, setTemp and *)
(* setMode only ever drive towards a value some command of that kind asked *)
(* for: a mode number overwriting a pending set point, or the reverse, is  *)
(* stopped by the range tests, as long as no parameter needs a high byte.  *)
TargetsWereRequested ==
  /\ InTempLoop => param \in TempParams
  /\ InModeLoop => param \in ModeParams

(* setTemp on an accurate display nobody else touches: each press moves    *)
(* the set point closer to the target and never past it.                   *)
NeverPastTheTarget ==
  [][ panel'.temp # panel.temp =>
        \/ panel.temp < panel'.temp /\ panel'.temp <= Quantise(param)
        \/ panel.temp > panel'.temp /\ panel'.temp >= Quantise(param) ]_vars

(* setMode on such a display: the power is only toggled to serve a command *)
(* for the state it leads to, off for mode 0 and on for the others.        *)
PowerFollowsTheCommand ==
  [][ (panel'.mode = POWER_OFF) # (panel.mode = POWER_OFF) =>
        (panel'.mode = POWER_OFF) = (op.param = POWER_OFF) /\ op.cmd = "setMode" ]_vars

(* A flag requestEvent raised is lowered by loop(), although the keypad    *)
(* may ignore every press, the timeout may be too short, further commands  *)
(* arrive and the power fails: every loop of setTemp and setMode is        *)
(* bounded.  The condition is on the keypad bus, which readSPI and         *)
(* readPrefix wait for without a bound: from some time on it carries words.*)
FlagsAreLowered ==
  <>[]talking =>
    []<>(setTempFlag = 0) /\ []<>(setModeFlag = 0) /\ []<>(resetFlag = 0)

(* On a keypad that registers presses, in quiet, FancoilSetTemp with a     *)
(* multiple of five the keypad can show ends with that set point shown.    *)
SetTempTakesEffect ==
  \A t \in TempParams \cap ShownTemps \cap MIN_TEMP..MAX_TEMP :
    (stage = "delay" /\ op = [cmd |-> "setTemp", param |-> t]) ~> (panel.temp = t)

(* The same of FancoilSetMode, from off, to off, and between modes.        *)
SetModeTakesEffect ==
  \A m \in ModeParams \cap ShownModes :
    (stage = "delay" /\ op = [cmd |-> "setMode", param |-> m]) ~> (panel.mode = m)

(* What a request may find in fancoilTemp: a whole set point, or the bytes *)
(* of two of them when it falls between the two bytes of a store.          *)
Found == Decoded \cup UNION {Torn(old, new) : old, new \in Decoded}

(* PLUGIN_READ on an I2C bus that loses nothing: UserVar only ever holds a *)
(* set point decodeData stored, the 0 of the boot, or the bytes of two of  *)
(* these mixed by a store the request cut in two, as of 255 and 260.       *)
ReadingIsDecoded == userTemp \in Found

(* Such a PLUGIN_READ stores what the sketch holds at the moment of the    *)
(* request, except 255: that it takes for a failure and keeps the value    *)
(* it has (_P201_Fancoil.ino, PLUGIN_READ).                                *)
ReadReturnsSetPoint ==
  [][ stage = "tempRequest" /\ stage' = "modeWrite" =>
        userTemp' = IF fancoilTemp = 255 THEN userTemp ELSE fancoilTemp ]_vars

(* Torn, stale and misread values do not stay: once every cycle the sketch *)
(* takes shows one set point, and the task goes on being read, UserVar     *)
(* comes to hold it for good, unless it is 25.5 degrees, that is 255.      *)
ReadingsSettle ==
  \A t \in ShownTemps \ {255} :
    <>[](sampled.temp = t) /\ []<>(stage = "tempRequest") => <>[](userTemp = t)

=============================================================================
