---------------------------- MODULE FancoilSketch ---------------------------
(***************************************************************************)
(* The Arduino sketch: loop() with setTemp, setMode and readFancoilData,   *)
(* interrupted at any point by the two I2C handlers receiveEvent and       *)
(* requestEvent, next to the fan coil's keypad (external), which shows the *)
(* set point and the mode and reacts to simulated key presses.             *)
(*                                                                         *)
(* The main program is a program counter and one action per stretch of     *)
(* code between two points where an interrupt or the keypad can matter.    *)
(* fancoilTemp and receivedParam are 16-bit and the processor moves one    *)
(* byte at a time, so a store of the first and a load of the second take   *)
(* two steps each (Torn).                                                  *)
(***************************************************************************)
EXTENDS FancoilCodec

CONSTANTS
  ShownTemps,      \* set points the keypad shows
  ShownModes,      \* fan modes the keypad shows
  Tries,           \* calls of setTemp or setMode per command: 3
  TempPresses,     \* presses of plus and minus per setTemp: 50
  ModePresses,     \* rounds of each loop of setMode: 20
  Polls,           \* reads per round of the mode key: 10
  Responsive,      \* TRUE: the keypad registers every simulated press
  Misreads,        \* set points a damaged cycle may decode to (FancoilDecode);
                   \* {}: no cycle is damaged
  UserActive,      \* TRUE: somebody uses the keypad
  MayDisconnect,   \* TRUE: the keypad bus may fall silent
  MayPowerCycle    \* TRUE: the board may lose power and boot again

ASSUME ShownAssumption ==
  /\ ShownTemps # {} /\ ShownTemps \subseteq TempCodes
  /\ POWER_OFF \in ShownModes /\ ShownModes \subseteq Modes
  /\ Misreads \subseteq TempCodes
ASSUME BoundAssumption ==
  /\ Tries \in Nat \ {0} /\ TempPresses \in Nat \ {0}
  /\ ModePresses \in Nat \ {0} /\ Polls \in Nat \ {0}
ASSUME SwitchAssumption ==
  /\ Responsive \in BOOLEAN /\ UserActive \in BOOLEAN
  /\ MayDisconnect \in BOOLEAN /\ MayPowerCycle \in BOOLEAN

VARIABLES
  pc,             \* where loop() is
  ret,            \* where readFancoilData returns to
  sampled,        \* the set point and mode in the cycle being decoded
  fancoilTemp, fancoilMode,
  setTempFlag, setModeFlag, resetFlag,
  receiveCmd, receivedParam,
  param,          \* receivedParam as loaded by the main program
  tries, presses, polls,
  panel,          \* external: what the keypad shows
  talking         \* external: the keypad bus carries words

mainVars == <<pc, ret, sampled, fancoilTemp, fancoilMode, param, tries, presses, polls>>
flagVars == <<setTempFlag, setModeFlag, resetFlag>>
isrVars == <<receiveCmd, receivedParam>>
envVars == <<panel, talking>>
sketchVars == <<mainVars, flagVars, isrVars, envVars>>

GET_TEMP == 0
GET_MODE == 1
SET_TEMP == 2
SET_MODE == 3
INC_TEMP == 4
DEC_TEMP == 5
RESET == 6
Commands == {GET_TEMP, GET_MODE, SET_TEMP, SET_MODE, INC_TEMP, DEC_TEMP, RESET}

Panels == [temp : ShownTemps, mode : ShownModes]

(* The values a 16-bit access cut in two by an interrupt can yield.        *)
Torn(old, new) == {TwoBytes(Hi(old), Lo(new)), TwoBytes(Hi(new), Lo(old))}

-----------------------------------------------------------------------------
(* The keypad.                                                             *)

Up(t) == IF t + 5 \in ShownTemps THEN t + 5 ELSE t
Down(t) == IF t - 5 \in ShownTemps THEN t - 5 ELSE t
NextMode(m) ==
  LET on == ShownModes \ {POWER_OFF}
      above == {k \in on : k > m}
      least(S) == CHOOSE k \in S : \A j \in S : k <= j
  IN  IF above # {} THEN least(above) ELSE least(on)

(* What the keypad shows after a simulated press meant to take it to p.    *)
Pressed(p) == panel' \in {p} \cup (IF Responsive THEN {} ELSE {panel})

PlusKey == Pressed([panel EXCEPT !.temp = Up(@)])
MinusKey == Pressed([panel EXCEPT !.temp = Down(@)])
(* Held, the mode key toggles the power; tapped, it steps through the modes. *)
HoldModeKey ==
  IF panel.mode = POWER_OFF
  THEN \E m \in ShownModes \ {POWER_OFF} : Pressed([panel EXCEPT !.mode = m])
  ELSE Pressed([panel EXCEPT !.mode = POWER_OFF])
TapModeKey ==
  Pressed(IF panel.mode = POWER_OFF THEN panel ELSE [panel EXCEPT !.mode = NextMode(@)])

UserKey ==
  /\ UserActive
  /\ panel' \in Panels
  /\ UNCHANGED <<mainVars, flagVars, isrVars, talking>>

BusFalls ==
  /\ MayDisconnect /\ talking
  /\ talking' = FALSE
  /\ UNCHANGED <<mainVars, flagVars, isrVars, panel>>

BusReturns ==
  /\ ~talking
  /\ talking' = TRUE
  /\ UNCHANGED <<mainVars, flagVars, isrVars, panel>>
-----------------------------------------------------------------------------
(* The state the C run time and setup() leave; resetFunc() jumps there.    *)
Booted ==
  /\ pc' = "read" /\ ret' = "ifTemp"
  /\ sampled' = [temp |-> 0, mode |-> 0]
  /\ fancoilTemp' = 0 /\ fancoilMode' = 0
  /\ setTempFlag' = 0 /\ setModeFlag' = 0 /\ resetFlag' = 0
  /\ receiveCmd' = GET_TEMP /\ receivedParam' = 0
  /\ param' = 0 /\ tries' = 0 /\ presses' = 0 /\ polls' = 0

SketchInit ==
  /\ pc = "read" /\ ret = "ifTemp"
  /\ sampled = [temp |-> 0, mode |-> 0]
  /\ fancoilTemp = 0 /\ fancoilMode = 0
  /\ setTempFlag = 0 /\ setModeFlag = 0 /\ resetFlag = 0
  /\ receiveCmd = GET_TEMP /\ receivedParam = 0
  /\ param = 0 /\ tries = 0 /\ presses = 0 /\ polls = 0
  /\ panel \in Panels
  /\ talking = TRUE

PowerCycle == MayPowerCycle /\ Booted /\ UNCHANGED envVars

Goto(label) == pc' = label /\ UNCHANGED ret
(* Call readFancoilData, to go on at label.                                *)
ReadThen(label) == pc' = "read" /\ ret' = label

(* A damaged cycle decodes to a set point of the table nobody chose, left  *)
(* in val1 by the stack, or leaves the last one in place.                  *)
Misread ==
  IF Misreads = {} THEN {}
  ELSE [temp : Misreads \cup {fancoilTemp}, mode : ShownModes \cup {fancoilMode}]

(* readFancoilData: readSPI waits for the bus and takes one cycle,         *)
(* decodeData stores the mode and the two bytes of the set point.          *)
ReadSPI ==
  /\ pc = "read" /\ talking
  /\ sampled' \in {panel} \cup Misread
  /\ Goto("store1")
  /\ UNCHANGED <<fancoilTemp, fancoilMode, param, tries, presses, polls,
                 flagVars, isrVars, envVars>>

StoreFirstByte ==
  /\ pc = "store1"
  /\ fancoilMode' = sampled.mode
  /\ fancoilTemp' \in Torn(fancoilTemp, sampled.temp)
  /\ Goto("store2")
  /\ UNCHANGED <<sampled, param, tries, presses, polls, flagVars, isrVars, envVars>>

StoreSecondByte ==
  /\ pc = "store2"
  /\ fancoilTemp' = sampled.temp
  /\ Goto(ret)
  /\ UNCHANGED <<sampled, fancoilMode, param, tries, presses, polls,
                 flagVars, isrVars, envVars>>
-----------------------------------------------------------------------------
(* loop(): the set point command.                                          *)

\* Mutated: the flag is taken down before the work.
TestTempFlag_ClearsFirst ==
  /\ pc = "ifTemp"
  /\ setTempFlag' = 0
  /\ IF setTempFlag = 1 THEN tries' = Tries /\ Goto("tempTest")
                        ELSE UNCHANGED tries /\ Goto("ifMode")
  /\ UNCHANGED <<sampled, fancoilTemp, fancoilMode, param, presses, polls,
                 setModeFlag, resetFlag, isrVars, envVars>>

TestTempFlag ==
  /\ pc = "ifTemp"
  /\ IF setTempFlag = 1 THEN tries' = Tries /\ Goto("tempTest")
                        ELSE UNCHANGED tries /\ Goto("ifMode")
  /\ UNCHANGED <<sampled, fancoilTemp, fancoilMode, param, presses, polls,
                 flagVars, isrVars, envVars>>

\* Mutated: the tries are not bounded.
TempTest_Unbounded ==
  /\ pc = "tempTest"
  /\ param' = receivedParam /\ Goto("tempLoad")
  /\ UNCHANGED <<sampled, fancoilTemp, fancoilMode, tries, presses, polls,
                 flagVars, isrVars, envVars>>

(* counter > 0, then the first byte of receivedParam.                      *)
TempTest ==
  /\ pc = "tempTest"
  /\ IF tries > 0 THEN param' = receivedParam /\ Goto("tempLoad")
                  ELSE UNCHANGED param /\ Goto("tempClear")
  /\ UNCHANGED <<sampled, fancoilTemp, fancoilMode, tries, presses, polls,
                 flagVars, isrVars, envVars>>

(* Its second byte, fancoilTemp != receivedParam, and setTemp's own test.  *)
SetTemp ==
  /\ pc = "tempLoad"
  /\ param' \in Torn(param, receivedParam)
  /\ IF fancoilTemp = param' THEN UNCHANGED <<tries, presses>> /\ Goto("tempClear")
     ELSE IF fancoilTemp # Quantise(param') /\ InTempRange(Quantise(param'))
          THEN UNCHANGED tries /\ presses' = TempPresses /\ Goto("plus")
          ELSE UNCHANGED presses /\ tries' = tries - 1 /\ ReadThen("tempTest")
  /\ UNCHANGED <<sampled, fancoilTemp, fancoilMode, polls, flagVars, isrVars, envVars>>

\* Mutated: <= for <.
PressPlus_Inclusive ==
  /\ pc = "plus" /\ fancoilTemp <= Quantise(param) /\ presses > 0 /\ talking
  /\ PlusKey
  /\ presses' = presses - 1
  /\ ReadThen("plus")
  /\ UNCHANGED <<sampled, fancoilTemp, fancoilMode, param, tries, polls,
                 flagVars, isrVars, talking>>

PressPlus ==
  /\ pc = "plus" /\ fancoilTemp < Quantise(param) /\ presses > 0 /\ talking
  /\ PlusKey
  /\ presses' = presses - 1
  /\ ReadThen("plus")
  /\ UNCHANGED <<sampled, fancoilTemp, fancoilMode, param, tries, polls,
                 flagVars, isrVars, talking>>

EndPlus ==
  /\ pc = "plus" /\ ~(fancoilTemp < Quantise(param) /\ presses > 0)
  /\ Goto("minus")
  /\ UNCHANGED <<sampled, fancoilTemp, fancoilMode, param, tries, presses, polls,
                 flagVars, isrVars, envVars>>

PressMinus ==
  /\ pc = "minus" /\ fancoilTemp > Quantise(param) /\ presses > 0 /\ talking
  /\ MinusKey
  /\ presses' = presses - 1
  /\ ReadThen("minus")
  /\ UNCHANGED <<sampled, fancoilTemp, fancoilMode, param, tries, polls,
                 flagVars, isrVars, talking>>

\* Mutated: the try is not counted.
EndMinus_NotCounted ==
  /\ pc = "minus" /\ ~(fancoilTemp > Quantise(param) /\ presses > 0)
  /\ presses' = 0
  /\ ReadThen("tempTest")
  /\ UNCHANGED <<sampled, fancoilTemp, fancoilMode, param, tries, polls,
                 flagVars, isrVars, envVars>>

(* setTemp returns: loop() reads again and counts one try.                 *)
EndMinus ==
  /\ pc = "minus" /\ ~(fancoilTemp > Quantise(param) /\ presses > 0)
  /\ presses' = 0 /\ tries' = tries - 1
  /\ ReadThen("tempTest")
  /\ UNCHANGED <<sampled, fancoilTemp, fancoilMode, param, polls,
                 flagVars, isrVars, envVars>>

ClearTempFlag ==
  /\ pc = "tempClear"
  /\ setTempFlag' = 0 /\ tries' = 0 /\ param' = 0
  /\ Goto("ifMode")
  /\ UNCHANGED <<sampled, fancoilTemp, fancoilMode, presses, polls,
                 setModeFlag, resetFlag, isrVars, envVars>>
-----------------------------------------------------------------------------
(* loop(): the mode command.                                               *)

TestModeFlag ==
  /\ pc = "ifMode"
  /\ IF setModeFlag = 1 THEN tries' = Tries /\ Goto("modeTest")
                        ELSE UNCHANGED tries /\ Goto("ifReset")
  /\ UNCHANGED <<sampled, fancoilTemp, fancoilMode, param, presses, polls,
                 flagVars, isrVars, envVars>>

ModeTest ==
  /\ pc = "modeTest"
  /\ IF tries > 0 THEN param' = receivedParam /\ Goto("modeLoad")
                  ELSE UNCHANGED param /\ Goto("modeClear")
  /\ UNCHANGED <<sampled, fancoilTemp, fancoilMode, tries, presses, polls,
                 flagVars, isrVars, envVars>>

SetMode ==
  /\ pc = "modeLoad"
  /\ param' \in Torn(param, receivedParam)
  /\ IF fancoilMode = param' THEN UNCHANGED <<tries, presses>> /\ Goto("modeClear")
     ELSE IF InModeRange(param')
          THEN /\ UNCHANGED tries /\ presses' = ModePresses
               /\ Goto(IF param' = POWER_OFF THEN "off"
                       ELSE IF fancoilMode = POWER_OFF THEN "wake" ELSE "cycle")
          ELSE UNCHANGED presses /\ tries' = tries - 1 /\ ReadThen("modeTest")
  /\ UNCHANGED <<sampled, fancoilTemp, fancoilMode, polls, flagVars, isrVars, envVars>>

(* 50 presses without a pause between two reads: the key is held.          *)
HoldOff ==
  /\ pc = "off" /\ fancoilMode # param /\ presses > 0 /\ talking
  /\ HoldModeKey
  /\ presses' = presses - 1
  /\ ReadThen("off")
  /\ UNCHANGED <<sampled, fancoilTemp, fancoilMode, param, tries, polls,
                 flagVars, isrVars, talking>>

\* Mutated: the key is held whatever the mode.
HoldWake_AnyMode ==
  /\ pc = "wake" /\ presses > 0 /\ talking
  /\ HoldModeKey
  /\ presses' = presses - 1
  /\ ReadThen("wake")
  /\ UNCHANGED <<sampled, fancoilTemp, fancoilMode, param, tries, polls,
                 flagVars, isrVars, talking>>

(* The key line is held low for a second.                                  *)
HoldWake ==
  /\ pc = "wake" /\ fancoilMode = POWER_OFF /\ presses > 0 /\ talking
  /\ HoldModeKey
  /\ presses' = presses - 1
  /\ ReadThen("wake")
  /\ UNCHANGED <<sampled, fancoilTemp, fancoilMode, param, tries, polls,
                 flagVars, isrVars, talking>>

EndWake ==
  /\ pc = "wake" /\ ~(fancoilMode = POWER_OFF /\ presses > 0)
  /\ presses' = ModePresses
  /\ Goto("cycle")
  /\ UNCHANGED <<sampled, fancoilTemp, fancoilMode, param, tries, polls,
                 flagVars, isrVars, envVars>>

(* 10 presses, then up to Polls reads for the new mode to show.            *)
TapCycle ==
  /\ pc = "cycle" /\ fancoilMode # param /\ presses > 0 /\ talking
  /\ TapModeKey
  /\ polls' = Polls
  /\ Goto("poll")
  /\ UNCHANGED <<sampled, fancoilTemp, fancoilMode, param, tries, presses,
                 flagVars, isrVars, talking>>

Poll ==
  /\ pc = "poll" /\ polls > 0 /\ fancoilMode # param
  /\ polls' = polls - 1
  /\ ReadThen("poll")
  /\ UNCHANGED <<sampled, fancoilTemp, fancoilMode, param, tries, presses,
                 flagVars, isrVars, envVars>>

EndPoll ==
  /\ pc = "poll" /\ ~(polls > 0 /\ fancoilMode # param)
  /\ polls' = 0 /\ presses' = presses - 1
  /\ Goto("cycle")
  /\ UNCHANGED <<sampled, fancoilTemp, fancoilMode, param, tries,
                 flagVars, isrVars, envVars>>

(* setMode returns.                                                        *)
EndSetMode ==
  /\ pc \in {"off", "cycle"} /\ ~(fancoilMode # param /\ presses > 0)
  /\ presses' = 0 /\ tries' = tries - 1
  /\ ReadThen("modeTest")
  /\ UNCHANGED <<sampled, fancoilTemp, fancoilMode, param, polls,
                 flagVars, isrVars, envVars>>

ClearModeFlag ==
  /\ pc = "modeClear"
  /\ setModeFlag' = 0 /\ tries' = 0 /\ param' = 0
  /\ Goto("ifReset")
  /\ UNCHANGED <<sampled, fancoilTemp, fancoilMode, presses, polls,
                 setTempFlag, resetFlag, isrVars, envVars>>
-----------------------------------------------------------------------------
(* resetFunc() jumps to address 0: everything starts again.                *)
ResetFunc == pc = "ifReset" /\ resetFlag = 1 /\ Booted /\ UNCHANGED envVars

(* delay(1000), and loop() again.                                          *)
Idle ==
  /\ pc = "ifReset" /\ resetFlag = 0
  /\ ReadThen("ifTemp")
  /\ UNCHANGED <<sampled, fancoilTemp, fancoilMode, param, tries, presses, polls,
                 flagVars, isrVars, envVars>>

Main ==
  \/ ReadSPI \/ StoreFirstByte \/ StoreSecondByte
  \/ TestTempFlag \/ TempTest \/ SetTemp
  \/ PressPlus \/ EndPlus \/ PressMinus \/ EndMinus \/ ClearTempFlag
  \/ TestModeFlag \/ ModeTest \/ SetMode
  \/ HoldOff \/ HoldWake \/ EndWake \/ TapCycle \/ Poll \/ EndPoll
  \/ EndSetMode \/ ClearModeFlag
  \/ ResetFunc \/ Idle

Keypad == UserKey \/ BusFalls \/ BusReturns
-----------------------------------------------------------------------------
(* receiveEvent: the bytes of a write from the master, cmd alone or cmd    *)
(* and a two byte parameter.                                               *)
ReceiveEvent(cmd, hasParam, p) ==
  /\ receiveCmd' = cmd
  /\ receivedParam' = IF hasParam THEN p ELSE receivedParam
  /\ UNCHANGED <<mainVars, flagVars, envVars>>

(* The bytes requestEvent writes, and the flag it raises.                  *)
Reply ==
  CASE receiveCmd = GET_TEMP -> <<Hi(fancoilTemp), Lo(fancoilTemp)>>
    [] receiveCmd = GET_MODE -> <<fancoilMode>>
    [] receiveCmd \in {SET_TEMP, SET_MODE, RESET} -> <<1>>
    [] OTHER -> <<>>

RequestEvent ==
  /\ setTempFlag' = IF receiveCmd = SET_TEMP THEN 1 ELSE setTempFlag
  /\ setModeFlag' = IF receiveCmd = SET_MODE THEN 1 ELSE setModeFlag
  /\ resetFlag' = IF receiveCmd = RESET THEN 1 ELSE resetFlag
  /\ UNCHANGED <<mainVars, isrVars, envVars>>
-----------------------------------------------------------------------------
Labels ==
  {"read", "store1", "store2", "ifTemp", "tempTest", "tempLoad", "plus", "minus",
   "tempClear", "ifMode", "modeTest", "modeLoad", "off", "wake", "cycle", "poll",
   "modeClear", "ifReset"}
ReturnLabels ==
  {"ifTemp", "tempTest", "plus", "minus", "modeTest", "off", "wake", "poll"}

(* The values the sketch ever stores in fancoilTemp as a whole.            *)
Decoded == ShownTemps \cup Misreads \cup {0}

SketchTypeOK ==
  /\ pc \in Labels /\ ret \in ReturnLabels
  /\ sampled \in [temp : Decoded, mode : ShownModes \cup {0}]
  /\ fancoilTemp \in Word16 /\ fancoilMode \in ShownModes \cup {0}
  /\ setTempFlag \in {0, 1} /\ setModeFlag \in {0, 1} /\ resetFlag \in {0, 1}
  /\ receiveCmd \in Byte /\ receivedParam \in Word16
  /\ param \in Word16
  /\ tries \in 0..Tries
  /\ presses \in 0..TempPresses \cup 0..ModePresses
  /\ polls \in 0..Polls
  /\ panel \in Panels
  /\ talking \in BOOLEAN
=============================================================================
