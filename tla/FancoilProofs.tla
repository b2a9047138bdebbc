---------------------------- MODULE FancoilProofs ---------------------------
(***************************************************************************)
(* Proofs about FancoilSystem for every value of its constants: types, the *)
(* safety of commands and keys, readings, and that FancoilService is       *)
(* implemented.                                                            *)
(***************************************************************************)
EXTENDS FancoilRefinement, TLAPS

(* Quotient and remainder of a 16-bit value by 256.                        *)
LEMMA DivModFacts ==
  ASSUME NEW x \in Int, 0 <= x, x <= 65535
  PROVE  /\ x \div 256 \in Int /\ x % 256 \in Int
         /\ x \div 256 >= 0 /\ x \div 256 <= 255 /\ x % 256 >= 0 /\ x % 256 <= 255
         /\ (x \div 256) * 256 + (x % 256) = x
OBVIOUS

(* Two bytes put together fit 16 bits.                                     *)
LEMMA TwoBytesIsWord ==
  ASSUME NEW hi \in Int, NEW lo \in Int
  PROVE  TwoBytes(hi, lo) \in Word16
<1> DEFINE y == hi * 256 + lo
<1>1. y \in Int
  OBVIOUS
<1> HIDE DEF y
<1>2. y % 65536 \in Word16
  BY <1>1 DEF Word16
<1>3. TwoBytes(hi, lo) = y % 65536
  BY DEF TwoBytes, y
<1> QED BY <1>2, <1>3

(* The two bytes of a 16-bit value.                                        *)
LEMMA BytesOfWord ==
  ASSUME NEW x \in Word16
  PROVE  Hi(x) \in Byte /\ Lo(x) \in Byte
<1>1. x \in Int /\ 0 <= x /\ x <= 65535
  BY DEF Word16
<1> QED BY <1>1, DivModFacts DEF Hi, Lo, Byte

(* A 16-bit value put together from the bytes of two others fits 16 bits.  *)
LEMMA TornIsWord ==
  ASSUME NEW old \in Word16, NEW new \in Word16, NEW v \in Torn(old, new)
  PROVE  v \in Word16
<1>1. \A b \in Byte : b \in Int
  BY DEF Byte
<1>2. Hi(old) \in Int /\ Lo(old) \in Int /\ Hi(new) \in Int /\ Lo(new) \in Int
  BY <1>1, BytesOfWord
<1> QED BY <1>2, TwoBytesIsWord DEF Torn

(* The two bytes of a value put together again are the value.              *)
LEMMA TwoBytesInverse ==
  ASSUME NEW v \in Word16
  PROVE  TwoBytes(Hi(v), Lo(v)) = v
<1>1. v \in Int /\ 0 <= v /\ v <= 65535
  BY DEF Word16
<1>2. Hi(v) * 256 + Lo(v) = v
  BY <1>1, DivModFacts DEF Hi, Lo
<1>3. v % 65536 = v
  BY <1>1
<1> QED BY <1>2, <1>3 DEF TwoBytes

(* A load or a store that nobody interferes with is whole.                 *)
LEMMA TornOfSame ==
  ASSUME NEW v \in Word16, NEW w \in Torn(v, v)
  PROVE  w = v
BY TwoBytesInverse DEF Torn

(* Below 256 a 16-bit access has nothing to tear.                          *)
LEMMA TornBelow256 ==
  ASSUME NEW old \in Byte, NEW new \in Byte, NEW v \in Torn(old, new)
  PROVE  v \in {old, new}
<1>1. \A x \in Byte : Hi(x) = 0 /\ Lo(x) = x
  BY DEF Hi, Lo, Byte
<1>2. \A x \in Byte : TwoBytes(0, x) = x
  BY DEF TwoBytes, Byte
<1> QED BY <1>1, <1>2 DEF Torn

(* What the keypad shows fits the types of the sketch.                     *)
LEMMA ShownAreWords ==
  /\ Decoded \subseteq Word16 /\ ShownTemps \subseteq Decoded /\ 0 \in Decoded
  /\ ShownModes \cup {0} \subseteq Modes /\ Modes \subseteq Byte
<1>1. TempCodes \subseteq Word16
  BY DEF TempCodes, Word16, MAX_TEMP, MIN_TEMP
<1>2. Modes \subseteq Byte /\ 0 \in Modes /\ 0 \in Word16
  BY DEF Word16, Modes, Byte
<1> QED BY <1>1, <1>2, ShownAssumption DEF Decoded
-----------------------------------------------------------------------------
(* Inside a try of a command the tries are not used up, inside a round of  *)
(* the mode key neither are the rounds, and between two readings the set   *)
(* point is a whole one.                                                   *)
InTempTry == pc = "tempLoad" \/ InTempLoop
InModeTry == pc = "modeLoad" \/ InModeLoop
CountersInv ==
  /\ InTempTry \/ InModeTry => tries > 0
  /\ pc = "poll" \/ (pc \in Reading /\ ret = "poll") => presses > 0
WholeInv == pc # "store2" => fancoilTemp \in Decoded
TInv == TypeOK /\ CountersInv /\ WholeInv

(* The values of a boot are in the types.                                  *)
LEMMA Zeros ==
  0 \in Word16 /\ 0 \in Byte /\ 0 \in 0..Tries /\ 0 \in 0..TempPresses /\ 0 \in 0..Polls
BY BoundAssumption DEF Word16, Byte

(* The boot state.                                                         *)
LEMMA InitTInv == Init => TInv
<1> SUFFICES ASSUME Init PROVE TInv
  OBVIOUS
<1> USE DEF Init, SketchInit
<1>2. SketchTypeOK
  BY Zeros, ShownAreWords DEF SketchTypeOK, Labels, ReturnLabels, GET_TEMP
<1>3. stage \in Stages /\ op \in Ops
  BY DEF Stages, Ops
<1>4. CountersInv /\ WholeInv
  BY ShownAreWords DEF CountersInv, WholeInv, InTempTry, InModeTry, InTempLoop, InModeLoop, Reading
<1> QED BY Zeros, <1>2, <1>3, <1>4 DEF TInv, TypeOK
-----------------------------------------------------------------------------
(* The keypad shows one of its panels, before and after a press.           *)
LEMMA LeastMode ==
  ASSUME NEW S, S \subseteq Modes, S # {}
  PROVE  \E k \in S : \A j \in S : k <= j
<1>1. \A k \in S : k = 0 \/ k = 1 \/ k = 2 \/ k = 3 \/ k = 4
  BY DEF Modes
<1>2. CASE 0 \in S
  BY <1>1, <1>2
<1>3. CASE 0 \notin S /\ 1 \in S
  BY <1>1, <1>3
<1>4. CASE 0 \notin S /\ 1 \notin S /\ 2 \in S
  BY <1>1, <1>4
<1>5. CASE 0 \notin S /\ 1 \notin S /\ 2 \notin S /\ 3 \in S
  BY <1>1, <1>5
<1>6. CASE 0 \notin S /\ 1 \notin S /\ 2 \notin S /\ 3 \notin S
  BY <1>1, <1>6
<1> QED BY <1>2, <1>3, <1>4, <1>5, <1>6

(* A tap of the mode key leads to a mode the keypad shows, never to off.   *)
LEMMA NextModeIsShown ==
  ASSUME NEW m \in ShownModes \ {POWER_OFF}
  PROVE  NextMode(m) \in ShownModes \ {POWER_OFF}
<1> DEFINE on == ShownModes \ {POWER_OFF}
           above == {k \in on : k > m}
           least(S) == CHOOSE k \in S : \A j \in S : k <= j
<1>1. \A S \in SUBSET on : S # {} => least(S) \in S
  BY LeastMode, ShownAssumption
<1>2. above \in SUBSET on /\ on \in SUBSET on /\ on # {}
  OBVIOUS
<1>3. NextMode(m) = IF above # {} THEN least(above) ELSE least(on)
  BY DEF NextMode
<1> HIDE DEF least, above
<1>4. NextMode(m) \in on
  BY <1>1, <1>2, <1>3
<1> QED BY <1>4

(* Pressing a key, registered or missed, leads to a panel.                 *)
LEMMA PressedInPanels ==
  ASSUME panel \in Panels, NEW p \in Panels, Pressed(p)
  PROVE  panel' \in Panels
BY DEF Pressed

(* So does each of the keys the sketch presses.                            *)
LEMMA KeysStayInPanels ==
  ASSUME panel \in Panels, HoldModeKey \/ TapModeKey
  PROVE  panel' \in Panels
<1>1. \A m \in ShownModes : [panel EXCEPT !.mode = m] \in Panels
  BY DEF Panels
<1>2. CASE HoldModeKey
  <2>1. CASE panel.mode = POWER_OFF
    BY <1>1, <1>2, <2>1, PressedInPanels DEF HoldModeKey
  <2>2. CASE panel.mode # POWER_OFF
    BY <1>1, <1>2, <2>2, PressedInPanels, ShownAssumption DEF HoldModeKey
  <2> QED BY <2>1, <2>2
<1>3. CASE TapModeKey
  <2>1. CASE panel.mode = POWER_OFF
    BY <1>3, <2>1, PressedInPanels DEF TapModeKey
  <2>2. CASE panel.mode # POWER_OFF
    <3>1. panel.mode \in ShownModes \ {POWER_OFF}
      BY <2>2 DEF Panels
    <3>2. [panel EXCEPT !.mode = NextMode(panel.mode)] \in Panels
      BY <1>1, <3>1, NextModeIsShown
    <3> QED BY <1>3, <2>2, <3>2, PressedInPanels DEF TapModeKey
  <2> QED BY <2>1, <2>2
<1> QED BY <1>2, <1>3
-----------------------------------------------------------------------------
(* One step of the sketch's main program keeps TInv.                       *)
LEMMA MainTInv ==
  ASSUME TInv, Main, UNCHANGED pluginVars
  PROVE  TInv'
<1> USE BoundAssumption DEF TInv, TypeOK, SketchTypeOK, CountersInv, WholeInv, InTempTry,
      InModeTry, InTempLoop, InModeLoop, Reading, Labels, ReturnLabels, Goto, ReadThen,
      mainVars, flagVars, isrVars, envVars, pluginVars
<1>1. CASE ReadSPI
  BY <1>1, ShownAreWords DEF ReadSPI, Misread, Panels, Decoded
<1>2. CASE StoreFirstByte
  BY <1>2, TornIsWord, ShownAreWords DEF StoreFirstByte
<1>3. CASE StoreSecondByte
  BY <1>3, ShownAreWords DEF StoreSecondByte
<1>4. CASE TestTempFlag
  BY <1>4 DEF TestTempFlag
<1>5. CASE TempTest
  BY <1>5 DEF TempTest
<1>6. CASE SetTemp
  BY <1>6, TornIsWord DEF SetTemp
<1>7. CASE PressPlus
  BY <1>7 DEF PressPlus, PlusKey, Pressed, Up, Panels
<1>8. CASE EndPlus
  BY <1>8 DEF EndPlus
<1>9. CASE PressMinus
  BY <1>9 DEF PressMinus, MinusKey, Pressed, Down, Panels
<1>10. CASE EndMinus
  BY <1>10 DEF EndMinus
<1>11. CASE ClearTempFlag
  BY <1>11, Zeros DEF ClearTempFlag
<1>12. CASE TestModeFlag
  BY <1>12 DEF TestModeFlag
<1>13. CASE ModeTest
  BY <1>13 DEF ModeTest
<1>14. CASE SetMode
  BY <1>14, TornIsWord DEF SetMode
<1>15. CASE HoldOff
  BY <1>15, KeysStayInPanels DEF HoldOff
<1>16. CASE HoldWake
  BY <1>16, KeysStayInPanels DEF HoldWake
<1>17. CASE EndWake
  BY <1>17 DEF EndWake
<1>18. CASE TapCycle
  BY <1>18, KeysStayInPanels DEF TapCycle
<1>19. CASE Poll
  BY <1>19 DEF Poll
<1>20. CASE EndPoll
  BY <1>20 DEF EndPoll
<1>21. CASE EndSetMode
  BY <1>21 DEF EndSetMode
<1>22. CASE ClearModeFlag
  BY <1>22, Zeros DEF ClearModeFlag
<1>23. CASE ResetFunc
  BY <1>23, Zeros, ShownAreWords DEF ResetFunc, Booted, GET_TEMP
<1>24. CASE Idle
  BY <1>24 DEF Idle
<1> QED
  BY <1>1, <1>2, <1>3, <1>4, <1>5, <1>6, <1>7, <1>8, <1>9, <1>10, <1>11, <1>12, <1>13, <1>14,
     <1>15, <1>16, <1>17, <1>18, <1>19, <1>20, <1>21, <1>22, <1>23, <1>24 DEF Main

(* So do a power cycle and what the keypad and its user do.                *)
LEMMA OutsideTInv ==
  ASSUME TInv, PowerCycle \/ Keypad, UNCHANGED pluginVars
  PROVE  TInv'
<1> USE BoundAssumption DEF TInv, TypeOK, SketchTypeOK, CountersInv, WholeInv, InTempTry,
      InModeTry, InTempLoop, InModeLoop, Reading, mainVars, flagVars, isrVars, pluginVars
<1>1. CASE PowerCycle
  BY <1>1, Zeros, ShownAreWords DEF PowerCycle, Booted, GET_TEMP, Labels, ReturnLabels, envVars
<1>2. CASE UserKey
  BY <1>2 DEF UserKey
<1>3. CASE BusFalls \/ BusReturns
  <2>1. talking' \in BOOLEAN
    BY <1>3 DEF BusFalls, BusReturns
  <2>2. UNCHANGED <<mainVars, flagVars, isrVars, panel>>
    BY <1>3 DEF BusFalls, BusReturns
  <2> QED BY <2>1, <2>2
<1> QED BY <1>1, <1>2, <1>3 DEF Keypad

(* The sketch's handlers leave the main program's variables alone.         *)
LEMMA HandlersTInv ==
  ASSUME SketchTypeOK, CountersInv, WholeInv,
         \/ RequestEvent \/ UNCHANGED sketchVars
         \/ \E cmd \in Byte, hasParam \in BOOLEAN, p \in Word16 : ReceiveEvent(cmd, hasParam, p)
  PROVE  SketchTypeOK' /\ CountersInv' /\ WholeInv'
<1> USE DEF SketchTypeOK, CountersInv, WholeInv, InTempTry, InModeTry, InTempLoop,
      InModeLoop, Reading, mainVars, flagVars, isrVars, envVars, sketchVars
<1>1. CASE RequestEvent
  BY <1>1 DEF RequestEvent
<1>2. CASE UNCHANGED sketchVars
  BY <1>2
<1>3. CASE \E cmd \in Byte, hasParam \in BOOLEAN, p \in Word16 : ReceiveEvent(cmd, hasParam, p)
  BY <1>3 DEF ReceiveEvent
<1> QED BY <1>1, <1>2, <1>3

(* What the master reads of a reply is two bytes, put together a word.     *)
LEMMA ReplyBytes ==
  ASSUME SketchTypeOK, NEW i \in {1, 2}
  PROVE  ByteOfReply(i) \in Byte
<1>1. Hi(fancoilTemp) \in Byte /\ Lo(fancoilTemp) \in Byte
  <2>1. fancoilTemp \in Word16
    BY DEF SketchTypeOK
  <2>2. \A x \in Word16 : Hi(x) \in Byte /\ Lo(x) \in Byte
    BY BytesOfWord
  <2> QED BY <2>1, <2>2
<1>2. fancoilMode \in Byte /\ 1 \in Byte /\ 255 \in Byte
  <2>1. fancoilMode \in ShownModes \cup {0}
    BY DEF SketchTypeOK
  <2>2. 1 \in Byte /\ 255 \in Byte
    BY DEF Byte
  <2> QED BY <2>1, <2>2, ShownAreWords
<1>3. CASE receiveCmd = GET_TEMP
  BY <1>1, <1>3 DEF ByteOfReply, Reply, GET_TEMP, GET_MODE, SET_TEMP, SET_MODE, RESET
<1>4. CASE receiveCmd = GET_MODE
  BY <1>2, <1>4 DEF ByteOfReply, Reply, GET_TEMP, GET_MODE, SET_TEMP, SET_MODE, RESET
<1>5. CASE receiveCmd \in {SET_TEMP, SET_MODE, RESET}
  BY <1>2, <1>5 DEF ByteOfReply, Reply, GET_TEMP, GET_MODE, SET_TEMP, SET_MODE, RESET
<1>6. CASE receiveCmd \notin {GET_TEMP, GET_MODE, SET_TEMP, SET_MODE, RESET}
  BY <1>2, <1>6 DEF ByteOfReply, Reply
<1> QED BY <1>3, <1>4, <1>5, <1>6

(* What PLUGIN_READ stores of an answer, or of a lost one.                 *)
LEMMA AnswersTyped ==
  ASSUME SketchTypeOK
  PROVE  WordRead \in Word16 /\ ByteOfReply(1) \in Byte /\ LostWord \in Word16 /\ LostByte \in Byte
<1>1. ByteOfReply(1) \in Byte /\ ByteOfReply(2) \in Byte
  BY ReplyBytes
<1>2. \A hi, lo \in Byte : TwoBytes(hi, lo) \in Word16
  <2>1. \A b \in Byte : b \in Int
    BY DEF Byte
  <2> QED BY <2>1, TwoBytesIsWord
<1>3. WordRead \in Word16
  BY <1>1, <1>2 DEF WordRead
<1>4. LostWord \in Word16
  BY DEF LostWord, Word16
<1>5. LostByte \in Byte
  BY DEF LostByte, Byte
<1> QED BY <1>1, <1>3, <1>4, <1>5

(* What the plugin writes on the bus is a command byte and a word.         *)
LEMMA WritesTyped ==
  ASSUME op \in Ops
  PROVE  /\ CommandByte(op) \in Byte /\ GET_TEMP \in Byte /\ GET_MODE \in Byte
         /\ op.param \in Word16 /\ 0 \in Word16 /\ (op.cmd # "reset") \in BOOLEAN
         /\ NoOp \in Ops
<1>1. op.param \in Word16
  BY SystemAssumption, Zeros DEF Ops, NoOp
<1> QED BY <1>1, Zeros DEF CommandByte, SET_TEMP, SET_MODE, RESET, GET_TEMP, GET_MODE, Byte, Ops

(* One step of the plugin keeps TInv.                                      *)
LEMMA PluginTInv ==
  ASSUME TInv, PluginStep \/ Caller
  PROVE  TInv'
<1> USE DEF TInv, TypeOK, Stages
<1>1. CASE WriteGetTemp
  BY <1>1, WritesTyped, HandlersTInv DEF WriteGetTemp, BusWrite
<1>2. CASE RequestTemp
  <2>1. SketchTypeOK' /\ CountersInv' /\ WholeInv'
    BY <1>2, HandlersTInv DEF RequestTemp
  <2>2. userTemp' \in Word16 /\ success' \in BOOLEAN
    BY <1>2, AnswersTyped DEF RequestTemp, TempAnswer
  <2> QED BY <1>2, <2>1, <2>2 DEF RequestTemp
<1>3. CASE WriteGetMode
  BY <1>3, WritesTyped, HandlersTInv DEF WriteGetMode, BusWrite
<1>4. CASE RequestMode
  <2>1. SketchTypeOK' /\ CountersInv' /\ WholeInv'
    BY <1>4, HandlersTInv DEF RequestMode
  <2>2. userMode' \in Byte /\ success' \in BOOLEAN
    BY <1>4, AnswersTyped DEF RequestMode, ModeAnswer
  <2> QED BY <1>4, <2>1, <2>2, WritesTyped DEF RequestMode
<1>5. CASE WriteCommand
  BY <1>5, WritesTyped, HandlersTInv DEF WriteCommand, BusWrite
<1>6. CASE RequestAck
  BY <1>6, HandlersTInv DEF RequestAck
<1>7. CASE EndDelay
  BY <1>7, WritesTyped, HandlersTInv DEF EndDelay
<1>8. CASE PluginRead
  BY <1>8, HandlersTInv DEF PluginRead, Begin, Ops
<1>9. CASE PluginWrite
  BY <1>9, HandlersTInv DEF PluginWrite, Begin
<1>10. CASE OtherCommand
  BY <1>10, HandlersTInv DEF OtherCommand, Begin, Ops
<1> QED
  BY <1>1, <1>2, <1>3, <1>4, <1>5, <1>6, <1>7, <1>8, <1>9, <1>10 DEF PluginStep, Caller

(* And a step that changes nothing.                                        *)
LEMMA StutterTInv ==
  ASSUME TInv, UNCHANGED vars
  PROVE  TInv'
BY HandlersTInv DEF TInv, TypeOK, vars, pluginVars

(* TInv is an inductive invariant.                                         *)
LEMMA TInvInvariant == Spec => []TInv
<1>1. TInv /\ [Next]_vars => TInv'
  BY MainTInv, OutsideTInv, PluginTInv, StutterTInv DEF Next
<1> QED BY <1>1, InitTInv, PTL DEF Spec

(* Every variable keeps its type: the counters of loop(), setTemp and      *)
(* setMode never leave their bounds, the received parameter and the set    *)
(* point fit their 16 bits and the mode its byte, whatever the interrupts, *)
(* power cycles, lost transactions and key presses.                        *)
THEOREM TypeCorrect == Spec => []TypeOK
<1>1. TInv => TypeOK
  BY DEF TInv
<1> QED BY <1>1, TInvInvariant, PTL
-----------------------------------------------------------------------------
(* With a sufficient timeout and a bus that loses nothing.  The main       *)
(* program is busy with a command only while its flag is up, a parameter   *)
(* half loaded is the one received, and before a request goes out the      *)
(* sketch has either received the command it is about or booted since.     *)
TempPhase ==
  \/ pc \in {"tempTest", "tempLoad", "plus", "minus", "tempClear"}
  \/ pc \in Reading /\ ret \in {"tempTest", "plus", "minus"}
ModePhase ==
  \/ pc \in {"modeTest", "modeLoad", "off", "wake", "cycle", "poll", "modeClear"}
  \/ pc \in Reading /\ ret \in {"modeTest", "off", "wake", "poll"}
PhaseInv ==
  /\ TempPhase => setTempFlag = 1
  /\ ModePhase => setModeFlag = 1
LoadInv == pc \in {"tempLoad", "modeLoad"} => param = receivedParam
RequestInv ==
  /\ stage \in {"write", "request"} => op.cmd \in {"setTemp", "setMode", "reset"}
  /\ stage = "tempRequest" => receiveCmd = GET_TEMP
  /\ stage = "modeRequest" => receiveCmd \in {GET_TEMP, GET_MODE}
  /\ stage = "request" => receiveCmd \in {GET_TEMP, CommandByte(op)}
  /\ stage = "request" /\ receiveCmd \in {SET_TEMP, SET_MODE} => receivedParam = op.param
SParts == ServedIsCurrent /\ KeysServeTheCommand /\ PhaseInv /\ LoadInv /\ RequestInv

(* The boot state raises no flag.                                          *)
LEMMA InitSParts == Init => SParts
BY DEF Init, SketchInit, SParts, ServedIsCurrent, KeysServeTheCommand, PhaseInv, LoadInv, RequestInv,
       InTempLoop, InModeLoop, TempPhase, ModePhase, Reading

(* The main program.                                                       *)
LEMMA MainSParts ==
  ASSUME TInv, SParts, Main, UNCHANGED pluginVars
  PROVE  SParts'
<1>0. receivedParam \in Word16 /\ param \in Word16 /\ ret \in ReturnLabels
  BY DEF TInv, TypeOK, SketchTypeOK
<1> USE DEF SParts, ServedIsCurrent, KeysServeTheCommand, PhaseInv, LoadInv, RequestInv,
      InTempLoop, InModeLoop, TempPhase, ModePhase, Reading, Goto, ReadThen,
      mainVars, flagVars, isrVars, envVars, pluginVars
<1>1. CASE ReadSPI
  BY <1>1 DEF ReadSPI
<1>2. CASE StoreFirstByte
  BY <1>2 DEF StoreFirstByte
<1>3. CASE StoreSecondByte
  BY <1>0, <1>3 DEF StoreSecondByte, ReturnLabels
<1>4. CASE TestTempFlag
  BY <1>4 DEF TestTempFlag
<1>5. CASE TempTest
  BY <1>5 DEF TempTest
<1>6. CASE SetTemp
  <2>1. param' = receivedParam
    BY <1>0, <1>6, TornOfSame DEF SetTemp
  <2> QED BY <1>6, <2>1 DEF SetTemp
<1>7. CASE PressPlus
  BY <1>7 DEF PressPlus
<1>8. CASE EndPlus
  BY <1>8 DEF EndPlus
<1>9. CASE PressMinus
  BY <1>9 DEF PressMinus
<1>10. CASE EndMinus
  BY <1>10 DEF EndMinus
<1>11. CASE ClearTempFlag
  BY <1>11 DEF ClearTempFlag
<1>12. CASE TestModeFlag
  BY <1>12 DEF TestModeFlag
<1>13. CASE ModeTest
  BY <1>13 DEF ModeTest
<1>14. CASE SetMode
  <2>1. param' = receivedParam
    BY <1>0, <1>14, TornOfSame DEF SetMode
  <2> QED BY <1>14, <2>1 DEF SetMode
<1>15. CASE HoldOff
  BY <1>15 DEF HoldOff
<1>16. CASE HoldWake
  BY <1>16 DEF HoldWake
<1>17. CASE EndWake
  BY <1>17 DEF EndWake
<1>18. CASE TapCycle
  BY <1>18 DEF TapCycle
<1>19. CASE Poll
  BY <1>19 DEF Poll
<1>20. CASE EndPoll
  BY <1>20 DEF EndPoll
<1>21. CASE EndSetMode
  BY <1>21 DEF EndSetMode
<1>22. CASE ClearModeFlag
  BY <1>22 DEF ClearModeFlag
<1>23. CASE ResetFunc
  BY <1>23 DEF ResetFunc, Booted
<1>24. CASE Idle
  BY <1>24 DEF Idle
<1> QED
  BY <1>1, <1>2, <1>3, <1>4, <1>5, <1>6, <1>7, <1>8, <1>9, <1>10, <1>11, <1>12, <1>13, <1>14,
     <1>15, <1>16, <1>17, <1>18, <1>19, <1>20, <1>21, <1>22, <1>23, <1>24 DEF Main

(* A power cycle takes all flags down; the keypad touches none.            *)
LEMMA OutsideSParts ==
  ASSUME SParts, PowerCycle \/ Keypad, UNCHANGED pluginVars
  PROVE  SParts'
<1> USE DEF SParts, ServedIsCurrent, KeysServeTheCommand, PhaseInv, LoadInv, RequestInv,
      InTempLoop, InModeLoop, TempPhase, ModePhase, Reading,
      mainVars, flagVars, isrVars, pluginVars
<1>1. CASE PowerCycle
  BY <1>1 DEF PowerCycle, Booted, GET_TEMP, SET_TEMP, SET_MODE
<1>2. CASE Keypad
  BY <1>2 DEF Keypad, UserKey, BusFalls, BusReturns
<1> QED BY <1>1, <1>2

(* Outside delay() no flag is up, so the main program is in no phase.      *)
LEMMA NoFlagNoPhase ==
  ASSUME TInv, SParts, stage # "delay" \/ SketchServed
  PROVE  /\ setTempFlag = 0 /\ setModeFlag = 0 /\ resetFlag = 0
         /\ ~TempPhase /\ ~ModePhase /\ ~InTempLoop /\ ~InModeLoop
         /\ pc \notin {"tempLoad", "modeLoad"}
<1>1. setTempFlag \in {0, 1} /\ setModeFlag \in {0, 1} /\ resetFlag \in {0, 1}
  BY DEF TInv, TypeOK, SketchTypeOK
<1>2. setTempFlag = 0 /\ setModeFlag = 0 /\ resetFlag = 0
  BY <1>1 DEF SParts, ServedIsCurrent, SketchServed
<1>3. ~TempPhase /\ ~ModePhase
  BY <1>2 DEF SParts, PhaseInv
<1> QED BY <1>2, <1>3 DEF TempPhase, ModePhase, InTempLoop, InModeLoop, Reading

(* A step of the plugin that leaves the main program and the flags alone   *)
(* while no flag is up keeps everything but RequestInv.                    *)
LEMMA QuietPluginStep ==
  ASSUME TInv, SParts, stage # "delay" \/ SketchServed,
         UNCHANGED <<mainVars, flagVars>>
  PROVE  ServedIsCurrent' /\ KeysServeTheCommand' /\ PhaseInv' /\ LoadInv'
<1>1. setTempFlag' = 0 /\ setModeFlag' = 0 /\ resetFlag' = 0
  BY NoFlagNoPhase DEF flagVars
<1>2. ~TempPhase' /\ ~ModePhase' /\ ~InTempLoop' /\ ~InModeLoop'
      /\ pc' \notin {"tempLoad", "modeLoad"}
  BY NoFlagNoPhase DEF TempPhase, ModePhase, InTempLoop, InModeLoop, Reading, mainVars
<1> QED BY <1>1, <1>2 DEF ServedIsCurrent, KeysServeTheCommand, PhaseInv, LoadInv

(* The plugin waits in delay() for the flag its request raised.            *)
LEMMA PluginSParts ==
  ASSUME WaitSuffices, ~Lossy, TInv, SParts, PluginStep \/ Caller
  PROVE  SParts'
<1> USE DEF GET_TEMP, GET_MODE, SET_TEMP, SET_MODE, RESET
<1>1. CASE WriteGetTemp
  <2>1. UNCHANGED <<mainVars, flagVars>> /\ stage # "delay"
    BY <1>1 DEF WriteGetTemp, BusWrite, ReceiveEvent
  <2>2. RequestInv'
    BY <1>1 DEF WriteGetTemp, BusWrite, ReceiveEvent, RequestInv
  <2> QED BY <2>1, <2>2, QuietPluginStep DEF SParts
<1>2. CASE RequestTemp
  <2>1. receiveCmd = GET_TEMP
    BY <1>2 DEF RequestTemp, SParts, RequestInv
  <2>2. UNCHANGED <<mainVars, flagVars>> /\ stage # "delay"
    BY <1>2, <2>1 DEF RequestTemp, RequestEvent, flagVars
  <2>3. RequestInv'
    BY <1>2 DEF RequestTemp, RequestInv
  <2> QED BY <2>2, <2>3, QuietPluginStep DEF SParts
<1>3. CASE WriteGetMode
  <2>1. UNCHANGED <<mainVars, flagVars>> /\ stage # "delay"
    BY <1>3 DEF WriteGetMode, BusWrite, ReceiveEvent
  <2>2. RequestInv'
    BY <1>3 DEF WriteGetMode, BusWrite, ReceiveEvent, RequestInv
  <2> QED BY <2>1, <2>2, QuietPluginStep DEF SParts
<1>4. CASE RequestMode
  <2>1. receiveCmd \in {GET_TEMP, GET_MODE}
    BY <1>4 DEF RequestMode, SParts, RequestInv
  <2>2. UNCHANGED <<mainVars, flagVars>> /\ stage # "delay"
    BY <1>4, <2>1 DEF RequestMode, RequestEvent, flagVars
  <2>3. RequestInv'
    BY <1>4 DEF RequestMode, RequestInv
  <2> QED BY <2>2, <2>3, QuietPluginStep DEF SParts
<1>5. CASE WriteCommand
  <2>1. UNCHANGED <<mainVars, flagVars>> /\ stage # "delay"
    BY <1>5 DEF WriteCommand, BusWrite, ReceiveEvent
  <2>2. RequestInv'
    BY <1>5 DEF WriteCommand, BusWrite, ReceiveEvent, SParts, RequestInv, CommandByte
  <2> QED BY <2>1, <2>2, QuietPluginStep DEF SParts
<1>6. CASE RequestAck
  <2>1. setTempFlag = 0 /\ setModeFlag = 0 /\ resetFlag = 0
        /\ ~TempPhase /\ ~ModePhase /\ ~InTempLoop /\ ~InModeLoop
        /\ pc \notin {"tempLoad", "modeLoad"}
    BY <1>6, NoFlagNoPhase DEF RequestAck
  <2>2. RequestEvent /\ stage = "request" /\ stage' = "delay" /\ op' = op
    BY <1>6 DEF RequestAck
  <2>3. ~TempPhase' /\ ~ModePhase' /\ ~InTempLoop' /\ ~InModeLoop'
        /\ pc' \notin {"tempLoad", "modeLoad"}
    BY <2>1, <2>2 DEF RequestEvent, TempPhase, ModePhase, InTempLoop, InModeLoop, Reading, mainVars
  <2>4. ServedIsCurrent'
    BY <2>1, <2>2 DEF RequestEvent, SParts, RequestInv, ServedIsCurrent, CommandByte, isrVars
  <2>5. RequestInv'
    BY <2>2 DEF RequestInv
  <2> QED BY <2>3, <2>4, <2>5 DEF SParts, KeysServeTheCommand, PhaseInv, LoadInv
<1>7. CASE EndDelay
  <2>1. UNCHANGED <<mainVars, flagVars>> /\ SketchServed
    BY <1>7 DEF EndDelay, sketchVars
  <2>2. RequestInv'
    BY <1>7 DEF EndDelay, RequestInv
  <2> QED BY <2>1, <2>2, QuietPluginStep DEF SParts
<1>8. CASE Caller
  <2>1. UNCHANGED <<mainVars, flagVars>> /\ stage # "delay"
    BY <1>8 DEF Caller, PluginRead, PluginWrite, OtherCommand, Begin, sketchVars
  <2>2. RequestInv'
    BY <1>8 DEF Caller, PluginRead, PluginWrite, OtherCommand, Begin, RequestInv
  <2> QED BY <2>1, <2>2, QuietPluginStep DEF SParts
<1> QED
  BY <1>1, <1>2, <1>3, <1>4, <1>5, <1>6, <1>7, <1>8 DEF PluginStep

(* A step that changes nothing keeps SParts.                               *)
LEMMA StutterSParts ==
  ASSUME SParts, UNCHANGED vars
  PROVE  SParts'
BY DEF SParts, ServedIsCurrent, KeysServeTheCommand, PhaseInv, LoadInv, RequestInv,
       InTempLoop, InModeLoop, TempPhase, ModePhase, Reading, CommandByte,
       vars, sketchVars, pluginVars, mainVars, flagVars, isrVars

(* SParts is inductive together with TInv.                                 *)
LEMMA SPartsInvariant ==
  ASSUME WaitSuffices, ~Lossy
  PROVE  Spec => []SParts
<1>1. TInv /\ SParts /\ [Next]_vars => SParts'
  BY MainSParts, OutsideSParts, PluginSParts, StutterSParts DEF Next
<1> QED BY <1>1, InitSParts, TInvInvariant, PTL DEF Spec

(* With a sufficient timeout and a bus that loses nothing, a raised flag   *)
(* belongs to the PLUGIN_WRITE still in delay(), and the parameter both    *)
(* commands share is still that of its command.                            *)
THEOREM FlagsAreCurrent ==
  ASSUME WaitSuffices, ~Lossy
  PROVE  Spec => []ServedIsCurrent
<1>1. SParts => ServedIsCurrent
  BY DEF SParts
<1> QED BY <1>1, SPartsInvariant, PTL

(* Under the same conditions setTemp and setMode press keys only for the   *)
(* command in progress, with its whole parameter although the main program *)
(* loads it a byte at a time between interrupts.                           *)
THEOREM KeysAreServed ==
  ASSUME WaitSuffices, ~Lossy
  PROVE  Spec => []KeysServeTheCommand
<1>1. SParts => KeysServeTheCommand
  BY DEF SParts
<1> QED BY <1>1, SPartsInvariant, PTL
-----------------------------------------------------------------------------
(* Any timeout, any losses.  Parameters of the two commands that fit one   *)
(* byte and cannot pass for each other.                                    *)
Params == TempParams \cup ModeParams
SeparateParams ==
  /\ Params \subseteq Byte
  /\ \A t \in TempParams : ~InModeRange(t)
  /\ \A m \in ModeParams : ~InTempRange(Quantise(m))

(* A flag is only raised for a parameter received, and a parameter half    *)
(* loaded is made of parameters received.                                  *)
ReceivedInv ==
  /\ setTempFlag = 1 \/ setModeFlag = 1 \/ receiveCmd \in {SET_TEMP, SET_MODE}
       => receivedParam \in Params
  /\ pc \in {"tempLoad", "modeLoad"} => param \in Params
  /\ stage \in {"write", "request"} => op.cmd \in {"setTemp", "setMode", "reset"}
RParts == TargetsWereRequested /\ PhaseInv /\ ReceivedInv

(* The boot state serves no command.                                       *)
LEMMA InitRParts == Init => RParts
BY DEF Init, SketchInit, RParts, TargetsWereRequested, PhaseInv, ReceivedInv, GET_TEMP, SET_TEMP, SET_MODE,
       InTempLoop, InModeLoop, TempPhase, ModePhase, Reading

(* What setTemp or setMode load of two parameters, with a receiveEvent in  *)
(* between, is one of them, and their range tests tell which kind it is.   *)
LEMMA LoadedParam ==
  ASSUME SeparateParams, NEW old \in Params, NEW new \in Params, NEW v \in Torn(old, new)
  PROVE  /\ v \in Params
         /\ InTempRange(Quantise(v)) => v \in TempParams
         /\ InModeRange(v) => v \in ModeParams
<1>1. v \in Params
  BY TornBelow256 DEF SeparateParams
<1> QED BY <1>1 DEF SeparateParams, Params

(* The main program: what it loads is one of the parameters received.      *)
LEMMA MainRParts ==
  ASSUME SeparateParams, TInv, RParts, Main, UNCHANGED pluginVars
  PROVE  RParts'
<1>0. ret \in ReturnLabels
  BY DEF TInv, TypeOK, SketchTypeOK
<1> USE DEF RParts, TargetsWereRequested, PhaseInv, ReceivedInv,
      InTempLoop, InModeLoop, TempPhase, ModePhase, Reading, Goto, ReadThen,
      mainVars, flagVars, isrVars, envVars, pluginVars
<1>1. CASE ReadSPI
  BY <1>1 DEF ReadSPI
<1>2. CASE StoreFirstByte
  BY <1>2 DEF StoreFirstByte
<1>3. CASE StoreSecondByte
  BY <1>0, <1>3 DEF StoreSecondByte, ReturnLabels
<1>4. CASE TestTempFlag
  BY <1>4 DEF TestTempFlag
<1>5. CASE TempTest
  BY <1>5 DEF TempTest
<1>6. CASE SetTemp
  <2>1. param \in Params /\ receivedParam \in Params /\ param' \in Torn(param, receivedParam)
    BY <1>6 DEF SetTemp
  <2>2. /\ param' \in Params
        /\ InTempRange(Quantise(param')) => param' \in TempParams
        /\ InModeRange(param') => param' \in ModeParams
    BY <2>1, LoadedParam
  <2> QED BY <1>6, <2>2 DEF SetTemp
<1>7. CASE PressPlus
  BY <1>7 DEF PressPlus
<1>8. CASE EndPlus
  BY <1>8 DEF EndPlus
<1>9. CASE PressMinus
  BY <1>9 DEF PressMinus
<1>10. CASE EndMinus
  BY <1>10 DEF EndMinus
<1>11. CASE ClearTempFlag
  BY <1>11 DEF ClearTempFlag
<1>12. CASE TestModeFlag
  BY <1>12 DEF TestModeFlag
<1>13. CASE ModeTest
  BY <1>13 DEF ModeTest
<1>14. CASE SetMode
  <2>1. param \in Params /\ receivedParam \in Params /\ param' \in Torn(param, receivedParam)
    BY <1>14 DEF SetMode
  <2>2. /\ param' \in Params
        /\ InTempRange(Quantise(param')) => param' \in TempParams
        /\ InModeRange(param') => param' \in ModeParams
    BY <2>1, LoadedParam
  <2> QED BY <1>14, <2>2 DEF SetMode
<1>15. CASE HoldOff
  BY <1>15 DEF HoldOff
<1>16. CASE HoldWake
  BY <1>16 DEF HoldWake
<1>17. CASE EndWake
  BY <1>17 DEF EndWake
<1>18. CASE TapCycle
  BY <1>18 DEF TapCycle
<1>19. CASE Poll
  BY <1>19 DEF Poll
<1>20. CASE EndPoll
  BY <1>20 DEF EndPoll
<1>21. CASE EndSetMode
  BY <1>21 DEF EndSetMode
<1>22. CASE ClearModeFlag
  BY <1>22 DEF ClearModeFlag
<1>23. CASE ResetFunc
  BY <1>23 DEF ResetFunc, Booted, GET_TEMP, SET_TEMP, SET_MODE
<1>24. CASE Idle
  BY <1>24 DEF Idle
<1> QED
  BY <1>1, <1>2, <1>3, <1>4, <1>5, <1>6, <1>7, <1>8, <1>9, <1>10, <1>11, <1>12, <1>13, <1>14,
     <1>15, <1>16, <1>17, <1>18, <1>19, <1>20, <1>21, <1>22, <1>23, <1>24 DEF Main

(* A power cycle and the keypad leave no target behind.                    *)
LEMMA OutsideRParts ==
  ASSUME RParts, PowerCycle \/ Keypad, UNCHANGED pluginVars
  PROVE  RParts'
<1> USE DEF RParts, TargetsWereRequested, PhaseInv, ReceivedInv, InTempLoop, InModeLoop,
      TempPhase, ModePhase, Reading, mainVars, flagVars, isrVars, pluginVars
<1>1. CASE PowerCycle
  BY <1>1 DEF PowerCycle, Booted, GET_TEMP, SET_TEMP, SET_MODE
<1>2. CASE Keypad
  BY <1>2 DEF Keypad, UserKey, BusFalls, BusReturns
<1> QED BY <1>1, <1>2

(* The handlers and the plugin: what changes is the received command, with *)
(* its parameter, and the flags.                                           *)
LEMMA PluginRParts ==
  ASSUME TInv, RParts, PluginStep \/ Caller
  PROVE  RParts'
<1> DEFINE StageInv == stage \in {"write", "request"} => op.cmd \in {"setTemp", "setMode", "reset"}
           SketchInv == TargetsWereRequested /\ PhaseInv
                        /\ (setTempFlag = 1 \/ setModeFlag = 1 \/ receiveCmd \in {SET_TEMP, SET_MODE}
                              => receivedParam \in Params)
                        /\ (pc \in {"tempLoad", "modeLoad"} => param \in Params)
<1> USE DEF GET_TEMP, GET_MODE, SET_TEMP, SET_MODE, RESET
<1>1. StageInv'
  BY DEF PluginStep, Caller, RParts, ReceivedInv, WriteGetTemp, RequestTemp, WriteGetMode, RequestMode,
         WriteCommand, RequestAck, EndDelay, PluginRead, PluginWrite, OtherCommand, Begin
<1>2. SketchInv'
  <2> USE DEF RParts, TargetsWereRequested, PhaseInv, ReceivedInv, InTempLoop, InModeLoop,
        TempPhase, ModePhase, Reading, mainVars, flagVars, isrVars, sketchVars
  <2>1. ASSUME UNCHANGED sketchVars PROVE SketchInv'
    BY <2>1
  <2>2. ASSUME RequestEvent PROVE SketchInv'
    BY <2>2 DEF RequestEvent
  <2>3. ASSUME NEW cmd \in {GET_TEMP, GET_MODE}, ReceiveEvent(cmd, FALSE, 0) PROVE SketchInv'
    BY <2>3 DEF ReceiveEvent
  <2>4. ASSUME stage = "write", ReceiveEvent(CommandByte(op), op.cmd # "reset", op.param)
        PROVE  SketchInv'
    <3>1. op \in Ops
      BY DEF TInv, TypeOK
    <3>2. op.cmd = "reset" \/ op.param \in Params
      BY <2>4, <3>1 DEF Ops, NoOp, Params
    <3>3. CASE op.cmd = "reset"
      BY <2>4, <3>3 DEF ReceiveEvent, CommandByte
    <3>4. CASE op.cmd # "reset"
      BY <2>4, <3>2, <3>4 DEF ReceiveEvent
    <3> QED BY <3>3, <3>4
  <2> QED
    BY <2>1, <2>2, <2>3, <2>4 DEF PluginStep, Caller, WriteGetTemp, RequestTemp, WriteGetMode, RequestMode,
       WriteCommand, RequestAck, EndDelay, PluginRead, PluginWrite, OtherCommand, Begin, BusWrite
<1> QED BY <1>1, <1>2 DEF RParts, ReceivedInv

(* A step that changes nothing keeps RParts.                               *)
LEMMA StutterRParts ==
  ASSUME RParts, UNCHANGED vars
  PROVE  RParts'
BY DEF RParts, TargetsWereRequested, PhaseInv, ReceivedInv, InTempLoop, InModeLoop,
       TempPhase, ModePhase, Reading, vars, sketchVars, pluginVars, mainVars, flagVars, isrVars

(* Whatever the timeout, the losses, the power cycles and the order of     *)
(* commands, setTemp and setMode only drive towards a value that some      *)
(* command of that kind asked for, provided no parameter needs a high byte *)
(* and none of one command passes the range test of the other.             *)
THEOREM TargetsAreRequested ==
  ASSUME SeparateParams
  PROVE  Spec => []TargetsWereRequested
<1>1. TInv /\ RParts /\ [Next]_vars => RParts'
  BY MainRParts, OutsideRParts, PluginRParts, StutterRParts DEF Next
<1>2. RParts => TargetsWereRequested
  BY DEF RParts
<1> QED BY <1>1, <1>2, InitRParts, TInvInvariant, PTL DEF Spec

-----------------------------------------------------------------------------
(***************************************************************************)
(* What the key presses of the sketch do to a keypad nobody else touches   *)
(* and whose cycles are decoded correctly: the set point never moves past  *)
(* the target, and the power is toggled only as commanded.  The keypad may *)
(* miss presses, and may fall silent.                                      *)
(***************************************************************************)

Undisturbed == Misreads = {} /\ ~UserActive

(* After a tap of the mode key the sketch still believes in the old mode:  *)
(* it looks again before it acts on it.                                    *)
LooksAgain == pc = "poll" /\ polls = Polls /\ fancoilMode # param

(* Outside readFancoilData the sketch knows what the keypad shows.         *)
ShownInv ==
  /\ pc \in {"store1", "store2"} => sampled = panel
  /\ pc = "store2" => fancoilMode = panel.mode
  /\ pc \notin Reading => fancoilTemp = panel.temp
  /\ pc \notin Reading /\ ~LooksAgain => fancoilMode = panel.mode

(* A key of the set point leaves the mode alone, and the mode key the set  *)
(* point.                                                                  *)
LEMMA KeysMoveTheirOwn ==
  ASSUME panel \in Panels
  PROVE  /\ PlusKey \/ MinusKey => panel'.mode = panel.mode
         /\ HoldModeKey \/ TapModeKey => panel'.temp = panel.temp
<1>1. \A x : /\ [panel EXCEPT !.temp = x].mode = panel.mode
             /\ [panel EXCEPT !.mode = x].temp = panel.temp
  BY DEF Panels
<1>2. PlusKey \/ MinusKey => panel'.mode = panel.mode
  <2>1. /\ [panel EXCEPT !.temp = Up(@)].mode = panel.mode
        /\ [panel EXCEPT !.temp = Down(@)].mode = panel.mode
    BY DEF Panels
  <2>2. ASSUME NEW p, Pressed(p) PROVE panel' \in {p, panel}
    BY <2>2 DEF Pressed
  <2> QED BY <2>1, <2>2 DEF PlusKey, MinusKey
<1>3. HoldModeKey \/ TapModeKey => panel'.temp = panel.temp
  BY <1>1 DEF HoldModeKey, TapModeKey, Pressed
<1> QED BY <1>2, <1>3

(* Every press is followed by a reading before the next decision.          *)
LEMMA MainShownInv ==
  ASSUME Misreads = {}, TInv, ShownInv, Main
  PROVE  ShownInv'
<1>0. /\ ret \in ReturnLabels /\ Polls \in Nat \ {0} /\ polls \in 0 .. Polls
      /\ panel \in Panels
  BY BoundAssumption DEF TInv, TypeOK, SketchTypeOK
<1> USE DEF ShownInv, LooksAgain, Reading, Goto, ReadThen, envVars
<1>1. CASE ReadSPI
  BY <1>1 DEF ReadSPI, Misread
<1>2. CASE StoreFirstByte
  BY <1>2 DEF StoreFirstByte
<1>3. CASE StoreSecondByte
  BY <1>0, <1>3 DEF StoreSecondByte, ReturnLabels
<1>4. CASE TestTempFlag
  BY <1>4 DEF TestTempFlag
<1>5. CASE TempTest
  BY <1>5 DEF TempTest
<1>6. CASE SetTemp
  BY <1>6 DEF SetTemp
<1>7. CASE PressPlus
  BY <1>7 DEF PressPlus
<1>8. CASE EndPlus
  BY <1>8 DEF EndPlus
<1>9. CASE PressMinus
  BY <1>9 DEF PressMinus
<1>10. CASE EndMinus
  BY <1>10 DEF EndMinus
<1>11. CASE ClearTempFlag
  BY <1>11 DEF ClearTempFlag
<1>12. CASE TestModeFlag
  BY <1>12 DEF TestModeFlag
<1>13. CASE ModeTest
  BY <1>13 DEF ModeTest
<1>14. CASE SetMode
  BY <1>14 DEF SetMode
<1>15. CASE HoldOff
  BY <1>15 DEF HoldOff
<1>16. CASE HoldWake
  BY <1>16 DEF HoldWake
<1>17. CASE EndWake
  BY <1>17 DEF EndWake
<1>18. CASE TapCycle
  BY <1>0, KeysMoveTheirOwn, <1>18 DEF TapCycle
<1>19. CASE Poll
  BY <1>0, <1>19 DEF Poll
<1>20. CASE EndPoll
  BY <1>0, <1>20 DEF EndPoll
<1>21. CASE EndSetMode
  BY <1>21 DEF EndSetMode
<1>22. CASE ClearModeFlag
  BY <1>22 DEF ClearModeFlag
<1>23. CASE ResetFunc
  BY <1>23 DEF ResetFunc, Booted
<1>24. CASE Idle
  BY <1>24 DEF Idle
<1> QED
  BY <1>1, <1>2, <1>3, <1>4, <1>5, <1>6, <1>7, <1>8, <1>9, <1>10, <1>11, <1>12, <1>13, <1>14,
     <1>15, <1>16, <1>17, <1>18, <1>19, <1>20, <1>21, <1>22, <1>23, <1>24 DEF Main

(* ShownInv is inductive together with TInv.                               *)
LEMMA ShownInvInvariant ==
  ASSUME Undisturbed
  PROVE  Spec => []ShownInv
<1>1. Init => ShownInv
  BY DEF Init, SketchInit, ShownInv, LooksAgain, Reading
<1>2. TInv /\ ShownInv /\ [Next]_vars => ShownInv'
  <2> SUFFICES ASSUME TInv, ShownInv, [Next]_vars PROVE ShownInv'
    OBVIOUS
  <2>1. CASE Main
    BY <2>1, MainShownInv DEF Undisturbed
  <2>2. CASE PowerCycle
    BY <2>2 DEF PowerCycle, Booted, ShownInv, LooksAgain, Reading
  <2>3. CASE PluginStep \/ Caller \/ Keypad \/ UNCHANGED vars
    <3>1. UNCHANGED <<mainVars, panel>>
      BY <2>3 DEF Undisturbed, PluginStep, Caller, WriteGetTemp, RequestTemp, WriteGetMode, RequestMode,
         WriteCommand, RequestAck, EndDelay, PluginRead, PluginWrite, OtherCommand, Begin, BusWrite,
         ReceiveEvent, RequestEvent, Keypad, UserKey, BusFalls, BusReturns, sketchVars, envVars, vars
    <3> QED BY <3>1 DEF ShownInv, LooksAgain, Reading, mainVars
  <2> QED BY <2>1, <2>2, <2>3 DEF Next
<1> QED BY <1>1, <1>2, TInvInvariant, PTL DEF Spec
-----------------------------------------------------------------------------
(* Set points and targets are multiples of five, so a step of five below   *)
(* or above the target does not pass it.                                   *)
LEMMA StepsReachTargets ==
  ASSUME NEW t \in ShownTemps, NEW p \in Word16
  PROVE  /\ t \in Int /\ Quantise(p) \in Int
         /\ t < Quantise(p) => t + 5 <= Quantise(p)
         /\ t > Quantise(p) => t - 5 >= Quantise(p)
<1>1. t \in Int /\ t % 5 = 0
  BY ShownAssumption DEF TempCodes, MIN_TEMP, MAX_TEMP
<1>2. t = 5 * (t \div 5) /\ t \div 5 \in Int
  BY <1>1
<1>3. p \in Int
  BY DEF Word16
<1> DEFINE k == (p \div 5) % 256
<1>4. k \in Int /\ Quantise(p) = k * 5
  BY <1>3 DEF Quantise
<1> HIDE DEF k
<1> QED BY <1>1, <1>2, <1>4

(* The step of setTemp that presses a key.                                 *)
TempMoves ==
  panel'.temp # panel.temp =>
    \/ panel.temp < panel'.temp /\ panel'.temp <= Quantise(param)
    \/ panel.temp > panel'.temp /\ panel'.temp >= Quantise(param)

(* Plus and minus are pressed on a display that is known, and move it by   *)
(* one step.                                                               *)
LEMMA PressesStayBefore ==
  ASSUME TInv, ShownInv, PressPlus \/ PressMinus
  PROVE  TempMoves
<1>1. panel.temp \in ShownTemps /\ param \in Word16 /\ fancoilTemp = panel.temp /\ panel \in Panels
  BY DEF TInv, TypeOK, SketchTypeOK, Panels, ShownInv, Reading, PressPlus, PressMinus
<1>2. \A x : [panel EXCEPT !.temp = x].temp = x
  BY <1>1 DEF Panels
<1>3. /\ panel.temp \in Int /\ Quantise(param) \in Int
      /\ panel.temp < Quantise(param) => panel.temp + 5 <= Quantise(param)
      /\ panel.temp > Quantise(param) => panel.temp - 5 >= Quantise(param)
  BY <1>1, StepsReachTargets
<1>4. CASE PressPlus
  <2>1. panel'.temp \in {panel.temp, panel.temp + 5}
    BY <1>2, <1>4 DEF PressPlus, PlusKey, Pressed, Up
  <2>2. panel.temp < Quantise(param)
    BY <1>1, <1>4 DEF PressPlus
  <2> QED BY <1>3, <2>1, <2>2 DEF TempMoves
<1>5. CASE PressMinus
  <2>1. panel'.temp \in {panel.temp, panel.temp - 5}
    BY <1>2, <1>5 DEF PressMinus, MinusKey, Pressed, Down
  <2>2. panel.temp > Quantise(param)
    BY <1>1, <1>5 DEF PressMinus
  <2> QED BY <1>3, <2>1, <2>2 DEF TempMoves
<1> QED BY <1>4, <1>5

(* No other step moves the set point of the keypad.                        *)
LEMMA OthersLeaveTemp ==
  ASSUME Undisturbed, TInv, [Next]_vars, ~PressPlus, ~PressMinus
  PROVE  panel'.temp = panel.temp
<1>1. panel \in Panels
  BY DEF TInv, TypeOK, SketchTypeOK
<1>2. CASE HoldOff \/ HoldWake \/ TapCycle
  BY <1>1, <1>2, KeysMoveTheirOwn DEF HoldOff, HoldWake, TapCycle
<1>3. CASE ~HoldOff /\ ~HoldWake /\ ~TapCycle
  <2>1. UNCHANGED panel
    BY <1>3 DEF Undisturbed, Next, Main, ReadSPI, StoreFirstByte, StoreSecondByte, TestTempFlag, TempTest,
       SetTemp, EndPlus, EndMinus, ClearTempFlag, TestModeFlag, ModeTest, SetMode, EndWake, Poll,
       EndPoll, EndSetMode, ClearModeFlag, ResetFunc, Idle, PowerCycle, Keypad, UserKey, BusFalls,
       BusReturns, PluginStep, Caller, WriteGetTemp, RequestTemp, WriteGetMode, RequestMode,
       WriteCommand, RequestAck, EndDelay, PluginRead, PluginWrite, OtherCommand, Begin, BusWrite,
       ReceiveEvent, RequestEvent, sketchVars, envVars, vars
  <2> QED BY <2>1
<1> QED BY <1>2, <1>3

(* setTemp moves the set point closer to its target and never past it,     *)
(* whatever the timeout, the losses, the power and the missed presses.     *)
THEOREM TargetIsNotPassed ==
  ASSUME Undisturbed
  PROVE  Spec => NeverPastTheTarget
<1>1. TInv /\ ShownInv /\ [Next]_vars => [TempMoves]_vars
  BY PressesStayBefore, OthersLeaveTemp DEF TempMoves
<1> QED
  BY <1>1, TInvInvariant, ShownInvInvariant, PTL DEF Spec, NeverPastTheTarget, TempMoves
-----------------------------------------------------------------------------
(* setMode holds the mode key in two loops, one for the mode off and one   *)
(* for the others.                                                         *)
HoldInv ==
  /\ pc = "off" \/ (pc \in Reading /\ ret = "off") => param = POWER_OFF
  /\ pc = "wake" \/ (pc \in Reading /\ ret = "wake") => param # POWER_OFF

(* Only setMode enters them, and no loop changes the parameter.            *)
LEMMA MainHoldInv ==
  ASSUME TInv, HoldInv, Main
  PROVE  HoldInv'
<1>0. ret \in ReturnLabels
  BY DEF TInv, TypeOK, SketchTypeOK
<1> USE DEF HoldInv, Reading, Goto, ReadThen
<1>1. CASE ReadSPI
  BY <1>1 DEF ReadSPI
<1>2. CASE StoreFirstByte
  BY <1>2 DEF StoreFirstByte
<1>3. CASE StoreSecondByte
  BY <1>0, <1>3 DEF StoreSecondByte, ReturnLabels
<1>4. CASE TestTempFlag
  BY <1>4 DEF TestTempFlag
<1>5. CASE TempTest
  BY <1>5 DEF TempTest
<1>6. CASE SetTemp
  BY <1>6 DEF SetTemp
<1>7. CASE PressPlus
  BY <1>7 DEF PressPlus
<1>8. CASE EndPlus
  BY <1>8 DEF EndPlus
<1>9. CASE PressMinus
  BY <1>9 DEF PressMinus
<1>10. CASE EndMinus
  BY <1>10 DEF EndMinus
<1>11. CASE ClearTempFlag
  BY <1>11 DEF ClearTempFlag
<1>12. CASE TestModeFlag
  BY <1>12 DEF TestModeFlag
<1>13. CASE ModeTest
  BY <1>13 DEF ModeTest
<1>14. CASE SetMode
  BY <1>14 DEF SetMode
<1>15. CASE HoldOff
  BY <1>15 DEF HoldOff
<1>16. CASE HoldWake
  BY <1>16 DEF HoldWake
<1>17. CASE EndWake
  BY <1>17 DEF EndWake
<1>18. CASE TapCycle
  BY <1>18 DEF TapCycle
<1>19. CASE Poll
  BY <1>19 DEF Poll
<1>20. CASE EndPoll
  BY <1>20 DEF EndPoll
<1>21. CASE EndSetMode
  BY <1>21 DEF EndSetMode
<1>22. CASE ClearModeFlag
  BY <1>22 DEF ClearModeFlag
<1>23. CASE ResetFunc
  BY <1>23 DEF ResetFunc, Booted
<1>24. CASE Idle
  BY <1>24 DEF Idle
<1> QED
  BY <1>1, <1>2, <1>3, <1>4, <1>5, <1>6, <1>7, <1>8, <1>9, <1>10, <1>11, <1>12, <1>13, <1>14,
     <1>15, <1>16, <1>17, <1>18, <1>19, <1>20, <1>21, <1>22, <1>23, <1>24 DEF Main

(* HoldInv is inductive together with TInv.                                *)
LEMMA HoldInvInvariant == Spec => []HoldInv
<1>1. Init => HoldInv
  BY DEF Init, SketchInit, HoldInv, Reading
<1>2. TInv /\ HoldInv /\ [Next]_vars => HoldInv'
  <2> SUFFICES ASSUME TInv, HoldInv, [Next]_vars PROVE HoldInv'
    OBVIOUS
  <2>1. CASE Main
    BY <2>1, MainHoldInv
  <2>2. CASE PowerCycle
    BY <2>2 DEF PowerCycle, Booted, HoldInv, Reading
  <2>3. CASE PluginStep \/ Caller \/ Keypad \/ UNCHANGED vars
    <3>1. UNCHANGED mainVars
      BY <2>3 DEF PluginStep, Caller, WriteGetTemp, RequestTemp, WriteGetMode, RequestMode, WriteCommand,
         RequestAck, EndDelay, PluginRead, PluginWrite, OtherCommand, Begin, BusWrite, ReceiveEvent,
         RequestEvent, Keypad, UserKey, BusFalls, BusReturns, sketchVars, vars
    <3> QED BY <3>1 DEF HoldInv, Reading, mainVars
  <2> QED BY <2>1, <2>2, <2>3 DEF Next
<1> QED BY <1>1, <1>2, TInvInvariant, PTL DEF Spec

(* What a step that turns the power on or off must be for.                 *)
PowerMoves ==
  (panel'.mode = POWER_OFF) # (panel.mode = POWER_OFF) =>
    (panel'.mode = POWER_OFF) = (op.param = POWER_OFF) /\ op.cmd = "setMode"

(* Holding the mode key toggles the power, which is known to be the other  *)
(* than commanded; tapping it does not.                                    *)
LEMMA ModeKeyIsCommanded ==
  ASSUME TInv, SParts, ShownInv, HoldInv, HoldOff \/ HoldWake \/ TapCycle
  PROVE  PowerMoves
<1>1. panel \in Panels /\ fancoilMode = panel.mode
  BY DEF TInv, TypeOK, SketchTypeOK, ShownInv, LooksAgain, Reading, HoldOff, HoldWake, TapCycle
<1>2. \A m : [panel EXCEPT !.mode = m].mode = m
  BY <1>1 DEF Panels
<1>3. op.cmd = "setMode" /\ op.param = param
  BY DEF SParts, KeysServeTheCommand, InModeLoop, HoldOff, HoldWake, TapCycle
<1>4. CASE HoldOff
  <2>1. param = POWER_OFF /\ panel.mode # POWER_OFF /\ HoldModeKey
    BY <1>1, <1>4 DEF HoldOff, HoldInv
  <2>2. panel'.mode \in {POWER_OFF, panel.mode}
    BY <1>2, <2>1 DEF HoldModeKey, Pressed
  <2> QED BY <1>3, <2>1, <2>2 DEF PowerMoves
<1>5. CASE HoldWake
  <2>1. param # POWER_OFF /\ panel.mode = POWER_OFF
    BY <1>1, <1>5 DEF HoldWake, HoldInv
  <2> QED BY <1>3, <2>1 DEF PowerMoves
<1>6. CASE TapCycle
  <2>1. CASE panel.mode = POWER_OFF
    <3>1. panel' = panel
      BY <1>6, <2>1 DEF TapCycle, TapModeKey, Pressed
    <3> QED BY <3>1 DEF PowerMoves
  <2>2. CASE panel.mode # POWER_OFF
    <3>1. panel'.mode \in {NextMode(panel.mode), panel.mode}
      BY <1>2, <1>6, <2>2 DEF TapCycle, TapModeKey, Pressed
    <3>2. panel.mode \in ShownModes \ {POWER_OFF}
      BY <1>1, <2>2 DEF Panels
    <3>3. NextMode(panel.mode) # POWER_OFF
      BY <3>2, NextModeIsShown
    <3> QED BY <2>2, <3>1, <3>3 DEF PowerMoves
  <2> QED BY <2>1, <2>2
<1> QED BY <1>4, <1>5, <1>6

(* Only the mode key changes the mode of the keypad.                       *)
LEMMA OthersLeaveMode ==
  ASSUME Undisturbed, TInv, [Next]_vars, ~HoldOff, ~HoldWake, ~TapCycle
  PROVE  panel'.mode = panel.mode
<1>1. panel \in Panels
  BY DEF TInv, TypeOK, SketchTypeOK
<1>2. CASE PressPlus \/ PressMinus
  BY <1>1, <1>2, KeysMoveTheirOwn DEF PressPlus, PressMinus
<1>3. CASE ~PressPlus /\ ~PressMinus
  <2>1. UNCHANGED panel
    BY <1>3 DEF Undisturbed, Next, Main, ReadSPI, StoreFirstByte, StoreSecondByte, TestTempFlag, TempTest,
       SetTemp, EndPlus, EndMinus, ClearTempFlag, TestModeFlag, ModeTest, SetMode, EndWake, Poll,
       EndPoll, EndSetMode, ClearModeFlag, ResetFunc, Idle, PowerCycle, Keypad, UserKey, BusFalls,
       BusReturns, PluginStep, Caller, WriteGetTemp, RequestTemp, WriteGetMode, RequestMode,
       WriteCommand, RequestAck, EndDelay, PluginRead, PluginWrite, OtherCommand, Begin, BusWrite,
       ReceiveEvent, RequestEvent, sketchVars, envVars, vars
  <2> QED BY <2>1
<1> QED BY <1>2, <1>3

(* With a sufficient timeout and a bus that loses nothing the fan coil is  *)
(* only switched off by FancoilSetMode,0 and only on by another mode, also *)
(* when presses are missed and have to be repeated (setMode).              *)
THEOREM PowerIsCommanded ==
  ASSUME Undisturbed, WaitSuffices, ~Lossy
  PROVE  Spec => PowerFollowsTheCommand
<1>1. TInv /\ SParts /\ ShownInv /\ HoldInv /\ [Next]_vars => [PowerMoves]_vars
  BY ModeKeyIsCommanded, OthersLeaveMode DEF PowerMoves
<1> QED
  BY <1>1, TInvInvariant, SPartsInvariant, ShownInvInvariant, HoldInvInvariant, PTL
     DEF Spec, PowerFollowsTheCommand, PowerMoves

-----------------------------------------------------------------------------
(***************************************************************************)
(* What PLUGIN_READ answers, and that the plugin and the sketch implement  *)
(* FancoilService, for every choice of modes, parameters and bounds of the *)
(* sketch's loops.                                                         *)
(***************************************************************************)

(* Between a GET_TEMP and its request the sketch has no other command, and *)
(* a set point that is being stored is made of the bytes of two.           *)
ReadInv ==
  /\ fancoilTemp \in Found
  /\ userTemp \in Found
  /\ stage = "tempRequest" => receiveCmd = GET_TEMP

(* A set point decoded is a word whose first byte is 0 or 1.               *)
LEMMA DecodedAreSmall ==
  ASSUME NEW t \in Decoded
  PROVE  t \in Word16 /\ Hi(t) \in {0, 1}
<1>1. t = 0 \/ t \in TempCodes
  BY ShownAssumption DEF Decoded
<1>2. t \in Int /\ 0 <= t /\ t <= 285
  BY <1>1 DEF TempCodes, MIN_TEMP, MAX_TEMP
<1>3. t \div 256 \in {0, 1}
  BY <1>2
<1> QED BY <1>2, <1>3 DEF Word16, Hi

(* So is what a store cut in two leaves.                                   *)
LEMMA FoundAreSmall ==
  ASSUME NEW t \in Found
  PROVE  t \in Word16 /\ Hi(t) \in {0, 1}
<1>1. CASE t \in Decoded
  BY <1>1, DecodedAreSmall
<1>2. ASSUME NEW old \in Decoded, NEW new \in Decoded, t \in Torn(old, new)
      PROVE  t \in Word16 /\ Hi(t) \in {0, 1}
  <2>1. PICK a \in Decoded, b \in Decoded : t = TwoBytes(Hi(a), Lo(b))
    BY <1>2 DEF Torn
  <2>2. Hi(a) \in {0, 1} /\ Lo(b) \in Int /\ 0 <= Lo(b) /\ Lo(b) <= 255
    BY DecodedAreSmall, BytesOfWord DEF Byte
  <2>3. t \in Int /\ 0 <= t /\ t <= 511 /\ t \div 256 \in {0, 1}
    <3> DEFINE h == Hi(a) l == Lo(b) y == h * 256 + l
    <3>1. h \in {0, 1} /\ l \in Int /\ 0 <= l /\ l <= 255 /\ t = y % 65536
      BY <2>1, <2>2 DEF TwoBytes
    <3> HIDE DEF h, l
    <3>2. y \in Int /\ 0 <= y /\ y <= 511
      BY <3>1
    <3> HIDE DEF y
    <3>3. y % 65536 = y
      BY <3>2
    <3> QED BY <3>1, <3>2, <3>3
  <2> QED BY <2>3 DEF Word16, Hi
<1> QED BY <1>1, <1>2 DEF Found

(* The main program stores nothing else, and receives no command.          *)
LEMMA MainReadInv ==
  ASSUME TInv, ReadInv, Main, UNCHANGED pluginVars
  PROVE  ReadInv'
<1>1. fancoilTemp' \in Found
  <2>0. sampled.temp \in Decoded
    BY DEF TInv, TypeOK, SketchTypeOK
  <2>1. CASE StoreFirstByte
    <3>1. fancoilTemp \in Decoded /\ fancoilTemp' \in Torn(fancoilTemp, sampled.temp)
      BY <2>1 DEF StoreFirstByte, TInv, WholeInv
    <3> QED BY <2>0, <3>1 DEF Found
  <2>2. CASE StoreSecondByte
    BY <2>0, <2>2 DEF StoreSecondByte, Found
  <2>3. CASE ResetFunc
    BY <2>3, ShownAreWords DEF ResetFunc, Booted, Found
  <2>4. CASE ~StoreFirstByte /\ ~StoreSecondByte /\ ~ResetFunc
    <3>1. fancoilTemp' = fancoilTemp
      BY <2>4 DEF Main, ReadSPI, TestTempFlag, TempTest, SetTemp, PressPlus, EndPlus, PressMinus,
         EndMinus, ClearTempFlag, TestModeFlag, ModeTest, SetMode, HoldOff, HoldWake, EndWake,
         TapCycle, Poll, EndPoll, EndSetMode, ClearModeFlag, Idle
    <3> QED BY <3>1 DEF ReadInv
  <2> QED BY <2>1, <2>2, <2>3, <2>4
<1>2. receiveCmd' \in {receiveCmd, GET_TEMP}
  BY DEF Main, ReadSPI, StoreFirstByte, StoreSecondByte, TestTempFlag, TempTest, SetTemp, PressPlus,
     EndPlus, PressMinus, EndMinus, ClearTempFlag, TestModeFlag, ModeTest, SetMode, HoldOff,
     HoldWake, EndWake, TapCycle, Poll, EndPoll, EndSetMode, ClearModeFlag, ResetFunc, Booted,
     Idle, isrVars
<1> QED BY <1>1, <1>2 DEF ReadInv, pluginVars

(* Asked for the set point, the sketch answers with it, and the plugin     *)
(* takes it over unless it is 255.                                         *)
LEMMA TempIsRead ==
  ASSUME ~Lossy, ReadInv, RequestTemp
  PROVE  userTemp' = IF fancoilTemp = 255 THEN userTemp ELSE fancoilTemp
<1>1. fancoilTemp \in Word16
  BY FoundAreSmall DEF ReadInv
<1>2. receiveCmd = GET_TEMP /\ TempAnswer(WordRead)
  BY DEF RequestTemp, ReadInv
<1>3. ByteOfReply(1) = Hi(fancoilTemp) /\ ByteOfReply(2) = Lo(fancoilTemp)
  BY <1>2 DEF ByteOfReply, Reply, GET_TEMP, GET_MODE, SET_TEMP, SET_MODE, RESET
<1>4. WordRead = fancoilTemp
  BY <1>1, <1>3, TwoBytesInverse DEF WordRead
<1> QED BY <1>2, <1>4 DEF TempAnswer

(* ReadInv is inductive together with TInv.                                *)
LEMMA ReadInvInvariant ==
  ASSUME ~Lossy
  PROVE  Spec => []ReadInv
<1>1. Init => ReadInv
  BY ShownAreWords DEF Init, SketchInit, ReadInv, Found
<1>2. TInv /\ ReadInv /\ [Next]_vars => ReadInv'
  <2> SUFFICES ASSUME TInv, ReadInv, [Next]_vars PROVE ReadInv'
    OBVIOUS
  <2>1. CASE Main /\ UNCHANGED pluginVars
    BY <2>1, MainReadInv
  <2>2. CASE (PowerCycle \/ Keypad) /\ UNCHANGED pluginVars
    BY <2>2, ShownAreWords DEF ReadInv, Found, PowerCycle, Booted, Keypad, UserKey, BusFalls, BusReturns,
       mainVars, isrVars, pluginVars
  <2>3. CASE WriteGetTemp
    BY <2>3 DEF ReadInv, WriteGetTemp, BusWrite, ReceiveEvent, mainVars
  <2>4. CASE RequestTemp
    <3>1. userTemp' \in {userTemp, fancoilTemp}
      BY <2>4, TempIsRead
    <3> QED BY <2>4, <3>1 DEF ReadInv, RequestTemp, RequestEvent, mainVars
  <2>5. CASE WriteGetMode \/ RequestMode \/ WriteCommand \/ RequestAck \/ EndDelay \/ Caller
    BY <2>5 DEF ReadInv, WriteGetMode, RequestMode, WriteCommand, RequestAck, EndDelay, Caller, PluginRead,
       PluginWrite, OtherCommand, Begin, BusWrite, ReceiveEvent, RequestEvent, mainVars, sketchVars
  <2>6. CASE UNCHANGED vars
    BY <2>6 DEF ReadInv, vars, sketchVars, mainVars, isrVars, pluginVars
  <2> QED BY <2>1, <2>2, <2>3, <2>4, <2>5, <2>6 DEF Next, PluginStep
<1> QED BY <1>1, <1>2, TInvInvariant, PTL DEF Spec

(* Whatever the keypad, its user, the noise, the timeout and the power do, *)
(* the task's value only ever is a set point decodeData stored, the 0 of a *)
(* boot, or the bytes of two of these (getFancoilTemp, requestEvent).      *)
THEOREM ReadingsAreDecoded ==
  ASSUME ~Lossy
  PROVE  Spec => []ReadingIsDecoded
<1>1. ReadInv => ReadingIsDecoded
  BY DEF ReadInv, ReadingIsDecoded
<1> QED BY <1>1, ReadInvInvariant, PTL

(* Under the same condition PLUGIN_READ stores the set point the sketch    *)
(* holds at the moment of the request, also when the sketch has booted     *)
(* since the GET_TEMP was written; of 255 it keeps the value it had.       *)
THEOREM ReadingsAreCurrent ==
  ASSUME ~Lossy
  PROVE  Spec => ReadReturnsSetPoint
<1> DEFINE Current == stage = "tempRequest" /\ stage' = "modeWrite" =>
                        userTemp' = IF fancoilTemp = 255 THEN userTemp ELSE fancoilTemp
<1>1. TInv /\ ReadInv /\ [Next]_vars => [Current]_vars
  <2> SUFFICES ASSUME TInv, ReadInv, [Next]_vars, stage = "tempRequest", stage' = "modeWrite"
               PROVE  userTemp' = IF fancoilTemp = 255 THEN userTemp ELSE fancoilTemp
    OBVIOUS
  <2>1. RequestTemp
    BY DEF Next, PluginStep, Caller, WriteGetTemp, WriteGetMode, RequestMode, WriteCommand, RequestAck,
       EndDelay, PluginRead, PluginWrite, OtherCommand, Begin, pluginVars, vars
  <2> QED BY <2>1, TempIsRead
<1> QED BY <1>1, TInvInvariant, ReadInvInvariant, PTL DEF Spec, ReadReturnsSetPoint
-----------------------------------------------------------------------------
(* The refinement: an I2C bus that loses nothing and a timeout that        *)
(* outlasts the sketch's work.                                             *)
Orderly == WaitSuffices /\ ~Lossy

(* Keys are pressed for goals in range, the mode key is held to wake the   *)
(* fan coil only for a mode other than off, the mode is taken in before    *)
(* the set point is, and a request for the mode is answered with it, or,   *)
(* by a sketch that has booted since, with the set point.                  *)
GoalInv ==
  /\ InTempLoop => InTempRange(Quantise(param))
  /\ InModeLoop => InModeRange(param)
  /\ pc = "wake" \/ (pc \in Reading /\ ret = "wake") => param # POWER_OFF
  /\ pc = "store2" => fancoilMode = sampled.mode
  /\ stage = "modeRequest" => receiveCmd \in {GET_MODE, GET_TEMP}

(* The main program sets its goals by setTemp's and setMode's own tests.   *)
LEMMA MainGoalInv ==
  ASSUME TInv, SParts, GoalInv, Main, UNCHANGED pluginVars
  PROVE  GoalInv'
<1>0. ret \in ReturnLabels /\ (resetFlag = 1 => stage = "delay")
  BY DEF TInv, TypeOK, SketchTypeOK, SParts, ServedIsCurrent
<1> USE DEF GoalInv, InTempLoop, InModeLoop, Reading, Goto, ReadThen, mainVars, isrVars, pluginVars
<1>1. CASE ReadSPI
  BY <1>1 DEF ReadSPI
<1>2. CASE StoreFirstByte
  BY <1>2 DEF StoreFirstByte
<1>3. CASE StoreSecondByte
  BY <1>0, <1>3 DEF StoreSecondByte, ReturnLabels
<1>4. CASE TestTempFlag
  BY <1>4 DEF TestTempFlag
<1>5. CASE TempTest
  BY <1>5 DEF TempTest
<1>6. CASE SetTemp
  BY <1>6 DEF SetTemp
<1>7. CASE PressPlus
  BY <1>7 DEF PressPlus
<1>8. CASE EndPlus
  BY <1>8 DEF EndPlus
<1>9. CASE PressMinus
  BY <1>9 DEF PressMinus
<1>10. CASE EndMinus
  BY <1>10 DEF EndMinus
<1>11. CASE ClearTempFlag
  BY <1>11 DEF ClearTempFlag
<1>12. CASE TestModeFlag
  BY <1>12 DEF TestModeFlag
<1>13. CASE ModeTest
  BY <1>13 DEF ModeTest
<1>14. CASE SetMode
  BY <1>14 DEF SetMode
<1>15. CASE HoldOff
  BY <1>15 DEF HoldOff
<1>16. CASE HoldWake
  BY <1>16 DEF HoldWake
<1>17. CASE EndWake
  BY <1>17 DEF EndWake
<1>18. CASE TapCycle
  BY <1>18 DEF TapCycle
<1>19. CASE Poll
  BY <1>19 DEF Poll
<1>20. CASE EndPoll
  BY <1>20 DEF EndPoll
<1>21. CASE EndSetMode
  BY <1>21 DEF EndSetMode
<1>22. CASE ClearModeFlag
  BY <1>22 DEF ClearModeFlag
<1>23. CASE ResetFunc
  BY <1>0, <1>23 DEF ResetFunc, Booted
<1>24. CASE Idle
  BY <1>24 DEF Idle
<1> QED
  BY <1>1, <1>2, <1>3, <1>4, <1>5, <1>6, <1>7, <1>8, <1>9, <1>10, <1>11, <1>12, <1>13, <1>14,
     <1>15, <1>16, <1>17, <1>18, <1>19, <1>20, <1>21, <1>22, <1>23, <1>24 DEF Main

(* Goals last while the plugin works, and GET_MODE is the last command     *)
(* before the request for the mode.                                        *)
LEMMA OthersGoalInv ==
  ASSUME ~Lossy, GoalInv,
         \/ PluginStep \/ Caller \/ UNCHANGED vars
         \/ (PowerCycle \/ Keypad) /\ UNCHANGED pluginVars
  PROVE  GoalInv'
<1> USE DEF mainVars, isrVars, sketchVars, pluginVars
<1>1. CASE PowerCycle
  BY <1>1 DEF PowerCycle, Booted, GoalInv, InTempLoop, InModeLoop, Reading
<1>2. CASE ~PowerCycle
  <2>1. UNCHANGED mainVars
    BY <1>2 DEF PluginStep, Caller, WriteGetTemp, RequestTemp, WriteGetMode, RequestMode, WriteCommand,
       RequestAck, EndDelay, PluginRead, PluginWrite, OtherCommand, Begin, BusWrite, ReceiveEvent,
       RequestEvent, Keypad, UserKey, BusFalls, BusReturns, vars
  <2>2. (stage = "modeRequest" => receiveCmd \in {GET_MODE, GET_TEMP})'
    BY <1>2 DEF GoalInv, PluginStep, Caller, WriteGetTemp, RequestTemp, WriteGetMode, RequestMode,
       WriteCommand, RequestAck, EndDelay, PluginRead, PluginWrite, OtherCommand, Begin, BusWrite,
       ReceiveEvent, RequestEvent, Keypad, UserKey, BusFalls, BusReturns, vars
  <2> QED BY <2>1, <2>2 DEF GoalInv, InTempLoop, InModeLoop, Reading
<1> QED BY <1>1, <1>2

(* GoalInv is inductive together with the invariants before it.            *)
LEMMA GoalInvInvariant ==
  ASSUME Orderly
  PROVE  Spec => []GoalInv
<1>1. Init => GoalInv
  BY DEF Init, SketchInit, GoalInv, InTempLoop, InModeLoop, Reading
<1>2. TInv /\ SParts /\ GoalInv /\ [Next]_vars => GoalInv'
  BY MainGoalInv, OthersGoalInv DEF Next, Orderly
<1>3. WaitSuffices /\ ~Lossy
  BY DEF Orderly
<1> QED BY <1>1, <1>2, <1>3, TInvInvariant, SPartsInvariant, PTL DEF Spec
-----------------------------------------------------------------------------
(* The job of the service while a flag is up, and while none is.           *)
LEMMA JobOfFlag ==
  ASSUME TInv, SParts
  PROVE  /\ setTempFlag = 0 /\ setModeFlag = 0 => jobBar = Service!NoJob
         /\ setTempFlag = 1 => jobBar = [kind |-> "temp", want |-> op.param] /\ setModeFlag = 0
         /\ setModeFlag = 1 => jobBar = [kind |-> "mode", want |-> op.param] /\ setTempFlag = 0
<1>1. setTempFlag \in {0, 1} /\ setModeFlag \in {0, 1}
  BY DEF TInv, TypeOK, SketchTypeOK
<1> QED BY <1>1 DEF jobBar, Service!NoJob, SParts, ServedIsCurrent

(* The keys of the set point are pressed for the job, towards its goal; a  *)
(* press the keypad misses, or that leads nowhere, is no step.             *)
LEMMA PressImplements ==
  ASSUME TInv, SParts, GoalInv, PressPlus \/ PressMinus, UNCHANGED pluginVars
  PROVE  [Service!DriveTemp]_(Service!vars)
<1>1. UNCHANGED <<sampled, fancoilTemp, fancoilMode, userTemp, userMode, jobBar, stage, receiveCmd>>
  BY DEF PressPlus, PressMinus, flagVars, isrVars, pluginVars, jobBar
<1>2. setTempFlag = 1 /\ param = op.param /\ InTempRange(Quantise(param))
  BY DEF PressPlus, PressMinus, SParts, PhaseInv, TempPhase, KeysServeTheCommand, InTempLoop, GoalInv
<1>3. jobBar = [kind |-> "temp", want |-> param]
  BY <1>2, JobOfFlag
<1>4. panel \in Panels /\ \A t \in ShownTemps : t \in Int
  <2>1. panel \in Panels
    BY DEF TInv, TypeOK, SketchTypeOK
  <2>2. \A w \in Word16 : w \in Int
    BY DEF Word16
  <2> QED BY <2>1, <2>2, ShownAreWords
<1>5. panel' = panel \/ \E t \in ShownTemps :
        /\ \/ fancoilTemp < Quantise(param) /\ t > panel.temp
           \/ fancoilTemp > Quantise(param) /\ t < panel.temp
        /\ panel' = [panel EXCEPT !.temp = t]
  <2>0. panel.temp \in ShownTemps /\ panel.temp \in Int /\ [panel EXCEPT !.temp = panel.temp] = panel
    BY <1>4 DEF Panels
  <2>1. CASE PressPlus
    <3>1. panel' \in {[panel EXCEPT !.temp = Up(panel.temp)], panel}
      BY <2>1 DEF PressPlus, PlusKey, Pressed
    <3>2. Up(panel.temp) = panel.temp
            \/ (Up(panel.temp) \in ShownTemps /\ Up(panel.temp) > panel.temp)
      BY <2>0 DEF Up
    <3>3. fancoilTemp < Quantise(param)
      BY <2>1 DEF PressPlus
    <3> QED BY <2>0, <3>1, <3>2, <3>3
  <2>2. CASE PressMinus
    <3>1. panel' \in {[panel EXCEPT !.temp = Down(panel.temp)], panel}
      BY <2>2 DEF PressMinus, MinusKey, Pressed
    <3>2. Down(panel.temp) = panel.temp
            \/ (Down(panel.temp) \in ShownTemps /\ Down(panel.temp) < panel.temp)
      BY <2>0 DEF Down
    <3>3. fancoilTemp > Quantise(param)
      BY <2>2 DEF PressMinus
    <3> QED BY <2>0, <3>1, <3>2, <3>3
  <2> QED BY <2>1, <2>2
<1>6. CASE panel' = panel
  BY <1>1, <1>6 DEF Service!vars
<1>7. CASE panel' # panel
  <2>1. jobBar.kind = "temp" /\ jobBar.want = param
    BY <1>3
  <2>2. UNCHANGED <<sampled, [temp |-> fancoilTemp, mode |-> fancoilMode], jobBar,
                    [temp |-> userTemp, mode |-> userMode],
                    stage = "modeRequest" /\ receiveCmd = GET_TEMP>>
    BY <1>1
  <2>3. Service!Quantise(param) = Quantise(param)
        /\ Service!InTempRange(Quantise(param)) = InTempRange(Quantise(param))
    BY DEF Quantise, Service!Quantise, InTempRange, Service!InTempRange, MIN_TEMP, MAX_TEMP,
       Service!MIN_TEMP, Service!MAX_TEMP
  <2> QED BY <1>2, <1>5, <1>7, <2>1, <2>2, <2>3 DEF Service!DriveTemp
<1> QED BY <1>6, <1>7

(* So is the mode key, held or tapped.                                     *)
LEMMA ModeKeyImplements ==
  ASSUME TInv, SParts, GoalInv, HoldOff \/ HoldWake \/ TapCycle, UNCHANGED pluginVars
  PROVE  [Service!DriveMode]_(Service!vars)
<1>1. UNCHANGED <<sampled, fancoilTemp, fancoilMode, userTemp, userMode, jobBar, stage, receiveCmd>>
  BY DEF HoldOff, HoldWake, TapCycle, flagVars, isrVars, pluginVars, jobBar
<1>2. setModeFlag = 1 /\ param = op.param /\ InModeRange(param) /\ fancoilMode # param
  BY DEF HoldOff, HoldWake, TapCycle, SParts, PhaseInv, ModePhase, KeysServeTheCommand, InModeLoop,
     GoalInv
<1>3. jobBar = [kind |-> "mode", want |-> param]
  BY <1>2, JobOfFlag
<1>4. panel \in Panels
  BY DEF TInv, TypeOK, SketchTypeOK
<1>5. panel' = panel \/ \E m \in ShownModes : panel' = [panel EXCEPT !.mode = m]
  <2>1. CASE HoldModeKey
    BY <2>1, ShownAssumption DEF HoldModeKey, Pressed
  <2>2. CASE TapModeKey
    <3>1. CASE panel.mode = POWER_OFF
      BY <2>2, <3>1 DEF TapModeKey, Pressed
    <3>2. CASE panel.mode # POWER_OFF
      <4>1. NextMode(panel.mode) \in ShownModes
        BY <1>4, <3>2, NextModeIsShown DEF Panels
      <4> QED BY <2>2, <3>2, <4>1 DEF TapModeKey, Pressed
    <3> QED BY <3>1, <3>2
  <2> QED BY <2>1, <2>2 DEF HoldOff, HoldWake, TapCycle
<1>6. CASE panel' = panel
  BY <1>1, <1>6 DEF Service!vars
<1>7. CASE panel' # panel
  <2>1. jobBar.kind = "mode" /\ jobBar.want = param
    BY <1>3
  <2>2. UNCHANGED <<sampled, [temp |-> fancoilTemp, mode |-> fancoilMode], jobBar,
                    [temp |-> userTemp, mode |-> userMode],
                    stage = "modeRequest" /\ receiveCmd = GET_TEMP>>
    BY <1>1
  <2>3. Service!InModeRange(param) = InModeRange(param)
    BY DEF InModeRange, Service!InModeRange, Modes, Service!Modes
  <2> QED BY <1>2, <1>5, <1>7, <2>1, <2>2, <2>3 DEF Service!DriveMode
<1> QED BY <1>6, <1>7

(* Every step of the main program is one of the service, or none.          *)
LEMMA MainImplements ==
  ASSUME TInv, SParts, GoalInv, Main, UNCHANGED pluginVars
  PROVE  [Service!Next]_(Service!vars)
<1>0. UNCHANGED <<userTemp, userMode, stage>>
  BY DEF pluginVars
<1>1. CASE ReadSPI
  <2>1. UNCHANGED <<fancoilTemp, fancoilMode, panel, jobBar, receiveCmd>> /\ sampled' \in {panel} \cup Misread
    BY <1>1 DEF ReadSPI, flagVars, isrVars, envVars, jobBar
  <2>2. Misread = Service!Mistaken
    BY DEF Misread, Service!Mistaken
  <2> QED BY <1>0, <2>1, <2>2 DEF Service!Next, Service!Look
<1>2. CASE StoreFirstByte
  <2>1. UNCHANGED <<sampled, panel, jobBar, receiveCmd>> /\ fancoilMode' = sampled.mode
    BY <1>2 DEF StoreFirstByte, flagVars, isrVars, envVars, jobBar
  <2>2. fancoilTemp' \in Service!Halves
    BY <1>2 DEF StoreFirstByte, Torn, Service!Halves, TwoBytes, Service!TwoBytes, Hi, Service!Hi, Lo,
       Service!Lo
  <2> QED BY <1>0, <2>1, <2>2 DEF Service!Next, Service!TakeIn
<1>3. CASE StoreSecondByte
  <2>1. UNCHANGED <<sampled, panel, jobBar, fancoilMode, receiveCmd>> /\ fancoilTemp' = sampled.temp
    BY <1>3 DEF StoreSecondByte, flagVars, isrVars, envVars, jobBar
  <2>2. fancoilMode = sampled.mode
    BY <1>3 DEF StoreSecondByte, GoalInv
  <2> QED BY <1>0, <2>1, <2>2 DEF Service!Next, Service!TakeIn
<1>4. CASE PressPlus \/ PressMinus
  BY <1>4, PressImplements DEF Service!Next
<1>5. CASE HoldOff \/ HoldWake \/ TapCycle
  BY <1>5, ModeKeyImplements DEF Service!Next
<1>6. CASE ClearTempFlag \/ ClearModeFlag
  <2>1. UNCHANGED <<sampled, panel, fancoilTemp, fancoilMode, receiveCmd>>
    BY <1>6 DEF ClearTempFlag, ClearModeFlag, envVars, isrVars
  <2>2. setTempFlag' = 0 /\ setModeFlag' = 0
    <3>1. CASE ClearTempFlag
      BY <3>1, JobOfFlag DEF ClearTempFlag, SParts, PhaseInv, TempPhase
    <3>2. CASE ClearModeFlag
      BY <3>2, JobOfFlag DEF ClearModeFlag, SParts, PhaseInv, ModePhase
    <3> QED BY <1>6, <3>1, <3>2
  <2>3. jobBar' = Service!NoJob
    BY <2>2 DEF jobBar, Service!NoJob
  <2> QED BY <1>0, <2>1, <2>3 DEF Service!Next, Service!EndJob
<1>7. CASE ResetFunc
  <2>1. /\ UNCHANGED panel /\ sampled' = [temp |-> 0, mode |-> 0]
        /\ fancoilTemp' = 0 /\ fancoilMode' = 0 /\ setTempFlag' = 0 /\ setModeFlag' = 0
    BY <1>7 DEF ResetFunc, Booted, envVars
  <2>2. jobBar' = Service!NoJob
    BY <2>1 DEF jobBar, Service!NoJob
  <2> QED BY <1>0, <2>1, <2>2 DEF Service!Next, Service!Restart
<1>8. CASE \/ TestTempFlag \/ TempTest \/ SetTemp \/ EndPlus \/ EndMinus \/ TestModeFlag \/ ModeTest
           \/ SetMode \/ EndWake \/ Poll \/ EndPoll \/ EndSetMode \/ Idle
  <2>1. UNCHANGED <<sampled, fancoilTemp, fancoilMode, panel, setTempFlag, setModeFlag, receivedParam,
                    receiveCmd>>
    BY <1>8 DEF TestTempFlag, TempTest, SetTemp, EndPlus, EndMinus, TestModeFlag, ModeTest, SetMode,
       EndWake, Poll, EndPoll, EndSetMode, Idle, flagVars, isrVars, envVars
  <2> QED BY <1>0, <2>1 DEF Service!vars, jobBar
<1> QED BY <1>1, <1>2, <1>3, <1>4, <1>5, <1>6, <1>7, <1>8 DEF Main

(* So is every step of the plugin, its caller, the keypad, its user and    *)
(* the power supply.                                                       *)
LEMMA OthersImplement ==
  ASSUME Orderly, TInv, SParts, ReadInv, GoalInv,
         PluginStep \/ Caller \/ ((PowerCycle \/ Keypad) /\ UNCHANGED pluginVars)
  PROVE  [Service!Next]_(Service!vars)
<1> DEFINE forgotBar == stage = "modeRequest" /\ receiveCmd = GET_TEMP
<1>1. CASE \/ WriteGetTemp \/ WriteGetMode \/ EndDelay \/ Caller
           \/ (BusFalls \/ BusReturns) /\ UNCHANGED pluginVars
  <2>1. UNCHANGED <<sampled, fancoilTemp, fancoilMode, panel, setTempFlag, setModeFlag, receivedParam,
                    userTemp, userMode>>
    BY <1>1 DEF Orderly, WriteGetTemp, WriteGetMode, EndDelay, Caller, PluginRead, PluginWrite,
       OtherCommand, Begin, BusWrite, ReceiveEvent, BusFalls, BusReturns, mainVars, flagVars, isrVars,
       envVars, sketchVars, pluginVars
  <2>2. UNCHANGED forgotBar
    BY <1>1 DEF Orderly, WriteGetTemp, WriteGetMode, EndDelay, Caller, PluginRead, PluginWrite,
       OtherCommand, Begin, BusWrite, ReceiveEvent, BusFalls, BusReturns, isrVars, pluginVars,
       GET_TEMP, GET_MODE
  <2> QED BY <2>1, <2>2 DEF Service!vars, jobBar
<1>2. CASE UserKey /\ UNCHANGED pluginVars
  BY <1>2 DEF UserKey, Panels, mainVars, flagVars, isrVars, pluginVars, jobBar, Service!Next,
     Service!UserKey, Service!Panels
<1>3. CASE WriteCommand
  <2>1. UNCHANGED <<sampled, fancoilTemp, fancoilMode, panel, setTempFlag, setModeFlag, userTemp, userMode>>
    BY <1>3 DEF Orderly, WriteCommand, BusWrite, ReceiveEvent, mainVars, flagVars, envVars
  <2>2. setTempFlag = 0 /\ setModeFlag = 0
    BY <1>3, NoFlagNoPhase DEF WriteCommand
  <2>3. UNCHANGED forgotBar
    BY <1>3 DEF WriteCommand
  <2> QED BY <2>1, <2>2, <2>3 DEF Service!vars, jobBar
<1>4. CASE RequestTemp
  <2>1. userTemp' \in {userTemp, fancoilTemp} /\ UNCHANGED userMode
    BY <1>4, TempIsRead DEF Orderly, RequestTemp
  <2>2. UNCHANGED <<sampled, fancoilTemp, fancoilMode, panel, setTempFlag, setModeFlag, receivedParam>>
    BY <1>4 DEF Orderly, RequestTemp, ReadInv, RequestEvent, mainVars, isrVars, envVars, GET_TEMP,
       SET_TEMP, SET_MODE
  <2>3. UNCHANGED forgotBar
    BY <1>4 DEF RequestTemp
  <2>4. CASE userTemp' = userTemp
    BY <2>1, <2>2, <2>3, <2>4 DEF jobBar, Service!vars
  <2>5. CASE userTemp' = fancoilTemp
    BY <2>1, <2>2, <2>3, <2>5 DEF jobBar, Service!Next, Service!AnswerTemp
  <2> QED BY <2>1, <2>4, <2>5
<1>5. CASE RequestMode
  <2>1. receiveCmd \in {GET_MODE, GET_TEMP} /\ ModeAnswer(ByteOfReply(1)) /\ UNCHANGED userTemp
        /\ stage = "modeRequest" /\ stage' = "idle"
    BY <1>5 DEF Orderly, RequestMode, GoalInv
  <2>2. UNCHANGED <<sampled, fancoilTemp, fancoilMode, panel, setTempFlag, setModeFlag, receivedParam>>
    BY <1>5, <2>1 DEF Orderly, RequestMode, RequestEvent, mainVars, isrVars, envVars, GET_MODE,
       GET_TEMP, SET_TEMP, SET_MODE
  <2>3. userMode' = IF forgotBar THEN Hi(fancoilTemp) ELSE fancoilMode
    <3>1. CASE receiveCmd = GET_MODE
      <4>1. fancoilMode \in Modes
        BY ShownAreWords DEF TInv, TypeOK, SketchTypeOK
      <4>2. ByteOfReply(1) = fancoilMode /\ fancoilMode # 255
        BY <3>1, <4>1 DEF ByteOfReply, Reply, GET_TEMP, GET_MODE, SET_TEMP, SET_MODE, RESET, Modes
      <4> QED BY <2>1, <3>1, <4>2 DEF ModeAnswer, GET_TEMP, GET_MODE
    <3>2. CASE receiveCmd = GET_TEMP
      <4>1. Hi(fancoilTemp) # 255
        BY FoundAreSmall DEF ReadInv
      <4>2. ByteOfReply(1) = Hi(fancoilTemp)
        BY <3>2 DEF ByteOfReply, Reply, GET_TEMP, GET_MODE, SET_TEMP, SET_MODE, RESET
      <4> QED BY <2>1, <3>2, <4>1, <4>2 DEF ModeAnswer
    <3> QED BY <2>1, <3>1, <3>2
  <2>4. forgotBar' = FALSE /\ Service!Hi(fancoilTemp) = Hi(fancoilTemp)
    BY <2>1 DEF Hi, Service!Hi
  <2> QED BY <2>1, <2>2, <2>3, <2>4 DEF jobBar, Service!Next, Service!AnswerMode
<1>6. CASE RequestAck
  <2>1. RequestEvent /\ UNCHANGED <<userTemp, userMode, forgotBar>> /\ stage = "request"
    BY <1>6 DEF Orderly, RequestAck
  <2>2. UNCHANGED <<sampled, fancoilTemp, fancoilMode, panel, receivedParam>>
    BY <2>1 DEF RequestEvent, mainVars, isrVars, envVars
  <2>3. setTempFlag = 0 /\ setModeFlag = 0 /\ jobBar = Service!NoJob
    BY <2>1, NoFlagNoPhase, JobOfFlag
  <2>4. op.cmd \in {"setTemp", "setMode", "reset"} /\ receiveCmd \in {GET_TEMP, CommandByte(op)}
        /\ (receiveCmd \in {SET_TEMP, SET_MODE} => receivedParam = op.param)
    BY <2>1 DEF SParts, RequestInv
  <2>5. CASE receiveCmd \notin {SET_TEMP, SET_MODE}
    <3>1. setTempFlag' = setTempFlag /\ setModeFlag' = setModeFlag
      BY <2>1, <2>5 DEF RequestEvent
    <3> QED BY <2>1, <2>2, <3>1 DEF jobBar, Service!vars
  <2>6. CASE receiveCmd \in {SET_TEMP, SET_MODE}
    <3>1. /\ receiveCmd = SET_TEMP => op.cmd = "setTemp" /\ setTempFlag' = 1
          /\ receiveCmd = SET_MODE => op.cmd = "setMode" /\ setTempFlag' = 0 /\ setModeFlag' = 1
      BY <2>1, <2>3, <2>4 DEF RequestEvent, CommandByte, GET_TEMP, SET_TEMP, SET_MODE, RESET
    <3>2. op \in Ops
      BY DEF TInv, TypeOK
    <3>3. jobBar' \in Service!Jobs
      <4>1. CASE receiveCmd = SET_TEMP
        <5>1. op.param \in TempParams
          BY <3>1, <3>2, <4>1 DEF Ops, NoOp
        <5>2. jobBar' = [kind |-> "temp", want |-> op.param]
          BY <2>2, <2>4, <3>1, <4>1 DEF jobBar
        <5> QED BY <5>1, <5>2 DEF Service!Jobs
      <4>2. CASE receiveCmd = SET_MODE
        <5>1. op.param \in ModeParams
          BY <3>1, <3>2, <4>2 DEF Ops, NoOp
        <5>2. jobBar' = [kind |-> "mode", want |-> op.param]
          BY <2>2, <2>4, <3>1, <4>2 DEF jobBar
        <5> QED BY <5>1, <5>2 DEF Service!Jobs
      <4> QED BY <2>6, <4>1, <4>2
    <3> QED BY <2>1, <2>2, <2>3, <3>3 DEF Service!Next, Service!Accept
  <2> QED BY <2>5, <2>6
<1>7. CASE PowerCycle /\ UNCHANGED pluginVars
  <2>1. /\ UNCHANGED <<panel, userTemp, userMode>> /\ sampled' = [temp |-> 0, mode |-> 0]
        /\ fancoilTemp' = 0 /\ fancoilMode' = 0 /\ setTempFlag' = 0 /\ setModeFlag' = 0
    BY <1>7 DEF PowerCycle, Booted, envVars, pluginVars
  <2>2. jobBar' = Service!NoJob
    BY <2>1 DEF jobBar, Service!NoJob
  <2>3. forgotBar' \in BOOLEAN
    OBVIOUS
  <2> QED BY <2>1, <2>2, <2>3 DEF Service!Next, Service!Restart
<1> QED
  BY <1>1, <1>2, <1>3, <1>4, <1>5, <1>6, <1>7 DEF PluginStep, Keypad

(* On an I2C bus that loses nothing and with a timeout that outlasts the   *)
(* sketch's work, plugin and sketch implement the one-job-at-a-time remote *)
(* control: the shared flags and parameter, the interrupts and the nested  *)
(* loops of retries are not to be seen from outside.  Nothing is assumed   *)
(* of the set points, the noise, the user, the presses and the power.      *)
THEOREM Implementation ==
  ASSUME Orderly
  PROVE  Spec => ImplementsService
<1>1. Init => Service!Init
  BY DEF Init, SketchInit, Panels, jobBar, Service!Init, Service!NoJob, Service!Panels
<1>2. TInv /\ SParts /\ ReadInv /\ GoalInv /\ [Next]_vars => [Service!Next]_(Service!vars)
  <2> SUFFICES ASSUME TInv, SParts, ReadInv, GoalInv, [Next]_vars
               PROVE  [Service!Next]_(Service!vars)
    OBVIOUS
  <2>1. CASE UNCHANGED vars
    BY <2>1 DEF vars, sketchVars, mainVars, flagVars, isrVars, envVars, pluginVars, jobBar, Service!vars
  <2> QED BY <2>1, MainImplements, OthersImplement DEF Next
<1>3. WaitSuffices /\ ~Lossy
  BY DEF Orderly
<1> QED
  BY <1>1, <1>2, <1>3, TInvInvariant, SPartsInvariant, ReadInvInvariant, GoalInvInvariant, PTL
     DEF Spec, ImplementsService, Service!Spec
=============================================================================
