------------------------- MODULE FancoilRefinement --------------------------
(***************************************************************************)
(* The plugin and the sketch implement FancoilService.  The job is the     *)
(* flag that is up with the shared parameter, what the service has seen is *)
(* what the sketch last decoded, its answers are the task's user values.   *)
(***************************************************************************)
EXTENDS FancoilSystem

jobBar ==
  IF setTempFlag = 1 THEN [kind |-> "temp", want |-> receivedParam]
  ELSE IF setModeFlag = 1 THEN [kind |-> "mode", want |-> receivedParam]
  ELSE [kind |-> "none", want |-> 0]

Service == INSTANCE FancoilService WITH
  look <- sampled,
  seen <- [temp |-> fancoilTemp, mode |-> fancoilMode],
  job <- jobBar,
  answer <- [temp |-> userTemp, mode |-> userMode],
  forgot <- stage = "modeRequest" /\ receiveCmd = GET_TEMP

(* Every behaviour of plugin, bus and sketch on an I2C bus that loses      *)
(* nothing and with a timeout that outlasts the sketch's work is one of    *)
(* the one-job-at-a-time remote control, through noise, power cycles and   *)
(* missed presses.  With UserActive any change of the keypad may be the    *)
(* user's, and what is left is said of looks, jobs and answers.            *)
ImplementsService == Service!Spec
=============================================================================
