---------------------------- MODULE EspWifiProofs ---------------------------
(***************************************************************************)
(* A node whose services are initialised is never in the middle of an      *)
(* attempt to connect, for every choice of settings, stations and          *)
(* surroundings, and wherever the callbacks of the radio fall.             *)
(***************************************************************************)
EXTENDS EspWifi, TLAPS

USE DEF Disconnected, Connected, GotIP, Initialized, LastAttempt

\* WiFiConnectRelaxed is only entered by a node that is not initialised, and only
\* the loop, which is then elsewhere, initialises the services.
THEOREM NoAttemptWhileConnected == Spec => []ReadyToRetry
<1>1. Init => ReadyToRetry
  BY DEF Init, ReadyToRetry
<1>2. ReadyToRetry /\ [Next]_vars => ReadyToRetry'
  <2> SUFFICES ASSUME ReadyToRetry, [Next]_vars PROVE ReadyToRetry'
    OBVIOUS
  <2>1. CASE LoopSetup
    BY <2>1 DEF ReadyToRetry, LoopSetup, Relaxed
  <2>2. CASE EndSetup
    BY <2>2 DEF ReadyToRetry, EndSetup
  <2>3. CASE ProcessConnect
    BY <2>3 DEF ReadyToRetry, ProcessConnect
  <2>4. CASE ConnectStatic
    BY <2>4 DEF ReadyToRetry, ConnectStatic, MarkGotIP
  <2>5. CASE ProcessGotIP
    BY <2>5 DEF ReadyToRetry, ProcessGotIP
  <2>6. CASE InitServices
    BY <2>6 DEF ReadyToRetry, InitServices
  <2>7. CASE ProcessDisconnect
    BY <2>7 DEF ReadyToRetry, ProcessDisconnect
  <2>8. CASE ProcessAPmode
    BY <2>8 DEF ReadyToRetry, ProcessAPmode
  <2>9. CASE CheckAP
    BY <2>9 DEF ReadyToRetry, CheckAP
  <2>10. CASE CheckIP
    BY <2>10 DEF ReadyToRetry, CheckIP
  <2>11. CASE CheckRetry
    BY <2>11 DEF ReadyToRetry, CheckRetry, Relaxed
  <2>12. CASE Try
    BY <2>12 DEF ReadyToRetry, Try
  <2>13. CASE Begin
    BY <2>13 DEF ReadyToRetry, Begin
  <2>14. CASE Radio
    BY <2>14 DEF ReadyToRetry, Radio, Joins, Leaves, GetsAddress, Loses, OnConnected,
                 OnDisconnect, MarkGotIP, KeepNode
  <2>15. CASE World
    BY <2>15 DEF ReadyToRetry, World, Fails, ComesOrGoes, Drops, LeaseLost, ClientComes,
                 ClientGoes, WizardConnects, WizardDone, SavesSettings, OnDisconnect, KeepNode
  <2>16. CASE SlowConnection \/ Time
    BY <2>16 DEF ReadyToRetry, SlowConnection, Time, RetryTime, ConnectTimeout, APTime, KeepNode
  <2>17. CASE UNCHANGED vars
    BY <2>17 DEF ReadyToRetry, vars
  <2> QED
    BY <2>1, <2>2, <2>3, <2>4, <2>5, <2>6, <2>7, <2>8, <2>9, <2>10, <2>11, <2>12,
       <2>13, <2>14, <2>15, <2>16, <2>17 DEF Next, Loop, Check
<1> QED BY <1>1, <1>2, PTL DEF Spec
-----------------------------------------------------------------------------
\* While an attempt is under way the selected settings are valid: stronger than
\* ConnectsWithValid, which only speaks of its end.
SelectionIsValid ==
  /\ selected \in {0, 1} /\ valid \subseteq {0, 1}
  /\ pc \in {"try", "setSTA", "begin", "setAP"} => selected \in valid

\* When some settings are valid, selectValidWiFiSettings and
\* selectNextWiFiSettings after it choose valid ones.
LEMMA SettingsExist ==
  ASSUME valid \subseteq {0, 1}, NEW s \in {0, 1}
  PROVE  /\ ValidSettings(s) \in {0, 1} /\ NextSettings(s) \in {0, 1}
         /\ valid # {} => ValidSettings(s) \in valid
         /\ s \in valid => NextSettings(s) \in valid
<1>1. 1 - s \in {0, 1} /\ (s = 0 \/ s = 1)
  OBVIOUS
<1>2. NextSettings(s) \in {0, 1} /\ ValidSettings(s) \in {0, 1}
  BY <1>1 DEF ValidSettings, NextSettings
<1>3. valid # {} => s \in valid \/ 1 - s \in valid
  <2>1. ASSUME NEW v \in valid PROVE v = s \/ v = 1 - s
    <3>1. v = 0 \/ v = 1
      BY <2>1
    <3> QED BY <3>1, <1>1
  <2>2. ASSUME valid # {} PROVE \E v \in valid : TRUE
    BY <2>2
  <2> QED BY <2>1, <2>2
<1> QED BY <1>2, <1>3 DEF ValidSettings, NextSettings

\* WiFi.begin is never called with settings that are not filled in, although
\* saved credentials select the first ones and every second attempt the others
\* (tryConnectWiFi).
THEOREM NeverConnectsWithInvalid == Spec => []ConnectsWithValid
<1>1. Init => SelectionIsValid
  BY WifiAssumption DEF Init, SelectionIsValid
<1>2. SelectionIsValid /\ [Next]_vars => SelectionIsValid'
  <2> SUFFICES ASSUME SelectionIsValid, [Next]_vars PROVE SelectionIsValid'
    OBVIOUS
  <2>1. CASE LoopSetup
    BY <2>1, SettingsExist DEF SelectionIsValid, LoopSetup, Relaxed, SwitchOnAP, setup
  <2>2. CASE EndSetup
    BY <2>2 DEF SelectionIsValid, EndSetup
  <2>3. CASE ProcessConnect
    BY <2>3 DEF SelectionIsValid, ProcessConnect, setup
  <2>4. CASE ConnectStatic
    BY <2>4 DEF SelectionIsValid, ConnectStatic, MarkGotIP, setup
  <2>5. CASE ProcessGotIP
    BY <2>5 DEF SelectionIsValid, ProcessGotIP, setup
  <2>6. CASE InitServices
    BY <2>6 DEF SelectionIsValid, InitServices
  <2>7. CASE ProcessDisconnect
    BY <2>7 DEF SelectionIsValid, ProcessDisconnect, setup
  <2>8. CASE ProcessAPmode
    BY <2>8 DEF SelectionIsValid, ProcessAPmode, setup
  <2>9. CASE CheckAP
    BY <2>9 DEF SelectionIsValid, CheckAP, setup
  <2>10. CASE CheckIP
    BY <2>10 DEF SelectionIsValid, CheckIP, setup
  <2>11. CASE CheckRetry
    BY <2>11, SettingsExist DEF SelectionIsValid, CheckRetry, Relaxed, SwitchOnAP, setup
  <2>12. CASE Try
    BY <2>12, SettingsExist DEF SelectionIsValid, Try, Return, setup
  <2>13. CASE Begin
    BY <2>13 DEF SelectionIsValid, Begin, Return, setup
  <2>14. CASE Radio
    BY <2>14 DEF SelectionIsValid, Radio, Joins, Leaves, GetsAddress, Loses, KeepNode, setup
  <2>15. CASE World
    BY <2>15 DEF SelectionIsValid, World, Fails, ComesOrGoes, Drops, LeaseLost, ClientComes,
                 ClientGoes, WizardConnects, WizardDone, SavesSettings, Served, KeepNode, setup
  <2>16. CASE SlowConnection \/ Time
    BY <2>16 DEF SelectionIsValid, SlowConnection, Time, RetryTime, ConnectTimeout, APTime, KeepNode, setup
  <2>17. CASE UNCHANGED vars
    BY <2>17 DEF SelectionIsValid, vars, setup
  <2> QED
    BY <2>1, <2>2, <2>3, <2>4, <2>5, <2>6, <2>7, <2>8, <2>9, <2>10, <2>11, <2>12,
       <2>13, <2>14, <2>15, <2>16, <2>17 DEF Next, Loop, Check
<1>3. SelectionIsValid => ConnectsWithValid
  BY DEF SelectionIsValid, ConnectsWithValid
<1> QED BY <1>1, <1>2, <1>3, PTL DEF Spec
-----------------------------------------------------------------------------
\* TypeOK in four parts, each for the provers that can deal with it.
Flags == /\ wifiSetup \in BOOLEAN /\ wifiSetupConnect \in BOOLEAN
         /\ ended \in BOOLEAN /\ ip \in BOOLEAN
Counts == /\ wifiStatus \in Disconnected .. Initialized /\ attempt \in 0 .. LastAttempt
          /\ clients \in 0 .. MaxClients /\ moves \in 0 .. MaxMoves
Sets == /\ todo \subseteq {"connect", "disconnect", "getIP", "connectAP", "disconnectAP"}
        /\ selected \in {0, 1} /\ target \in {0, 1}
        /\ valid \subseteq {0, 1} /\ near \subseteq {0, 1} /\ mode \subseteq {"STA", "AP"}
Names == /\ timerAPoff \in {"off", "running", "expired"}
  /\ age \in {"fresh", "retry", "timeout"}
  /\ caller \in {"loop", "check"}
  /\ pc \in {"loop", "setup", "connect", "static", "gotIP", "services",
             "disconnect", "rules", "ap", "check", "checkIP", "checkRetry",
             "try", "setSTA", "begin", "setAP"}
  /\ link \in {"down", "trying", "up", "leaving"}

\* The flags of the setup, of a lost connection and of an address are truth values.
LEMMA FlagsKept ==
  ASSUME Flags, Counts, Sets, Names, [Next]_vars
  PROVE  Flags'
<1> USE WifiAssumption DEF Flags, setup, timing, radio, place, KeepTimers, KeepNode
<1>1. CASE LoopSetup \/ EndSetup \/ ProcessConnect \/ ConnectStatic
  BY <1>1 DEF LoopSetup, Relaxed, SwitchOnAP, EndSetup, ProcessConnect,
        ConnectStatic, MarkGotIP
<1>2. CASE ProcessGotIP \/ InitServices \/ ProcessDisconnect \/ ProcessAPmode
  BY <1>2 DEF ProcessGotIP, InitServices, ProcessDisconnect, ProcessAPmode
<1>3. CASE CheckAP \/ CheckIP \/ CheckRetry
  BY <1>3 DEF CheckAP, DropClients, CheckIP, CheckRetry, Relaxed, SwitchOnAP
<1>4. CASE Try \/ Begin
  BY <1>4 DEF Try, Begin, Return, SwitchOnAP
<1>5. CASE Radio
  BY <1>5 DEF Radio, Joins, Leaves, GetsAddress, Loses, OnConnected,
        OnDisconnect, MarkGotIP, Answer, Move
<1>6. CASE Fails \/ ComesOrGoes \/ Drops \/ LeaseLost \/ ClientComes \/ ClientGoes
  BY <1>6 DEF Fails, ComesOrGoes, Drops, LeaseLost, ClientComes, ClientGoes,
        OnDisconnect, Move
<1>7. CASE WizardConnects \/ WizardDone \/ SavesSettings
  BY <1>7 DEF WizardConnects, WizardDone, SavesSettings, Served, Move
<1>8. CASE SlowConnection \/ Time \/ UNCHANGED vars
  BY <1>8 DEF SlowConnection, Move, Time, RetryTime, ConnectTimeout, APTime, vars
<1> QED
  BY <1>1, <1>2, <1>3, <1>4, <1>5, <1>6, <1>7, <1>8 DEF Next, Loop, Check, World

\* The state of the connection, the attempts (cut off at LastAttempt), the stations
\* and the changes of the surroundings stay in range.
LEMMA CountsKept ==
  ASSUME Flags, Counts, Sets, Names, [Next]_vars
  PROVE  Counts'
<1> USE WifiAssumption DEF Counts, setup, timing, radio, place, KeepTimers, KeepNode
<1>1. CASE LoopSetup \/ EndSetup \/ ProcessConnect \/ ConnectStatic
  BY <1>1 DEF LoopSetup, Relaxed, SwitchOnAP, EndSetup, ProcessConnect,
        ConnectStatic, MarkGotIP
<1>2. CASE ProcessGotIP \/ InitServices \/ ProcessDisconnect \/ ProcessAPmode
  BY <1>2 DEF ProcessGotIP, InitServices, ProcessDisconnect, ProcessAPmode
<1>3. CASE CheckAP \/ CheckIP \/ CheckRetry
  BY <1>3 DEF CheckAP, DropClients, CheckIP, CheckRetry, Relaxed, SwitchOnAP
<1>4. CASE Try \/ Begin
  BY <1>4 DEF Try, Begin, Return, SwitchOnAP
<1>5. CASE Radio
  BY <1>5 DEF Radio, Joins, Leaves, GetsAddress, Loses, OnConnected,
        OnDisconnect, MarkGotIP, Answer, Move
<1>6. CASE Fails \/ ComesOrGoes \/ Drops \/ LeaseLost \/ ClientComes \/ ClientGoes
  BY <1>6 DEF Fails, ComesOrGoes, Drops, LeaseLost, ClientComes, ClientGoes,
        OnDisconnect, Move
<1>7. CASE WizardConnects \/ WizardDone \/ SavesSettings
  BY <1>7 DEF WizardConnects, WizardDone, SavesSettings, Served, Move
<1>8. CASE SlowConnection \/ Time \/ UNCHANGED vars
  BY <1>8 DEF SlowConnection, Move, Time, RetryTime, ConnectTimeout, APTime, vars
<1> QED
  BY <1>1, <1>2, <1>3, <1>4, <1>5, <1>6, <1>7, <1>8 DEF Next, Loop, Check, World

\* Flags of callbacks, settings and modes are among those there are.
LEMMA SetsKept ==
  ASSUME Flags, Counts, Sets, Names, [Next]_vars
  PROVE  Sets'
<1> USE WifiAssumption DEF Sets, setup, timing, radio, place, KeepTimers, KeepNode
<1>1. CASE LoopSetup \/ EndSetup \/ ProcessConnect \/ ConnectStatic
  BY <1>1, SettingsExist DEF LoopSetup, Relaxed, SwitchOnAP, EndSetup,
        ProcessConnect, ConnectStatic, MarkGotIP
<1>2. CASE ProcessGotIP \/ InitServices \/ ProcessDisconnect \/ ProcessAPmode
  BY <1>2, SettingsExist DEF ProcessGotIP, InitServices, ProcessDisconnect,
        ProcessAPmode
<1>3. CASE CheckAP \/ CheckIP \/ CheckRetry
  BY <1>3, SettingsExist DEF CheckAP, DropClients, CheckIP, CheckRetry,
        Relaxed, SwitchOnAP
<1>4. CASE Try \/ Begin
  BY <1>4, SettingsExist DEF Try, Begin, Return, SwitchOnAP
<1>5. CASE Radio
  BY <1>5, SettingsExist DEF Radio, Joins, Leaves, GetsAddress, Loses,
        OnConnected, OnDisconnect, MarkGotIP, Answer, Move
<1>6. CASE Fails \/ ComesOrGoes \/ Drops \/ LeaseLost \/ ClientComes \/ ClientGoes
  BY <1>6, SettingsExist DEF Fails, ComesOrGoes, Drops, LeaseLost, ClientComes,
        ClientGoes, OnDisconnect, Move
<1>7. CASE WizardConnects \/ WizardDone \/ SavesSettings
  BY <1>7, SettingsExist DEF WizardConnects, WizardDone, SavesSettings, Served, Move
<1>8. CASE SlowConnection \/ Time \/ UNCHANGED vars
  BY <1>8, SettingsExist DEF SlowConnection, Move, Time, RetryTime,
        ConnectTimeout, APTime, vars
<1> QED
  BY <1>1, <1>2, <1>3, <1>4, <1>5, <1>6, <1>7, <1>8 DEF Next, Loop, Check, World

\* The timers, the radio and the processor are in one of their states.
LEMMA NamesKept ==
  ASSUME Flags, Counts, Sets, Names, [Next]_vars
  PROVE  Names'
<1> USE WifiAssumption DEF Names, setup, timing, radio, place, KeepTimers, KeepNode
<1>1. CASE LoopSetup \/ EndSetup \/ ProcessConnect \/ ConnectStatic
  BY <1>1 DEF LoopSetup, Relaxed, SwitchOnAP, EndSetup, ProcessConnect,
        ConnectStatic, MarkGotIP
<1>2. CASE ProcessGotIP \/ InitServices \/ ProcessDisconnect \/ ProcessAPmode
  BY <1>2 DEF ProcessGotIP, InitServices, ProcessDisconnect, ProcessAPmode
<1>3. CASE CheckAP \/ CheckIP \/ CheckRetry
  BY <1>3 DEF CheckAP, DropClients, CheckIP, CheckRetry, Relaxed, SwitchOnAP
<1>4. CASE Try \/ Begin
  BY <1>4 DEF Try, Begin, Return, SwitchOnAP
<1>5. CASE Radio
  BY <1>5 DEF Radio, Joins, Leaves, GetsAddress, Loses, OnConnected,
        OnDisconnect, MarkGotIP, Answer, Move
<1>6. CASE Fails \/ ComesOrGoes \/ Drops \/ LeaseLost \/ ClientComes \/ ClientGoes
  BY <1>6 DEF Fails, ComesOrGoes, Drops, LeaseLost, ClientComes, ClientGoes,
        OnDisconnect, Move
<1>7. CASE WizardConnects \/ WizardDone \/ SavesSettings
  BY <1>7 DEF WizardConnects, WizardDone, SavesSettings, Served, Move
<1>8. CASE SlowConnection \/ Time \/ UNCHANGED vars
  BY <1>8 DEF SlowConnection, Move, Time, RetryTime, ConnectTimeout, APTime, vars
<1> QED
  BY <1>1, <1>2, <1>3, <1>4, <1>5, <1>6, <1>7, <1>8 DEF Next, Loop, Check, World

\* Every variable of the connection keeps its type: the counter of attempts,
\* cut off at LastAttempt (tryConnectWiFi), and the stations on the access point,
\* which leave one by one or all together (CheckIP, CheckAP), stay in range.
THEOREM TypeCorrect == Spec => []TypeOK
<1>1. TypeOK <=> Flags /\ Counts /\ Sets /\ Names
  BY DEF TypeOK, Flags, Counts, Sets, Names
<1>2. Init => Flags /\ Counts /\ Sets /\ Names
  <2> SUFFICES ASSUME Init PROVE Flags /\ Counts /\ Sets /\ Names
    OBVIOUS
  <2>1. Flags
    BY DEF Init, Flags
  <2>2. Counts
    BY WifiAssumption DEF Init, Counts
  <2>3. Sets
    BY WifiAssumption DEF Init, Sets
  <2>4. Names
    BY DEF Init, Names
  <2> QED BY <2>1, <2>2, <2>3, <2>4
<1>3. (Flags /\ Counts /\ Sets /\ Names) /\ [Next]_vars
        => (Flags /\ Counts /\ Sets /\ Names)'
  BY FlagsKept, CountsKept, SetsKept, NamesKept
<1> QED BY <1>1, <1>2, <1>3, PTL DEF Spec
=============================================================================
