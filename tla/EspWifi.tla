------------------------------- MODULE EspWifi ------------------------------
(***************************************************************************)
(* The WiFi connection of ESPEasy.  Callbacks of the radio only set        *)
(* wifiStatus and flags; loop() turns the flags into work, and WifiCheck,  *)
(* once a second, tries to connect and switches the access point off.      *)
(* Callbacks come where the processor yields (Yields: delay, rules, NTP,   *)
(* background tasks), so a function that yields is cut in two there.  Time *)
(* is what the code asks of it: whether a delay has passed.                *)
(***************************************************************************)
EXTENDS Integers, FiniteSets

CONSTANTS
  Static,      \* useStaticIP()
  Credentials, \* the settings that are filled in: a subset of {0, 1}
  MaxClients,  \* bound: stations on our own access point
  MaxMoves     \* bound: changes of the surroundings and pages served

ASSUME WifiAssumption ==
  /\ Static \in BOOLEAN /\ Credentials \subseteq {0, 1}
  /\ MaxClients \in Nat /\ MaxMoves \in Nat

\* The order of ESPEASY_WIFI_DISCONNECTED ... SERVICES_INITIALIZED
Disconnected == 0
Connected == 1
GotIP == 2
Initialized == 3

\* wifi_connect_attempt is only compared with 0 and 5 and tested for parity:
\* 6 stands for every even number above 5, LastAttempt for every odd one.
LastAttempt == 7

VARIABLES
  wifiStatus,
  todo,             \* flags of callbacks not processed: processedX is FALSE
  attempt,          \* wifi_connect_attempt
  selected,         \* lastWiFiSettings
  valid,            \* settings that pass wifiSettingsValid
  wifiSetup,
  wifiSetupConnect,
  mode,             \* WiFi.getMode(): a subset of {"STA", "AP"}
  timerAPoff,       \* "off" (zero), "running" or "expired"
  age,              \* time since the last attempt: "fresh", "retry" (1 s and
                    \* 200 ms per attempt) or "timeout" (10 to 25 s as well)
  ended,            \* lastDisconnectMoment is after the last attempt
  pc,               \* where the processor is
  caller,           \* who called WiFiConnectRelaxed: "loop" or "check"
  link,             \* radio: "down", "trying", "up" or "leaving"
  target,           \* radio: the settings it was last told to connect with
  ip,               \* radio: the DHCP client has an address
  near,             \* surroundings: settings whose access point is in reach
  clients,          \* stations on our own access point
  moves             \* changes so far

setup == <<valid, wifiSetup, wifiSetupConnect>>
timing == <<timerAPoff, age, ended>>
radio == <<link, target, ip>>
place == <<near, clients, moves>>
vars == <<wifiStatus, todo, attempt, selected, setup, mode, timing, pc, caller,
          radio, place>>
-----------------------------------------------------------------------------
(* Callbacks.                                                                *)

OnConnected == /\ wifiStatus' = Connected
               /\ todo' = todo \union {"connect"}

OnDisconnect == /\ wifiStatus' = Disconnected
                /\ todo' = todo \union {"disconnect"}
                /\ ended' = TRUE

MarkGotIP == /\ wifiStatus' = GotIP
             /\ todo' = todo \union {"getIP"}

\* Where the processor yields: at the end of loop(), in rules and NTP, and in the
\* delay of a change of the mode.  (Callbacks in the delays of setAP(false) and
\* resetWiFi change nothing that WifiCheck has still to read.)
Yields == pc \in {"loop", "static", "services", "rules", "setSTA", "setAP"}

KeepTimers == UNCHANGED <<timerAPoff, age>>
KeepNode == UNCHANGED <<attempt, selected, setup, mode, pc, caller>>
-----------------------------------------------------------------------------
(* Settings.                                                                 *)

\* Leaves the other settings selected even when they are not valid.
NextSettings_NoCheck(s) == 1 - s

\* Counts on without coming back to the first.
NextSettings_NoWrap(s) == s + 1

\* selectNextWiFiSettings, selectValidWiFiSettings
NextSettings(s) == IF 1 - s \in valid THEN 1 - s ELSE s
ValidSettings(s) == IF s \in valid THEN s ELSE NextSettings(s)
-----------------------------------------------------------------------------
(* loop()                                                                    *)

\* setAP(true): also starts the timer of an access point that is on already.
SwitchOnAP == mode' = mode \union {"AP"} /\ timerAPoff' = "running"

\* Does not look whether the node is connected.
Relaxed_Always(from, next) ==
  /\ selected' = ValidSettings(selected)
  /\ IF selected' \in valid
       THEN /\ mode' = mode \union {"STA"} /\ caller' = from
            /\ pc' = IF "STA" \in mode THEN "try" ELSE "setSTA"
            /\ UNCHANGED timerAPoff
       ELSE SwitchOnAP /\ pc' = next /\ UNCHANGED caller

\* WiFiConnectRelaxed, up to the delay of setSTA(true).
Relaxed(from, next) ==
  IF wifiStatus = Initialized
    THEN /\ pc' = next /\ UNCHANGED <<selected, mode, timerAPoff, caller>>
    ELSE /\ selected' = ValidSettings(selected)
         /\ IF selected' \in valid
              THEN /\ mode' = mode \union {"STA"} /\ caller' = from
                   /\ pc' = IF "STA" \in mode THEN "try" ELSE "setSTA"
                   /\ UNCHANGED timerAPoff
              ELSE SwitchOnAP /\ pc' = next /\ UNCHANGED caller

LoopSetup ==
  /\ pc = "loop"
  /\ IF wifiSetupConnect
       THEN Relaxed("loop", "setup")
       ELSE pc' = "connect" /\ UNCHANGED <<selected, mode, timerAPoff, caller>>
  /\ UNCHANGED <<wifiStatus, todo, attempt, setup, age, ended,
                 radio, place>>

EndSetup ==
  /\ pc = "setup" /\ pc' = "connect" /\ wifiSetupConnect' = FALSE
  /\ caller' = "check"
  /\ UNCHANGED <<wifiStatus, todo, attempt, selected, valid, wifiSetup, mode,
                 timing, radio, place>>

\* processConnect, up to the rules.
ProcessConnect ==
  /\ pc = "connect"
  /\ CASE wifiStatus = Initialized -> pc' = "ap" /\ UNCHANGED todo
       [] wifiStatus \in {Connected, GotIP} /\ "connect" \in todo ->
            pc' = "static" /\ todo' = todo \ {"connect"}
       [] OTHER -> pc' = "gotIP" /\ UNCHANGED todo
  /\ UNCHANGED <<wifiStatus, attempt, selected, setup, mode, timing, caller,
                 radio, place>>

\* processConnect, after the rules.
ConnectStatic ==
  /\ pc = "static" /\ pc' = "gotIP"
  /\ IF Static THEN MarkGotIP ELSE UNCHANGED <<wifiStatus, todo>>
  /\ UNCHANGED <<attempt, selected, setup, mode, timing, caller, radio, place>>

\* processGotIP, up to the wait for the time server and the rules.
ProcessGotIP ==
  /\ pc = "gotIP"
  /\ IF wifiStatus >= GotIP /\ "getIP" \in todo /\ (Static \/ ip)
       THEN pc' = "services" /\ todo' = todo \ {"getIP"}
       ELSE pc' = "disconnect" /\ UNCHANGED todo
  /\ UNCHANGED <<wifiStatus, attempt, selected, setup, mode, timing, caller,
                 radio, place>>

\* processGotIP, after them.  SaveSettings of a setup asks for a connection
\* when credentials were changed.
InitServices ==
  /\ pc = "services" /\ pc' = "disconnect"
  /\ wifiStatus' = Initialized
  /\ attempt' = 0
  /\ wifiSetup' = FALSE
  /\ wifiSetupConnect' = (wifiSetupConnect \/ (wifiSetup /\ "AP" \in mode))
  /\ UNCHANGED <<todo, selected, valid, mode, timing, caller, radio, place>>

ProcessDisconnect ==
  /\ pc = "disconnect"
  /\ IF wifiStatus = Disconnected /\ "disconnect" \in todo
       THEN todo' = todo \ {"disconnect"} /\ pc' = "rules"
       ELSE pc' = "ap" /\ UNCHANGED todo
  /\ UNCHANGED <<wifiStatus, attempt, selected, setup, mode, timing, caller,
                 radio, place>>

\* Forgets to start the timer when the last station has left.
ProcessAPmode_NoTimer ==
  /\ pc \in {"rules", "ap"}
  /\ timerAPoff' = IF "connectAP" \in todo THEN "off" ELSE timerAPoff
  /\ todo' = todo \ {"connectAP", "disconnectAP"}
  /\ \E next \in {"check", "loop"} : pc' = next
  /\ UNCHANGED <<wifiStatus, attempt, selected, setup, mode, age,
                 ended, caller, radio, place>>

\* processConnectAPmode, processDisconnectAPmode; then handle_schedule, in
\* which TIMER_1SEC is due or not.
ProcessAPmode ==
  /\ pc \in {"rules", "ap"}
  /\ timerAPoff' = CASE "disconnectAP" \in todo /\ clients = 0 -> "running"
                     [] "connectAP" \in todo
                          /\ ~("disconnectAP" \in todo /\ clients = 0) -> "off"
                     [] OTHER -> timerAPoff
  /\ todo' = todo \ {"connectAP", "disconnectAP"}
  /\ \E next \in {"check", "loop"} : pc' = next
  /\ UNCHANGED <<wifiStatus, attempt, selected, setup, mode, age,
                 ended, caller, radio, place>>
-----------------------------------------------------------------------------
(* WifiCheck()                                                               *)

\* The stations are gone with the access point, and say so.
DropClients == /\ clients' = 0
               /\ todo' = todo \union (IF clients > 0 THEN {"disconnectAP"} ELSE {})

\* processDisableAPmode
CheckAP ==
  /\ pc = "check"
  /\ pc' = IF wifiSetup THEN "loop" ELSE "checkIP"
  /\ IF ~wifiSetup /\ timerAPoff = "expired" /\ "AP" \in mode
       THEN mode' = mode \ {"AP"} /\ timerAPoff' = "off" /\ DropClients
       ELSE UNCHANGED <<mode, timerAPoff, todo, clients>>
  /\ UNCHANGED <<wifiStatus, attempt, selected, setup, age, ended,
                 caller, radio, near, moves>>

\* Does not look whether the address is gone.
CheckIP_NoReset ==
  /\ pc = "checkIP" /\ pc' = "checkRetry"
  /\ UNCHANGED <<wifiStatus, todo, attempt, selected, setup, mode, timing,
                 caller, radio, place>>

\* An initialised node without an address resets its WiFi: resetWiFi.
CheckIP ==
  /\ pc = "checkIP" /\ pc' = "checkRetry"
  /\ IF ~Static /\ ~ip /\ wifiStatus = Initialized
       THEN /\ mode' = {"STA"} /\ link' = "down" /\ clients' = 0
            /\ wifiStatus' = Disconnected
            /\ todo' = todo \union {"disconnect"}
                         \union (IF clients > 0 THEN {"disconnectAP"} ELSE {})
            /\ ended' = TRUE
       ELSE UNCHANGED <<mode, link, clients, wifiStatus, todo, ended>>
  /\ UNCHANGED <<attempt, selected, setup, timerAPoff, age,
                 caller, target, ip, near, moves>>

CheckRetry ==
  /\ pc = "checkRetry"
  /\ IF wifiStatus # Initialized /\ age # "fresh"
       THEN Relaxed("check", "loop")
       ELSE pc' = "loop" /\ UNCHANGED <<selected, mode, timerAPoff, caller>>
  /\ UNCHANGED <<wifiStatus, todo, attempt, setup, age, ended,
                 radio, place>>
-----------------------------------------------------------------------------
(* tryConnectWiFi()                                                          *)

Return == IF caller = "loop" THEN "setup" ELSE "loop"

\* wifiConnectTimeoutReached with attempt number n
TimeoutReached(n) == n = 0 \/ ended \/ age = "timeout"

\* Up to the delay of setAP(true).
Try ==
  /\ pc \in {"try", "setSTA"}
  /\ \E n \in {IF wifiSetupConnect THEN 0 ELSE attempt},
        s \in {IF wifiSetupConnect THEN 0 ELSE selected} :
       /\ attempt' = n
       /\ IF (wifiStatus = Disconnected \/ "AP" \in mode) /\ TimeoutReached(n)
            THEN /\ selected' = IF n # 0 /\ n % 2 = 0
                                  THEN NextSettings(ValidSettings(s))
                                  ELSE ValidSettings(s)
                 /\ IF n > 5 THEN SwitchOnAP ELSE UNCHANGED <<mode, timerAPoff>>
                 /\ pc' = IF mode' = mode THEN "begin" ELSE "setAP"
            ELSE /\ selected' = s /\ pc' = Return
                 /\ UNCHANGED <<mode, timerAPoff>>
  /\ UNCHANGED <<wifiStatus, todo, setup, age, ended, caller,
                 radio, place>>

\* WiFi.begin: the radio leaves the network it is on and joins the other.
Begin ==
  /\ pc \in {"begin", "setAP"} /\ pc' = Return
  /\ link' = IF link \in {"up", "leaving"} THEN "leaving" ELSE "trying"
  /\ target' = selected /\ ip' = FALSE
  /\ age' = "fresh" /\ ended' = FALSE
  /\ attempt' = IF attempt = LastAttempt THEN LastAttempt - 1 ELSE attempt + 1
  /\ UNCHANGED <<wifiStatus, todo, selected, setup, mode, timerAPoff, caller,
                 place>>
-----------------------------------------------------------------------------
(* The radio and its surroundings (external).                                *)

Move == moves < MaxMoves /\ moves' = moves + 1

\* The radio answers at any moment, but in the short delays of a change of the
\* mode, or between the events and WifiCheck of one pass, only now and then.
Answer == IF pc \in {"setSTA", "setAP", "rules"} THEN Move ELSE UNCHANGED moves

Joins ==
  /\ link = "trying" /\ target \in near
  /\ link' = "up" /\ OnConnected /\ Answer
  /\ UNCHANGED <<ended, target, ip, near, clients>> /\ KeepTimers /\ KeepNode

\* A failed attempt may be reported, or may just never succeed.
Fails ==
  /\ link = "trying" /\ target \notin near
  /\ link' = "down" /\ OnDisconnect
  /\ UNCHANGED <<target, ip, place>> /\ KeepTimers /\ KeepNode

Leaves ==
  /\ link = "leaving"
  /\ link' = "trying" /\ OnDisconnect
  /\ UNCHANGED <<target, ip, place>> /\ KeepTimers /\ KeepNode

GetsAddress ==
  /\ link = "up" /\ ~Static /\ ~ip
  /\ ip' = TRUE /\ MarkGotIP /\ Answer
  /\ UNCHANGED <<ended, link, target, near, clients>> /\ KeepTimers /\ KeepNode

\* The access point is out of reach: no more beacons.
Loses ==
  /\ link = "up" /\ target \notin near
  /\ link' = "down" /\ ip' = FALSE /\ OnDisconnect
  /\ UNCHANGED <<target, place>> /\ KeepTimers /\ KeepNode

\* An access point is switched on or off, or starts anew, or takes the address
\* back.
ComesOrGoes ==
  /\ Move /\ \E c \in Credentials : near' = (near \ {c}) \union ({c} \ near)
  /\ UNCHANGED <<wifiStatus, todo, timing, radio, clients>> /\ KeepNode

Drops ==
  /\ Move /\ link = "up"
  /\ link' = "down" /\ ip' = FALSE /\ OnDisconnect
  /\ UNCHANGED <<target, near, clients>> /\ KeepTimers /\ KeepNode

LeaseLost ==
  /\ Move /\ link = "up" /\ ip /\ ip' = FALSE
  /\ UNCHANGED <<wifiStatus, todo, timing, link, target, near, clients>>
  /\ KeepNode

\* onConnectedAPmode, onDisonnectedAPmode
ClientComes ==
  /\ Move /\ "AP" \in mode /\ clients < MaxClients
  /\ clients' = clients + 1 /\ todo' = todo \union {"connectAP"}
  /\ UNCHANGED <<wifiStatus, timing, radio, near>> /\ KeepNode

ClientGoes ==
  /\ clients > 0 /\ clients' = clients - 1
  /\ todo' = todo \union {"disconnectAP"}
  /\ UNCHANGED <<wifiStatus, timing, radio, near, moves>> /\ KeepNode

Served == Move /\ pc = "loop" /\ clients > 0

\* The setup wizard is given credentials.
WizardConnects ==
  /\ Served /\ wifiSetup /\ wifiStatus # Initialized
  /\ valid' = valid \union {0} /\ wifiSetupConnect' = TRUE
  /\ UNCHANGED <<wifiStatus, todo, attempt, selected, wifiSetup, mode, timing,
                 pc, caller, radio, near, clients>>

\* The wizard's page of a connected node.
WizardDone ==
  /\ Served /\ wifiStatus = Initialized
  /\ wifiSetup' = FALSE /\ timerAPoff' = "running"
  /\ UNCHANGED <<wifiStatus, todo, attempt, selected, valid, wifiSetupConnect,
                 mode, age, ended, pc, caller, radio, near,
                 clients>>

\* Security settings are saved while the access point is on: SaveSettings.
SavesSettings ==
  /\ Served /\ "AP" \in mode /\ wifiSetupConnect' = TRUE
  /\ UNCHANGED <<wifiStatus, todo, attempt, selected, valid, wifiSetup, mode,
                 timing, pc, caller, radio, near, clients>>

-----------------------------------------------------------------------------
(* Time.                                                                     *)

RetryTime ==
  /\ age = "fresh" /\ age' = "retry"
  /\ UNCHANGED <<wifiStatus, todo, timerAPoff, ended, radio, place>> /\ KeepNode

\* A connection that succeeds does so before the timeout,
Underway == link \in {"up", "leaving"} \/ (link = "trying" /\ target \in near)

ConnectTimeout ==
  /\ age = "retry" /\ ~Underway /\ age' = "timeout"
  /\ UNCHANGED <<wifiStatus, todo, timerAPoff, ended, radio, place>> /\ KeepNode

\* except now and then.
SlowConnection ==
  /\ Move /\ age = "retry" /\ Underway /\ age' = "timeout"
  /\ UNCHANGED <<wifiStatus, todo, timerAPoff, ended, radio, near, clients>>
  /\ KeepNode

APTime ==
  /\ timerAPoff = "running" /\ timerAPoff' = "expired"
  /\ UNCHANGED <<wifiStatus, todo, age, ended, radio, place>> /\ KeepNode
-----------------------------------------------------------------------------
\* setup(): the first WiFiConnectRelaxed is about to be called.
Init ==
  /\ wifiStatus = Disconnected /\ todo = {}
  /\ attempt = 0 /\ selected = 0
  /\ valid \in {{}, Credentials}
  /\ wifiSetup = (valid = {}) /\ wifiSetupConnect = FALSE
  /\ mode = {} /\ timerAPoff = "off"
  /\ age = "retry" /\ ended = FALSE
  /\ pc = "checkRetry" /\ caller = "check"
  /\ link = "down" /\ target = 0 /\ ip = FALSE
  /\ near \in SUBSET Credentials /\ clients = 0 /\ moves = 0

Loop == \/ LoopSetup \/ EndSetup \/ ProcessConnect \/ ConnectStatic
        \/ ProcessGotIP \/ InitServices \/ ProcessDisconnect \/ ProcessAPmode
Check == CheckAP \/ CheckIP \/ CheckRetry \/ Try \/ Begin
Radio == Joins \/ Leaves \/ GetsAddress \/ Loses
World == \/ Fails \/ ComesOrGoes \/ Drops \/ LeaseLost \/ ClientComes \/ ClientGoes
         \/ WizardConnects \/ WizardDone \/ SavesSettings
Time == RetryTime \/ ConnectTimeout \/ APTime
Next == Loop \/ Check \/ (Yields /\ (Radio \/ World \/ SlowConnection \/ Time))

\* The processor runs on, WifiCheck is called again and again (TIMER_1SEC), the
\* radio does what it is told, and time passes.
Fairness ==
  /\ WF_vars(Loop \/ Check) /\ SF_vars(ProcessAPmode /\ pc' = "check")
  /\ SF_vars(pc = "loop" /\ Radio)
  /\ SF_vars(pc = "loop" /\ (RetryTime \/ ConnectTimeout))
  /\ SF_vars(pc = "loop" /\ APTime)
Spec == Init /\ [][Next]_vars /\ Fairness
-----------------------------------------------------------------------------
TypeOK ==
  /\ wifiStatus \in Disconnected .. Initialized
  /\ todo \subseteq {"connect", "disconnect", "getIP", "connectAP", "disconnectAP"}
  /\ attempt \in 0 .. LastAttempt /\ selected \in {0, 1}
  /\ valid \subseteq {0, 1} /\ wifiSetup \in BOOLEAN /\ wifiSetupConnect \in BOOLEAN
  /\ mode \subseteq {"STA", "AP"} /\ timerAPoff \in {"off", "running", "expired"}
  /\ age \in {"fresh", "retry", "timeout"} /\ ended \in BOOLEAN
  /\ caller \in {"loop", "check"}
  /\ pc \in {"loop", "setup", "connect", "static", "gotIP", "services",
             "disconnect", "rules", "ap", "check", "checkIP", "checkRetry",
             "try", "setSTA", "begin", "setAP"}
  /\ link \in {"down", "trying", "up", "leaving"} /\ target \in {0, 1}
  /\ ip \in BOOLEAN /\ near \subseteq {0, 1}
  /\ clients \in 0 .. MaxClients /\ moves \in 0 .. MaxMoves

\* Working: the services run on a link that is up.
Working == wifiStatus = Initialized /\ link = "up"

\* A node that is not in the setup wizard ends up connected, whichever of its
\* access points stays in reach and whatever happened before.
Reconnects == <>[](near \intersect valid # {} /\ ~wifiSetup) => <>[]Working

\* The node never tries to connect with settings that are not filled in.
ConnectsWithValid == pc \in {"begin", "setAP"} => selected \in valid

\* While the services are initialised no attempt to connect is under way, and
\* the first one after a loss of the link need not wait for a timeout.
ReadyToRetry ==
  wifiStatus = Initialized => attempt = 0 /\ pc \notin {"try", "setSTA", "begin", "setAP"}

\* The access point is switched off in the end when the node is connected and
\* nobody is on it.
AccessPointGoesOff ==
  <>[](Working /\ clients = 0 /\ ~wifiSetup) => <>[]("AP" \notin mode)
=============================================================================
