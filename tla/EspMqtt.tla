-------------------------------- MODULE EspMqtt ------------------------------
(***************************************************************************)
(* The MQTT clients of ESPEasy: the one of the first enabled MQTT          *)
(* controller, polled by TIMER_MQTT, and the one of the import plugin      *)
(* P037, called ten times and once per second.  Both are PubSubClients:    *)
(* they notice a silent broker by a ping that stays unanswered, and they   *)
(* block the whole node while they connect.                                *)
(*                                                                         *)
(* Time is counted in beats of five seconds, the step of the back-off of   *)
(* TIMER_MQTT.  In a round every timer that is due is served once, and a   *)
(* poll stands for all of a beat: handle_schedule serves no timer twice    *)
(* while another is more overdue.                                          *)
(*                                                                         *)
(* Left out: packets that arrive in pieces or pile up (readByte waits for  *)
(* the socket time-out, and loop reads one packet; the polls of a beat are *)
(* taken to read what has arrived), a second task that uses P037 (each     *)
(* would add its three attempts to Blocking), and the restart of a node    *)
(* whose ConnectionFailuresThreshold was set: it is 0 unless it was.       *)
(***************************************************************************)
EXTENDS Integers

CONSTANTS
  Import,        \* a task uses P037
  KeepAlive,     \* MQTT_KEEPALIVE
  SocketTimeout, \* MQTT_SOCKET_TIMEOUT, the longest a connection attempt takes
  MaxInterval,   \* beats of back-off at which timermqtt_interval stops growing
  MaxMoves       \* bound: changes of the surroundings, connect messages refused and
                 \* pages saved

ASSUME MqttAssumption ==
  /\ Import \in BOOLEAN
  /\ KeepAlive \in Nat \ {0} /\ SocketTimeout \in Nat \ {0}
  /\ MaxInterval \in Nat \ {0} /\ MaxMoves \in Nat

Clients == IF Import THEN {"main", "import"} ELSE {"main"}

VARIABLES
  wifi,             \* WiFiConnected()
  broker,           \* surroundings: the broker answers
  enabled,          \* firstEnabledMQTTController() >= 0
  client,           \* MQTTclient and MQTTclient_037
  connected,        \* MQTTclient_connected and MQTTclient_037_connected
  should_reconnect, \* MQTTclient_should_reconnect
  interval,         \* timermqtt_interval in beats, 0 below one
  due,              \* beats until TIMER_MQTT is due
  job,              \* the attempt to connect that blocks the node, or Idle
  todo,             \* what this round has still to serve, and may send
  refused,          \* history: the main client has been connected, but its connect
                    \* message could not be published
  deaf,             \* history: beats since the main connection was made that it
                    \* counts as connected although nobody listens
  waiting,          \* history: beats since then that the main client has not been
                    \* connected to a broker that is in reach, although it has no
                    \* link whose connect message was refused
  moves             \* changes so far

timer == <<interval, due>>
history == <<deaf, waiting>>
vars == <<wifi, broker, enabled, client, connected, should_reconnect, refused, timer,
          job, todo, history, moves>>
-----------------------------------------------------------------------------
(* PubSubClient.                                                             *)

\* A connection is "open", "closed", or "dead": forgotten by the broker while the
\* client still takes it for connected.
Closed == [link |-> "closed", ping |-> FALSE, out |-> 0, in |-> 0, inbox |-> {}]
Opened == [Closed EXCEPT !.link = "open"]

IsConnected(k) == k.link # "closed"
Live(c) == wifi /\ broker /\ client[c].link = "open"

\* Does not ask when only the broker has been silent.
Overdue_OutOnly(k) == k.out > KeepAlive

Overdue(k) == k.in > KeepAlive \/ k.out > KeepAlive

\* Does not look for the answer to a ping.
Loop_NoAnswer(k) ==
  IF ~IsConnected(k) \/ (Overdue(k) /\ k.ping) THEN Closed
  ELSE [k EXCEPT !.ping = Overdue(k) \/ @,
                 !.out = IF Overdue(k) THEN 0 ELSE @,
                 !.in = IF Overdue(k) \/ k.inbox # {} THEN 0 ELSE @,
                 !.inbox = {}]

\* loop(): gives up when a ping is overdue, before it looks at what has arrived.
Loop(k) ==
  IF ~IsConnected(k) \/ (Overdue(k) /\ k.ping) THEN Closed
  ELSE [k EXCEPT !.ping = Overdue(k) \/ (@ /\ "pingresp" \notin k.inbox),
                 !.out = IF Overdue(k) THEN 0 ELSE @,
                 !.in = IF Overdue(k) \/ k.inbox # {} THEN 0 ELSE @,
                 !.inbox = {}]

\* bound: one of the changes the surroundings may make
Move == moves < MaxMoves /\ moves' = moves + 1

Idle == [who |-> "nobody"]

\* connect(): a broker in reach answers at once; otherwise the node is blocked
\* until the attempt is refused or times out.
Blocked(c, tries) ==
  \E w \in 0 .. SocketTimeout : job' = [who |-> c, tries |-> tries, wait |-> w]
-----------------------------------------------------------------------------
(* TIMER_MQTT.                                                               *)

\* Grows by more than a step.
Grown_Steep(i) == IF i < MaxInterval THEN 1 + 4 * i ELSE i

Grown(i) == IF i < MaxInterval THEN i + 1 ELSE i

\* setIntervalTimer(TIMER_MQTT), rounded up to beats
Rearm == due' = interval' + 1

\* updateMQTTclient_connected for a client that is connected or not
Update(isConnected) ==
  /\ connected' = [connected EXCEPT !["main"] = isConnected]
  /\ interval' = IF isConnected THEN 0 ELSE Grown(interval)
  /\ Rearm

KeepTimer == UNCHANGED <<connected, interval>> /\ Rearm

\* MQTTConnect has made the connection.
Connects ==
  /\ client' = [client EXCEPT !["main"] = Opened]
  /\ should_reconnect' = FALSE /\ job' = Idle
  /\ deaf' = 0 /\ waiting' = 0

\* Goes on once its LWT message is published.
Succeed == Connects /\ Update(TRUE) /\ refused' = FALSE /\ UNCHANGED moves

\* The LWT message is refused: the link stays, but nothing is updated, and as long
\* as loop() finds it up nothing will be.
Refuse == Connects /\ refused' = TRUE /\ Move

\* MQTTCheck and MQTTConnect of a client whose loop() has failed, which is updated
\* before anything else
MQTTCheck ==
  \/ broker /\ Succeed
  \/ broker /\ Update(FALSE) /\ Refuse
  \/ /\ ~broker /\ Update(FALSE)
     /\ client' = [client EXCEPT !["main"] = Closed]
     /\ Blocked("main", 1) /\ refused' = FALSE
     /\ UNCHANGED <<should_reconnect, history, moves>>

\* Notices that the WiFi is gone, but not that it comes back.
runPeriodicalMQTT ==
  /\ job = Idle /\ due = 0
  /\ \/ /\ ~wifi
        /\ Update(IsConnected(client["main"])) /\ refused' = FALSE
        /\ UNCHANGED <<client, should_reconnect, job, history, moves>>
     \/ /\ wifi /\ enabled /\ IsConnected(Loop(client["main"]))
        /\ client' = [client EXCEPT !["main"] = Loop(@)] /\ KeepTimer
        /\ UNCHANGED <<should_reconnect, refused, job, history, moves>>
     \/ /\ wifi /\ enabled /\ ~IsConnected(Loop(client["main"]))
        /\ MQTTCheck
     \/ /\ wifi /\ ~enabled
        /\ client' = [client EXCEPT !["main"] = Closed] /\ refused' = FALSE
        /\ IF IsConnected(client["main"]) THEN Update(FALSE) ELSE KeepTimer
        /\ UNCHANGED <<should_reconnect, job, history, moves>>
  /\ UNCHANGED <<wifi, broker, enabled, todo>>

\* The attempt of the main client is over.
MQTTConnected ==
  /\ job # Idle /\ job.who = "main"
  /\ \/ wifi /\ broker /\ Succeed
     \/ wifi /\ broker /\ Refuse /\ UNCHANGED <<connected, timer>>
     \/ /\ job.wait = 0 /\ job' = Idle
        /\ UNCHANGED <<client, connected, should_reconnect, refused, timer, history, moves>>
  /\ UNCHANGED <<wifi, broker, enabled, todo>>

\* MQTTpublish, which has the timer served at once
MQTTpublish ==
  /\ job = Idle /\ "publish" \in todo /\ todo' = todo \ {"publish"}
  /\ IsConnected(client["main"])
  /\ client' = [client EXCEPT !["main"].out = 0]
  /\ due' = 0
  /\ UNCHANGED <<wifi, broker, enabled, connected, should_reconnect, refused, interval, job,
                 history, moves>>
-----------------------------------------------------------------------------
(* The import plugin.                                                        *)

\* Plugin_037_update_connect_status
UpdateImport ==
  connected' = [connected EXCEPT !["import"] = IsConnected(client'["import"])]

\* MQTTConnect_037 of a client that is not connected: one of three attempts.
MQTTConnect_037(tries) ==
  IF wifi /\ broker
    THEN client' = [client EXCEPT !["import"] = Opened] /\ job' = Idle
    ELSE client' = [client EXCEPT !["import"] = Closed] /\ Blocked("import", tries)

\* Nothing is tried without a controller or WiFi.
CannotConnect == ~enabled \/ ~wifi

\* PLUGIN_TEN_PER_SECOND
ImportLoop ==
  /\ job = Idle /\ "loop" \in todo /\ todo' = todo \ {"loop"}
  /\ client' = [client EXCEPT !["import"] = Loop(@)]
  /\ IF IsConnected(client'["import"]) THEN UNCHANGED connected ELSE UpdateImport
  /\ UNCHANGED <<wifi, broker, enabled, should_reconnect, refused, timer, job, history, moves>>

\* PLUGIN_ONCE_A_SECOND
ImportCheck ==
  /\ job = Idle /\ "check" \in todo /\ todo' = todo \ {"check"}
  /\ IF IsConnected(client["import"]) /\ ~should_reconnect
       THEN UNCHANGED <<client, connected, job>>
       ELSE /\ IF CannotConnect
                 THEN client' = [client EXCEPT !["import"] = Closed] /\ UNCHANGED job
                 ELSE MQTTConnect_037(1)
            /\ UpdateImport
  /\ UNCHANGED <<wifi, broker, enabled, should_reconnect, refused, timer, history, moves>>

\* An attempt of the import client is over.
ImportConnected ==
  /\ job # Idle /\ job.who = "import"
  /\ \/ wifi /\ broker /\ MQTTConnect_037(job.tries)
     \/ job.wait = 0 /\ job.tries < 3 /\ MQTTConnect_037(job.tries + 1)
     \/ job.wait = 0 /\ job.tries = 3 /\ job' = Idle /\ UNCHANGED client
  /\ IF job' = Idle THEN UpdateImport ELSE UNCHANGED connected
  /\ UNCHANGED <<wifi, broker, enabled, should_reconnect, refused, timer, todo, history, moves>>
-----------------------------------------------------------------------------
(* The broker and the network (external).                                    *)

\* A change after which the time to notice and to connect starts anew
Change == Move /\ deaf' = 0 /\ waiting' = 0

\* The answer to a ping arrives, also when the way was interrupted meanwhile.
Asked(c) == Live(c) /\ client[c].ping /\ "pingresp" \notin client[c].inbox
Answers ==
  /\ \E c \in Clients :
       Asked(c) /\ client' = [client EXCEPT ![c].inbox = @ \union {"pingresp"}]
  /\ UNCHANGED <<wifi, broker, enabled, connected, should_reconnect, refused, timer, job, todo,
                 history, moves>>

\* A message somebody published
Arrives ==
  /\ Move
  /\ \E c \in Clients :
       Live(c) /\ client' = [client EXCEPT ![c].inbox = @ \union {"publish"}]
  /\ UNCHANGED <<wifi, broker, enabled, connected, should_reconnect, refused, timer, job, todo,
                 history>>

\* The broker goes, with or without closing its connections, or comes back.
BrokerMoves ==
  /\ Change /\ broker' = ~broker
  /\ \/ UNCHANGED client
     \/ /\ broker /\ wifi /\ client' = [c \in Clients |-> Closed]
     \/ /\ broker /\ client' = [c \in Clients |-> IF IsConnected(client[c])
                                   THEN [client[c] EXCEPT !.link = "dead"] ELSE Closed]
  /\ UNCHANGED <<wifi, enabled, connected, should_reconnect, refused, timer, job, todo>>

\* The broker drops a client, which is told so only if it can be reached.
Drops ==
  /\ Move
  /\ \E c \in Clients :
       /\ client[c].link = "open"
       /\ client' = [client EXCEPT ![c] = IF Live(c) THEN Closed
                                           ELSE [@ EXCEPT !.link = "dead"]]
  /\ UNCHANGED <<wifi, broker, enabled, connected, should_reconnect, refused, timer, job, todo,
                 history>>

\* A connection nobody knows is reset.
Resets ==
  /\ wifi
  /\ \E c \in Clients : client[c].link = "dead" /\ client' = [client EXCEPT ![c] = Closed]
  /\ UNCHANGED <<wifi, broker, enabled, connected, should_reconnect, refused, timer, job, todo,
                 history, moves>>

WifiGoes ==
  /\ Change /\ wifi /\ wifi' = FALSE
  /\ UNCHANGED <<broker, enabled, client, connected, should_reconnect, refused, timer, job, todo>>

\* processGotIP starts the timer at its shortest interval.
WifiComes ==
  /\ Change /\ ~wifi /\ wifi' = TRUE /\ job = Idle
  /\ interval' = 0 /\ Rearm
  /\ UNCHANGED <<broker, enabled, client, connected, should_reconnect, refused, job, todo>>
-----------------------------------------------------------------------------
(* Pages of the web server.                                                  *)

\* The controller is enabled or disabled.
SavesController ==
  /\ Change /\ job = Idle /\ enabled' = ~enabled
  /\ UNCHANGED <<wifi, broker, client, connected, should_reconnect, refused, timer, job, todo>>

\* handle_config with another name
RenamesUnit ==
  /\ Move /\ job = Idle /\ should_reconnect' = TRUE
  /\ UNCHANGED <<wifi, broker, enabled, client, connected, refused, timer, job, todo, history>>

\* PLUGIN_INIT of the import task, which falls through to PLUGIN_TEN_PER_SECOND
SavesImport ==
  /\ Change /\ job = Idle /\ Import
  /\ todo' = todo \union {"loop"}
  /\ IF CannotConnect
       THEN /\ client' = [client EXCEPT !["import"] = Closed]
            /\ (IF enabled THEN UpdateImport ELSE UNCHANGED connected)
            /\ UNCHANGED job
       ELSE /\ MQTTConnect_037(1)
            /\ IF job' = Idle THEN UpdateImport ELSE UNCHANGED connected
  /\ UNCHANGED <<wifi, broker, enabled, should_reconnect, refused, timer>>
-----------------------------------------------------------------------------
(* Time.                                                                     *)

Round == {"publish"} \union (IF Import THEN {"loop", "check"} ELSE {})

Longer(a, b) == IF a > b THEN a ELSE b

\* Three attempts of the import client
Blocking == IF Import THEN 3 * SocketTimeout ELSE 0

\* Until the poll that reads what arrived last: the attempts under way when the
\* broker goes, and those of a round, or the beat to the next poll
LastRead == Longer(2 * Blocking, Blocking + 1)

NoticeBound == LastRead + 2 * (KeepAlive + 1 + Blocking)
ReconnectBound == Longer(MaxInterval + 1, SocketTimeout + 2 * (KeepAlive + 1))

Reachable == wifi /\ broker /\ enabled
Works(c) == connected[c] /\ Live(c)

\* The main client has a link that does not count as a connection.
HalfMade == refused /\ IsConnected(client["main"])

Older(age) == IF age > KeepAlive THEN age ELSE age + 1
Count(n, goesOn, bound) == IF ~goesOn THEN 0 ELSE IF n > bound THEN n ELSE n + 1

Tick ==
  /\ IF job = Idle
       THEN /\ todo \subseteq {"publish"} /\ due > 0
            /\ todo' = Round /\ UNCHANGED job
       ELSE /\ job.wait > 0 /\ job' = [job EXCEPT !.wait = @ - 1]
            /\ UNCHANGED todo
  /\ \A c \in Clients : ~Asked(c)
  /\ due' = IF due = 0 THEN 0 ELSE due - 1
  /\ client' = [c \in Clients |-> IF IsConnected(client[c])
                  THEN [client[c] EXCEPT !.out = Older(@), !.in = Older(@)]
                  ELSE client[c]]
  /\ deaf' = Count(deaf, wifi /\ enabled /\ connected["main"] /\ ~Live("main"), NoticeBound)
  /\ waiting' = Count(waiting, Reachable /\ ~HalfMade /\ ~Works("main"), ReconnectBound)
  /\ UNCHANGED <<wifi, broker, enabled, connected, should_reconnect, refused, interval, moves>>
-----------------------------------------------------------------------------
\* setup(); no client has been connected yet.
Init ==
  /\ wifi \in BOOLEAN /\ broker \in BOOLEAN /\ enabled \in BOOLEAN
  /\ client = [c \in Clients |-> Closed]
  /\ connected = [c \in Clients |-> FALSE]
  /\ should_reconnect = TRUE /\ refused = FALSE
  /\ interval = 0 /\ due = 0 /\ job = Idle /\ todo = {}
  /\ deaf = 0 /\ waiting = 0 /\ moves = 0

Node == \/ runPeriodicalMQTT \/ MQTTConnected
        \/ ImportLoop \/ ImportCheck \/ ImportConnected
World == \/ Arrives \/ BrokerMoves \/ Drops \/ Resets \/ WifiGoes \/ WifiComes
         \/ SavesController \/ RenamesUnit \/ SavesImport
Next == Node \/ MQTTpublish \/ Answers \/ World \/ Tick

\* The node goes on serving its timers, a broker in reach answers, time passes.
Fairness == WF_vars(Node \/ Answers \/ Tick)
Spec == Init /\ [][Next]_vars /\ Fairness
-----------------------------------------------------------------------------
TypeOK ==
  /\ wifi \in BOOLEAN /\ broker \in BOOLEAN /\ enabled \in BOOLEAN
  /\ client \in [Clients -> [link : {"open", "closed", "dead"}, ping : BOOLEAN,
                             out : 0 .. KeepAlive + 1, in : 0 .. KeepAlive + 1,
                             inbox : SUBSET {"pingresp", "publish"}]]
  /\ connected \in [Clients -> BOOLEAN]
  /\ should_reconnect \in BOOLEAN /\ refused \in BOOLEAN
  /\ interval \in 0 .. MaxInterval /\ due \in 0 .. MaxInterval + 1
  /\ job \in {Idle} \union [who : Clients, tries : 1 .. 3, wait : 0 .. SocketTimeout]
  /\ todo \subseteq Round
  /\ deaf \in 0 .. NoticeBound + 1 /\ waiting \in 0 .. ReconnectBound + 1
  /\ moves \in 0 .. MaxMoves

\* A connection to a broker that has gone silent is given up in time: a poll that
\* reads what it sent last, a keep-alive time to the ping and one to its missing
\* answer, each prolonged by the attempts of the import client that a round may
\* begin with. A link whose connect message was refused does not count as one.
DeadBrokerNoticed == deaf <= NoticeBound

\* However long the broker or the WiFi was away, the controller is connected
\* again within the longest interval of the back-off or, if the connection died
\* unnoticed, within two keep-alive times and the attempt under way; only while a
\* link lasts whose connect message was refused the code promises nothing.
ReconnectsInTime == waiting <= ReconnectBound

\* Both clients end up connected to a broker that stays in reach, and stay so. A main
\* client whose connect message was refused has its link, but may never count as
\* connected; the import client has none while the unit is to reconnect under a new
\* name.
StaysConnected ==
  <>[]Reachable =>
    <>[](/\ Works("main") \/ (refused /\ Live("main"))
         /\ Import => Works("import") \/ should_reconnect)
=============================================================================
