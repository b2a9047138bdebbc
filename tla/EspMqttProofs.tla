---------------------------- MODULE EspMqttProofs ---------------------------
(***************************************************************************)
(* The main client notices that nobody listens, and is connected again,    *)
(* within times that depend on nothing but the keep-alive, the socket      *)
(* time-out and the longest back-off.                                      *)
(*                                                                         *)
(* Both proofs count down.  NoticeLeft and ReconnectLeft say how many      *)
(* beats may still pass: each beat takes one away, nothing the node or its *)
(* surroundings do meanwhile adds one, and a connection that is made       *)
(* starts the count anew.                                                  *)
(***************************************************************************)
EXTENDS EspMqtt, TLAPS
-----------------------------------------------------------------------------
(* What is left of the times.                                                *)

\* Beats the attempt under way may take, and those that follow it
AttemptLeft == IF job = Idle THEN 0 ELSE job.wait
NextAttempts ==
  IF job = Idle \/ job.tries = 3 THEN 0
  ELSE IF job.tries = 2 THEN SocketTimeout ELSE 2 * SocketTimeout

\* ... and those of the check this round has still to serve
BlockedLeft == AttemptLeft + NextAttempts + (IF "check" \in todo THEN Blocking ELSE 0)

\* Beats to the poll after the next time TIMER_MQTT is due
PollLeft == IF due = 0 THEN BlockedLeft ELSE Longer(BlockedLeft, Blocking + 1)

\* The same while the broker is in reach, where an attempt is the last one
PollLeftInReach == Longer(due, AttemptLeft)

\* Beats until a client k nobody answers is closed and polled, if the next poll
\* is p beats away and a later one is delayed by d
Left(k, p, d) ==
  IF ~IsConnected(k) THEN p
  ELSE IF k.inbox # {} THEN p + 2 * (KeepAlive + 1 + d)
  ELSE (IF k.in > KeepAlive THEN p ELSE Longer(p, KeepAlive + 1 - k.in + d))
         + (IF k.ping THEN 0 ELSE KeepAlive + 1 + d)

NoticeLeft == Left(client["main"], PollLeft, Blocking)
ReconnectLeft == Left(client["main"], PollLeftInReach, 0)
-----------------------------------------------------------------------------
(* The inductive invariants.                                                 *)

\* A link that is up counts as connected unless its connect message was refused, the
\* timer of a connected client is due in the next beat, and the node is not
\* connecting it.
MainInv ==
  /\ IsConnected(client["main"]) => connected["main"] \/ refused
  /\ connected["main"] => ~refused
  /\ connected["main"] => interval = 0
  /\ due <= interval + 1
  /\ job # Idle /\ job.who = "main" => ~connected["main"]

\* While somebody listens, or nobody could be noticed, nothing has been counted.
DeafInv ==
  /\ Live("main") \/ ~wifi \/ ~enabled => deaf = 0
  /\ connected["main"] => deaf + NoticeLeft <= NoticeBound
  /\ deaf <= NoticeBound

WaitingInv ==
  /\ Live("main") \/ ~Reachable \/ HalfMade => waiting = 0
  /\ Reachable /\ ~HalfMade => waiting + ReconnectLeft <= ReconnectBound
  /\ waiting <= ReconnectBound
-----------------------------------------------------------------------------
(* Types.                                                                    *)

Client == [link : {"open", "closed", "dead"}, ping : BOOLEAN,
           out : 0 .. KeepAlive + 1, in : 0 .. KeepAlive + 1,
           inbox : SUBSET {"pingresp", "publish"}]

Attempt == [who : Clients, tries : 1 .. 3, wait : 0 .. SocketTimeout]

\* A client after a beat
Aged(k) == IF IsConnected(k) THEN [k EXCEPT !.out = Older(@), !.in = Older(@)] ELSE k

Flags ==
  /\ wifi \in BOOLEAN /\ broker \in BOOLEAN /\ enabled \in BOOLEAN
  /\ should_reconnect \in BOOLEAN /\ refused \in BOOLEAN /\ connected \in [Clients -> BOOLEAN]
Links == client \in [Clients -> Client]
Timer == interval \in 0 .. MaxInterval /\ due \in 0 .. MaxInterval + 1
Work == job \in {Idle} \union Attempt /\ todo \subseteq Round
Counts ==
  /\ deaf \in 0 .. NoticeBound + 1 /\ waiting \in 0 .. ReconnectBound + 1
  /\ moves \in 0 .. MaxMoves

\* The main client is always there.
LEMMA MainIsClient == "main" \in Clients
BY DEF Clients

\* The fields of a client, and their types
LEMMA ClientFields ==
  ASSUME NEW k \in Client
  PROVE  /\ k = [link |-> k.link, ping |-> k.ping, out |-> k.out, in |-> k.in,
                  inbox |-> k.inbox]
         /\ k.link \in {"open", "closed", "dead"} /\ k.ping \in BOOLEAN
         /\ k.out \in 0 .. KeepAlive + 1 /\ k.in \in 0 .. KeepAlive + 1
         /\ k.inbox \subseteq {"pingresp", "publish"}
BY DEF Client

\* What PubSubClient makes of a client is a client again: no counter leaves its
\* range and nothing but answers and messages is in the inbox.
LEMMA ClientTypes ==
  /\ Closed \in Client /\ Opened \in Client
  /\ \A k \in Client : Loop(k) \in Client /\ Aged(k) \in Client
<1>0. 0 \in 0 .. KeepAlive + 1
  BY MqttAssumption
<1>1. Closed \in Client
  BY <1>0 DEF Closed, Client
<1>2. Opened \in Client
  <2>1. ASSUME NEW k \in Client PROVE [k EXCEPT !.link = "open"] \in Client
    BY DEF Client
  <2> QED BY <1>1, <2>1 DEF Opened
<1>3. ASSUME NEW k \in Client PROVE Loop(k) \in Client
  <2>1. CASE ~IsConnected(k) \/ (Overdue(k) /\ k.ping)
    BY <2>1, <1>1 DEF Loop
  <2>2. CASE ~(~IsConnected(k) \/ (Overdue(k) /\ k.ping))
    <3>1. PICK p \in BOOLEAN, o \in 0 .. KeepAlive + 1, i \in 0 .. KeepAlive + 1 :
            Loop(k) = [k EXCEPT !.ping = p, !.out = o, !.in = i, !.inbox = {}]
      BY <2>2, <1>0, ClientFields DEF Loop
    <3>2. Loop(k) = [link |-> k.link, ping |-> p, out |-> o, in |-> i, inbox |-> {}]
      BY <3>1, ClientFields
    <3> QED BY <3>2, ClientFields DEF Client
  <2> QED BY <2>1, <2>2
<1>4. ASSUME NEW k \in Client PROVE Aged(k) \in Client
  <2>1. Older(k.out) \in 0 .. KeepAlive + 1 /\ Older(k.in) \in 0 .. KeepAlive + 1
    BY MqttAssumption, ClientFields DEF Older
  <2>2. ASSUME NEW o \in 0 .. KeepAlive + 1, NEW i \in 0 .. KeepAlive + 1
        PROVE  [k EXCEPT !.out = o, !.in = i] \in Client
    BY DEF Client
  <2> QED BY <2>1, <2>2 DEF Aged
<1> QED BY <1>1, <1>2, <1>3, <1>4

\* Every action keeps the Booleans.
LEMMA FlagsKept == Flags /\ [Next]_vars => Flags'
<1> USE DEF Flags, IsConnected
<1>1. CASE runPeriodicalMQTT \/ MQTTConnected \/ MQTTpublish
  BY <1>1 DEF runPeriodicalMQTT, MQTTConnected, MQTTpublish, Update, KeepTimer, MQTTCheck, Connects, Succeed, Refuse
<1>2. CASE ImportLoop \/ ImportCheck \/ ImportConnected \/ SavesImport
  BY <1>2 DEF ImportLoop, ImportCheck, ImportConnected, SavesImport, UpdateImport
<1>3. CASE Answers \/ Arrives \/ BrokerMoves \/ Drops \/ Resets \/ WifiGoes \/ WifiComes
             \/ SavesController \/ RenamesUnit
  BY <1>3 DEF Answers, Arrives, BrokerMoves, Drops, Resets, WifiGoes, WifiComes,
              SavesController, RenamesUnit
<1>4. CASE Tick \/ UNCHANGED vars
  BY <1>4 DEF Tick, vars
<1> QED BY <1>1, <1>2, <1>3, <1>4 DEF Next, Node, World

\* What the broker, the network and MQTTpublish make of a client is one too.
LEMMA SurroundingsKeepClients ==
  ASSUME NEW k \in Client
  PROVE  /\ [k EXCEPT !.out = 0] \in Client /\ [k EXCEPT !.link = "dead"] \in Client
         /\ [k EXCEPT !.inbox = @ \union {"pingresp"}] \in Client
         /\ [k EXCEPT !.inbox = @ \union {"publish"}] \in Client
<1>1. [k EXCEPT !.out = 0] \in Client
  BY MqttAssumption DEF Client
<1>2. [k EXCEPT !.link = "dead"] \in Client
  BY DEF Client
<1>3. ASSUME NEW b \in SUBSET {"pingresp", "publish"}
      PROVE  [k EXCEPT !.inbox = b] \in Client
  BY DEF Client
<1>4. k.inbox \union {"pingresp"} \in SUBSET {"pingresp", "publish"}
      /\ k.inbox \union {"publish"} \in SUBSET {"pingresp", "publish"}
  BY ClientFields
<1> QED BY <1>1, <1>2, <1>3, <1>4

\* Every action keeps the clients.
LEMMA LinksKept == Links /\ [Next]_vars => Links'
<1> SUFFICES ASSUME Links, [Next]_vars PROVE Links'
  OBVIOUS
<1> USE MainIsClient, ClientTypes DEF Links
<1>1. CASE runPeriodicalMQTT \/ MQTTConnected
  BY <1>1 DEF runPeriodicalMQTT, MQTTConnected, MQTTCheck, Connects, Succeed, Refuse
<1>2. CASE MQTTpublish \/ Answers \/ Arrives
  BY <1>2, SurroundingsKeepClients DEF MQTTpublish, Answers, Arrives
<1>3. CASE ImportLoop
  BY <1>3 DEF ImportLoop
<1>4. CASE ImportCheck \/ ImportConnected \/ SavesImport
  BY <1>4 DEF ImportCheck, ImportConnected, SavesImport, MQTTConnect_037
<1>5. CASE BrokerMoves
  BY <1>5, SurroundingsKeepClients DEF BrokerMoves
<1>6. CASE Drops \/ Resets
  <2>1. PICK c \in Clients :
          \E k \in {Closed, [client[c] EXCEPT !.link = "dead"]} : client' = [client EXCEPT ![c] = k]
    BY <1>6 DEF Drops, Resets
  <2>2. Closed \in Client /\ [client[c] EXCEPT !.link = "dead"] \in Client
    BY SurroundingsKeepClients
  <2> QED BY <2>1, <2>2
<1>7. CASE WifiGoes \/ WifiComes \/ SavesController \/ RenamesUnit \/ UNCHANGED vars
  BY <1>7 DEF WifiGoes, WifiComes, SavesController, RenamesUnit, vars
<1>8. CASE Tick
  <2>1. client' = [c \in Clients |-> Aged(client[c])]
    BY <1>8 DEF Tick, Aged
  <2> QED BY <2>1
<1> QED BY <1>1, <1>2, <1>3, <1>4, <1>5, <1>6, <1>7, <1>8 DEF Next, Node, World

\* Every action keeps the interval of TIMER_MQTT below its limit.
LEMMA TimerKept == Timer /\ [Next]_vars => Timer'
<1> SUFFICES ASSUME Timer, [Next]_vars PROVE Timer'
  OBVIOUS
<1> USE MqttAssumption DEF Timer
<1>1. CASE runPeriodicalMQTT \/ MQTTConnected
  BY <1>1 DEF runPeriodicalMQTT, MQTTConnected, MQTTCheck, Connects, Succeed, Refuse, Update, KeepTimer, Rearm,
              Grown, timer
<1>2. CASE WifiComes \/ MQTTpublish
  BY <1>2 DEF WifiComes, MQTTpublish, Rearm
<1>3. CASE Tick
  <2>1. interval' = interval /\ due' = IF due = 0 THEN 0 ELSE due - 1
    BY <1>3 DEF Tick
  <2> QED BY <2>1
<1>4. CASE UNCHANGED timer
  BY <1>4 DEF timer
<1> QED BY <1>1, <1>2, <1>3, <1>4 DEF Next, Node, World, vars, timer, ImportLoop, ImportCheck,
  ImportConnected, Answers, Arrives, BrokerMoves, Drops, Resets, WifiGoes, SavesController,
  RenamesUnit, SavesImport

\* An attempt that blocks the node is one of these.
LEMMA BlockedTypes ==
  ASSUME NEW c \in Clients, NEW t \in 1 .. 3, Blocked(c, t)
  PROVE  job' \in Attempt
BY DEF Blocked, Attempt

\* Every action keeps the attempt and the list of what is to serve.
LEMMA WorkKept == Work /\ [Next]_vars => Work'
<1> SUFFICES ASSUME Work, [Next]_vars PROVE Work'
  OBVIOUS
<1> USE MainIsClient DEF Work
<1>0. 1 \in 1 .. 3
  OBVIOUS
<1>1. CASE runPeriodicalMQTT \/ MQTTConnected
  BY <1>0, <1>1, BlockedTypes DEF runPeriodicalMQTT, MQTTConnected, MQTTCheck, Connects, Succeed, Refuse
<1>2. CASE MQTTpublish \/ ImportLoop
  BY <1>2 DEF MQTTpublish, ImportLoop
<1>3. CASE ImportCheck \/ SavesImport
  BY <1>0, <1>3, BlockedTypes DEF ImportCheck, SavesImport, MQTTConnect_037, Round, Clients
<1>4. CASE ImportConnected
  <2>1. job \in Attempt /\ "import" \in Clients
    BY <1>4 DEF ImportConnected, Idle, Attempt
  <2>2. job.tries \in 1 .. 3 /\ (job.tries < 3 => job.tries + 1 \in 1 .. 3)
    BY <2>1 DEF Attempt
  <2> QED BY <1>4, <2>1, <2>2, BlockedTypes DEF ImportConnected, MQTTConnect_037
<1>5. CASE Tick
  <2>1. CASE job = Idle
    BY <1>5, <2>1 DEF Tick
  <2>2. CASE job # Idle
    <3>1. job' = [job EXCEPT !.wait = job.wait - 1] /\ job.wait > 0 /\ job \in Attempt
      BY <1>5, <2>2 DEF Tick
    <3>2. job.wait - 1 \in 0 .. SocketTimeout
      BY <3>1, MqttAssumption DEF Attempt
    <3>3. job' \in Attempt
      BY <3>1, <3>2 DEF Attempt
    <3> QED BY <1>5, <2>2, <3>3 DEF Tick
  <2> QED BY <2>1, <2>2
<1>6. CASE UNCHANGED <<job, todo>>
  BY <1>6
<1> QED BY <1>1, <1>2, <1>3, <1>4, <1>5, <1>6 DEF Next, Node, World, vars, timer,
  Answers, Arrives, BrokerMoves, Drops, Resets, WifiGoes, WifiComes, SavesController, RenamesUnit

\* The bounds are numbers.
LEMMA BoundTypes == NoticeBound \in Nat /\ ReconnectBound \in Nat /\ Blocking \in Nat
BY MqttAssumption DEF NoticeBound, ReconnectBound, LastRead, Longer, Blocking

\* A count that is cut off at its bound
LEMMA CountTypes ==
  ASSUME NEW b \in Nat, NEW n \in 0 .. b + 1, NEW goesOn \in BOOLEAN
  PROVE  Count(n, goesOn, b) \in 0 .. b + 1
BY DEF Count

\* Every action keeps the histories and the number of moves.
LEMMA CountsKept == Counts /\ [Next]_vars => Counts'
<1> SUFFICES ASSUME Counts, [Next]_vars PROVE Counts'
  OBVIOUS
<1> USE MqttAssumption, BoundTypes DEF Counts, history
<1>1. CASE runPeriodicalMQTT \/ MQTTConnected
  <2>1. (moves' = moves \/ Move) /\ (UNCHANGED history \/ (deaf' = 0 /\ waiting' = 0))
    BY <1>1 DEF runPeriodicalMQTT, MQTTConnected, MQTTCheck, Connects, Succeed, Refuse
  <2> QED BY <2>1 DEF Move
<1>2. CASE Tick
  BY <1>2, CountTypes DEF Tick, Reachable, HalfMade, Works, Live, IsConnected
<1>3. CASE Move /\ (UNCHANGED history \/ Change)
  BY <1>3 DEF Move, Change
<1>4. CASE UNCHANGED <<history, moves>>
  BY <1>4
<1> QED BY <1>1, <1>2, <1>3, <1>4 DEF Next, Node, World, vars, timer, MQTTpublish, ImportLoop,
  ImportCheck, ImportConnected, Answers, Arrives, BrokerMoves, Drops, Resets, WifiGoes, WifiComes,
  SavesController, RenamesUnit, SavesImport, Change

Types == Flags /\ Links /\ Timer /\ Work /\ Counts

\* The parts of TypeOK
LEMMA TypesAreTypeOK == TypeOK <=> Types
BY DEF TypeOK, Types, Flags, Links, Timer, Work, Counts, Client, Attempt

\* setup() starts with values of these types.
LEMMA InitTypes == Init => Types
<1> SUFFICES ASSUME Init PROVE Types
  OBVIOUS
<1>0. Flags
  BY DEF Init, Flags
<1>1. Timer
  BY MqttAssumption DEF Init, Timer
<1>2. Links /\ Work
  BY ClientTypes DEF Init, Links, Work
<1>3. Counts
  BY MqttAssumption, BoundTypes DEF Init, Counts
<1> QED BY <1>0, <1>1, <1>2, <1>3 DEF Types

\* Every action keeps all of them.
LEMMA TypesKept == Types /\ [Next]_vars => Types'
BY FlagsKept, LinksKept, TimerKept, WorkKept, CountsKept DEF Types

\* Every variable of the clients keeps its type: the keep-alive counters stop just
\* over MQTT_KEEPALIVE, the interval of TIMER_MQTT at its longest, an attempt is
\* one of three that take at most the socket time-out (PubSubClient::loop,
\* updateMQTTclient_connected, MQTTConnect_037).
THEOREM TypeCorrect == Spec => []TypeOK
<1>1. TypeOK /\ [Next]_vars => TypeOK'
  BY TypesKept, TypesAreTypeOK, PTL
<1> QED BY <1>1, InitTypes, TypesAreTypeOK, PTL DEF Spec
-----------------------------------------------------------------------------
(* What changes the time a client has left.                                  *)

\* The time left is a number, and bounded by the time of the next poll.
LEMMA LeftBounded ==
  ASSUME NEW k \in Client, NEW p \in Nat, NEW d \in Nat
  PROVE  /\ Left(k, p, d) \in Nat /\ p <= Left(k, p, d)
         /\ \A q \in Nat : p <= q /\ d + 1 <= q => Left(k, p, d) <= q + 2 * (KeepAlive + 1 + d)
<1>1. k.in \in Nat /\ k.in <= KeepAlive + 1
  BY ClientFields, MqttAssumption
<1> QED BY <1>1, MqttAssumption DEF Left, Longer

\* It shrinks with the time of the poll.
LEMMA LeftMonotone ==
  ASSUME NEW k \in Client, NEW d \in Nat, NEW p \in Nat, NEW q \in 0 .. p
  PROVE  Left(k, q, d) <= Left(k, p, d)
<1>1. k.in \in Nat /\ k.in <= KeepAlive + 1
  BY ClientFields, MqttAssumption
<1> QED BY <1>1, MqttAssumption DEF Left, Longer

\* What is sent, and a link that dies, change nothing; one that is closed takes no
\* longer.
LEMMA LeftSame ==
  ASSUME NEW k \in Client, NEW d \in Nat, NEW p \in Nat
  PROVE  /\ Left([k EXCEPT !.out = 0], p, d) = Left(k, p, d)
         /\ IsConnected(k) => Left([k EXCEPT !.link = "dead"], p, d) = Left(k, p, d)
         /\ Left(Closed, p, d) <= Left(k, p, d)
<1>1. Left([k EXCEPT !.out = 0], p, d) = Left(k, p, d)
  BY DEF Left, IsConnected, Client
<1>2. IsConnected(k) => Left([k EXCEPT !.link = "dead"], p, d) = Left(k, p, d)
  BY DEF Left, IsConnected, Client
<1>3. Left(Closed, p, d) = p
  BY DEF Left, IsConnected, Closed
<1> QED BY <1>1, <1>2, <1>3, LeftBounded

\* A beat takes one away: the counter of silence is a beat older, or already over
\* its limit.
LEMMA LeftAged ==
  ASSUME NEW k \in Client, NEW d \in Nat, NEW p \in Nat, NEW q \in Nat, q + 1 <= p
  PROVE  Left(Aged(k), q, d) + 1 <= Left(k, p, d)
<1>1. k.in \in Nat /\ k.in <= KeepAlive + 1
  BY ClientFields, MqttAssumption
<1>2. CASE ~IsConnected(k)
  BY <1>2 DEF Left, Aged
<1>3. CASE IsConnected(k)
  <2> DEFINE a == Aged(k)
  <2>1. /\ a.link = k.link /\ a.ping = k.ping /\ a.inbox = k.inbox
        /\ a.in = IF k.in > KeepAlive THEN k.in ELSE k.in + 1
    BY <1>3 DEF Aged, Older, Client
  <2> HIDE DEF a
  <2> QED BY <1>1, <1>3, <2>1, MqttAssumption DEF Left, IsConnected, Longer, a
<1> QED BY <1>2, <1>3

\* A poll that finds the client connected and comes back after the next beat, or
\* after the attempts that follow it, adds nothing: either it had something to
\* read, or it asks, or the silence is not long enough yet.
LEMMA LeftPolled ==
  ASSUME NEW k \in Client, NEW d \in Nat, NEW p \in Nat, IsConnected(Loop(k))
  PROVE  Left(Loop(k), d + 1, d) <= Left(k, p, d)
<1>1. k.in \in Nat /\ k.in <= KeepAlive + 1
  BY ClientFields, MqttAssumption
<1> DEFINE a == Loop(k)
<1>2. IsConnected(k) /\ ~(Overdue(k) /\ k.ping)
  BY DEF Loop, Closed, IsConnected
<1>3. /\ a.inbox = {}
      /\ a.ping = (Overdue(k) \/ (k.ping /\ "pingresp" \notin k.inbox))
      /\ a.in = IF Overdue(k) \/ k.inbox # {} THEN 0 ELSE k.in
  BY <1>2 DEF Loop, Client
<1> HIDE DEF a
<1>4. CASE k.inbox # {}
  <2>1. a.in = 0
    BY <1>3, <1>4
  <2> QED BY <1>1, <1>2, <1>3, <1>4, <2>1, MqttAssumption DEF Left, Longer, a
<1>5. CASE k.inbox = {} /\ Overdue(k)
  <2>1. a.in = 0 /\ a.ping /\ ~k.ping
    BY <1>2, <1>3, <1>5
  <2> QED BY <1>1, <1>2, <1>3, <1>5, <2>1, MqttAssumption DEF Left, Longer, a
<1>6. CASE k.inbox = {} /\ ~Overdue(k)
  <2>1. a.in = k.in /\ a.ping = k.ping /\ ~(k.in > KeepAlive)
    BY <1>3, <1>6, ClientFields DEF Overdue
  <2>2. Left(a, d + 1, d) = (KeepAlive + 1 - k.in + d)
                              + (IF k.ping THEN 0 ELSE KeepAlive + 1 + d)
    BY <1>1, <1>3, <2>1, MqttAssumption DEF Left, Longer, a
  <2>3. Left(k, p, d) = Longer(p, KeepAlive + 1 - k.in + d)
                          + (IF k.ping THEN 0 ELSE KeepAlive + 1 + d)
    BY <1>2, <1>6, <2>1 DEF Left
  <2> QED BY <1>1, <2>2, <2>3, MqttAssumption DEF Longer, a
<1> QED BY <1>4, <1>5, <1>6
-----------------------------------------------------------------------------
(* The main client between its polls.                                        *)

\* setup() has connected nothing.
LEMMA InitMain == Init => MainInv
BY MainIsClient DEF Init, MainInv, IsConnected, Closed

\* The two clients are different ones.
LEMMA ImportIsNotMain == "import" # "main"
OBVIOUS

\* setIntervalTimer has the timer due in one interval.
LEMMA RearmEffect == Timer' /\ Rearm => due' <= interval' + 1
<1>1. \A i \in Int : \A d : d = i + 1 => d <= i + 1
  OBVIOUS
<1>2. Timer' => interval' \in Int
  BY MqttAssumption DEF Timer
<1> QED BY <1>1, <1>2 DEF Rearm

\* updateMQTTclient_connected changes what counts as connected and has the timer
\* due in an interval, which is the shortest one for a connected client.
LEMMA UpdateEffect ==
  ASSUME Flags, Timer'
  PROVE  /\ Update(TRUE) => connected'["main"] /\ interval' = 0 /\ due' <= interval' + 1
         /\ Update(FALSE) => ~connected'["main"] /\ due' <= interval' + 1
         /\ Update(IsConnected(client["main"]))
              => /\ due' <= interval' + 1
                 /\ connected'["main"] => IsConnected(client["main"]) /\ interval' = 0
                 /\ IsConnected(client["main"]) => connected'["main"]
<1>1. Update(TRUE) => connected'["main"] /\ interval' = 0 /\ Rearm
  BY MainIsClient DEF Flags, Update
<1>2. Update(FALSE) => ~connected'["main"] /\ Rearm
  BY MainIsClient DEF Flags, Update
<1>3. ASSUME Update(IsConnected(client["main"]))
      PROVE  /\ Rearm
             /\ connected'["main"] => IsConnected(client["main"]) /\ interval' = 0
             /\ IsConnected(client["main"]) => connected'["main"]
  <2>1. CASE client["main"].link # "closed"
    BY <1>3, <2>1, MainIsClient DEF Flags, Update, IsConnected
  <2>2. CASE client["main"].link = "closed"
    BY <1>3, <2>2, MainIsClient DEF Flags, Update, IsConnected
  <2> QED BY <2>1, <2>2
<1> QED BY <1>1, <1>2, <1>3, RearmEffect

\* A beat changes no link and nobody's attempt, and serves no timer.
LEMMA TickEffect ==
  ASSUME Flags, Links, Timer, Work, Tick
  PROVE  /\ client'["main"] = Aged(client["main"]) /\ client'["main"].link = client["main"].link
         /\ UNCHANGED <<wifi, broker, enabled, connected, refused, interval>>
         /\ due' = IF due = 0 THEN 0 ELSE due - 1
         /\ job = Idle => job' = Idle
         /\ job # Idle => job.wait > 0 /\ job' = [job EXCEPT !.wait = job.wait - 1] /\ job \in Attempt
<1>1. client' = [c \in Clients |-> Aged(client[c])]
  BY DEF Tick, Aged
<1>2. client'["main"] = Aged(client["main"]) /\ client["main"] \in Client
  BY <1>1, MainIsClient DEF Links
<1>3. Aged(client["main"]).link = client["main"].link
  BY <1>2 DEF Aged, Client
<1>4. /\ UNCHANGED <<wifi, broker, enabled, connected, refused, interval>>
      /\ due' = IF due = 0 THEN 0 ELSE due - 1
      /\ job = Idle => job' = Idle
      /\ job # Idle => job.wait > 0 /\ job' = [job EXCEPT !.wait = job.wait - 1]
  BY DEF Tick
<1> QED BY <1>2, <1>3, <1>4 DEF Work

\* Only a connection that is made opens a link, and what closes it says so at the
\* next poll; the timer of a connected client stays at its shortest interval.
LEMMA MainKept == Types /\ MainInv /\ [Next]_vars => MainInv'
<1> SUFFICES ASSUME Flags, Links, Timer, Timer', Work, MainInv, [Next]_vars PROVE MainInv'
  BY TypesKept DEF Types
<1> USE MqttAssumption, MainIsClient DEF Links, Timer, MainInv
<1>1. CASE runPeriodicalMQTT
  <2>1. CASE ~wifi
    <3>1. /\ Update(IsConnected(client["main"])) /\ client' = client /\ job' = Idle
          /\ refused' = FALSE
      BY <1>1, <2>1 DEF runPeriodicalMQTT
    <3> QED BY <3>1, UpdateEffect
  <2>2. CASE wifi /\ enabled /\ IsConnected(Loop(client["main"]))
    BY <1>1, <2>2, RearmEffect DEF runPeriodicalMQTT, KeepTimer, Loop, IsConnected, Closed
  <2>3. CASE wifi /\ enabled /\ ~IsConnected(Loop(client["main"]))
    <3>1. CASE broker
      <4>1. /\ job' = Idle
            /\ (Update(TRUE) /\ ~refused') \/ (Update(FALSE) /\ refused')
        BY <1>1, <2>3, <3>1 DEF runPeriodicalMQTT, MQTTCheck, Connects, Succeed, Refuse
      <4> QED BY <4>1, UpdateEffect
    <3>2. CASE ~broker
      <4>1. /\ Update(FALSE) /\ refused' = FALSE
            /\ client' = [client EXCEPT !["main"] = Closed]
        BY <1>1, <2>3, <3>2 DEF runPeriodicalMQTT, MQTTCheck, Succeed
      <4>2. ~IsConnected(client'["main"])
        BY <4>1 DEF IsConnected, Closed
      <4> QED BY <4>1, <4>2, UpdateEffect
    <3> QED BY <3>1, <3>2
  <2>4. CASE wifi /\ ~enabled
    <3>1. /\ client' = [client EXCEPT !["main"] = Closed] /\ job' = Idle /\ refused' = FALSE
          /\ Update(FALSE) \/ (UNCHANGED <<connected, interval>> /\ Rearm)
      BY <1>1, <2>4 DEF runPeriodicalMQTT, KeepTimer
    <3>2. ~IsConnected(client'["main"])
      BY <3>1 DEF IsConnected, Closed
    <3> QED BY <3>1, <3>2, UpdateEffect, RearmEffect
  <2> QED BY <2>1, <2>2, <2>3, <2>4
<1>2. CASE MQTTConnected
  <2>1. CASE Succeed
    BY <2>1, UpdateEffect DEF Succeed, Connects
  <2>2. CASE ~Succeed
    <3>1. /\ UNCHANGED <<connected, interval, due>> /\ job' = Idle /\ ~connected["main"]
          /\ refused' \/ UNCHANGED <<client, refused>>
      BY <1>2, <2>2 DEF MQTTConnected, Refuse, Connects, timer
    <3> QED BY <3>1
  <2> QED BY <2>1, <2>2
<1>3. CASE MQTTpublish
  BY <1>3 DEF MQTTpublish, IsConnected, Client
<1>4. CASE ImportLoop
  BY <1>4, ImportIsNotMain DEF Flags, ImportLoop, UpdateImport, timer
<1>5. CASE ImportCheck \/ SavesImport
  <2>1. /\ client'["main"] = client["main"] /\ connected'["main"] = connected["main"]
        /\ UNCHANGED <<timer, refused>>
    BY <1>5, ImportIsNotMain DEF Flags, ImportCheck, SavesImport, UpdateImport, MQTTConnect_037
  <2>2. job' = job \/ job' = Idle \/ job'.who = "import"
    BY <1>5 DEF ImportCheck, SavesImport, MQTTConnect_037, Blocked
  <2> QED BY <2>1, <2>2, ImportIsNotMain DEF timer, IsConnected
<1>6. CASE ImportConnected
  BY <1>6, ImportIsNotMain DEF Flags, ImportConnected, UpdateImport, MQTTConnect_037, Blocked, timer
<1>7. CASE Answers \/ Arrives
  BY <1>7 DEF Answers, Arrives, IsConnected, Client, timer
<1>8. CASE BrokerMoves
  BY <1>8 DEF BrokerMoves, IsConnected, Closed, Client, timer
<1>9. CASE Drops \/ Resets
  BY <1>9 DEF Drops, Resets, IsConnected, Closed, Client, timer
<1>10. CASE WifiGoes \/ WifiComes \/ SavesController \/ RenamesUnit \/ UNCHANGED vars
  <2>1. /\ UNCHANGED <<client, connected, refused, job>>
        /\ UNCHANGED <<interval, due>> \/ (interval' = 0 /\ Rearm)
    BY <1>10 DEF WifiGoes, WifiComes, SavesController, RenamesUnit, vars, timer
  <2>2. due' <= interval' + 1
    BY <2>1, RearmEffect
  <2>3. IsConnected(client'["main"]) <=> IsConnected(client["main"])
    BY <2>1
  <2> QED BY <2>1, <2>2, <2>3
<1>11. CASE Tick
  <2>1. job' # Idle /\ job'.who = "main" => job # Idle /\ job.who = "main"
    BY <1>11, TickEffect DEF Attempt
  <2> QED BY <1>11, <2>1, TickEffect DEF IsConnected
<1> QED BY <1>1, <1>2, <1>3, <1>4, <1>5, <1>6, <1>7, <1>8, <1>9, <1>10, <1>11 DEF Next, Node, World
-----------------------------------------------------------------------------
(* What is left never exceeds the bounds.                                    *)

\* The attempts of the import client, and a check, take three time-outs each.
LEMMA BlockedBounded ==
  Types => /\ AttemptLeft \in 0 .. SocketTimeout /\ NextAttempts \in Nat
           /\ "check" \in todo => Import
           /\ BlockedLeft \in Nat /\ PollLeft \in Nat /\ PollLeftInReach \in Nat
           /\ job = Idle => BlockedLeft <= Blocking
           /\ job = Idle \/ job.who = "import" => BlockedLeft <= 2 * Blocking
<1> SUFFICES ASSUME Types
    PROVE  /\ AttemptLeft \in 0 .. SocketTimeout /\ NextAttempts \in Nat
           /\ "check" \in todo => Import
           /\ BlockedLeft \in Nat /\ PollLeft \in Nat /\ PollLeftInReach \in Nat
           /\ job = Idle => BlockedLeft <= Blocking
           /\ job = Idle \/ job.who = "import" => BlockedLeft <= 2 * Blocking
  OBVIOUS
<1> USE MqttAssumption
<1>1. job # Idle => job.wait \in 0 .. SocketTimeout /\ job.tries \in 1 .. 3 /\ job.who \in Clients
  BY DEF Types, Work, Attempt
<1>2. AttemptLeft \in 0 .. SocketTimeout
  BY <1>1 DEF AttemptLeft
<1>3. NextAttempts \in Nat /\ NextAttempts <= 2 * SocketTimeout /\ (job = Idle => NextAttempts = 0)
  BY <1>1 DEF NextAttempts
<1>4. "check" \in todo => Import
  BY DEF Types, Work, Round
<1>5. job # Idle /\ job.who = "import" => Import
  BY <1>1, ImportIsNotMain DEF Clients
<1>6. BlockedLeft \in Nat
  BY <1>2, <1>3, BoundTypes DEF BlockedLeft
<1>7. due \in Nat
  BY DEF Types, Timer
<1>8. PollLeft \in Nat /\ PollLeftInReach \in Nat
  BY <1>2, <1>6, <1>7, BoundTypes DEF PollLeft, PollLeftInReach, Longer
<1>9. job = Idle => BlockedLeft <= Blocking
  BY <1>3, BoundTypes DEF BlockedLeft, AttemptLeft
<1>10. job # Idle /\ job.who = "import" => BlockedLeft <= 2 * Blocking
  BY <1>2, <1>3, <1>5 DEF BlockedLeft, Blocking
<1>11. job = Idle => BlockedLeft <= 2 * Blocking
  BY <1>6, <1>9, BoundTypes
<1> QED BY <1>2, <1>3, <1>4, <1>6, <1>8, <1>9, <1>10, <1>11

\* A client that counts as connected has no more left than the bound.
LEMMA NoticeBounded ==
  Types /\ MainInv /\ connected["main"] => NoticeLeft \in Nat /\ NoticeLeft <= NoticeBound
<1> SUFFICES ASSUME Types, MainInv, connected["main"]
             PROVE  NoticeLeft \in Nat /\ NoticeLeft <= NoticeBound
  OBVIOUS
<1>1. client["main"] \in Client /\ job \in {Idle} \union Attempt
  BY MainIsClient DEF Types, Links, Work
<1>2. job = Idle \/ job.who = "import"
  BY <1>1, ImportIsNotMain DEF MainInv, Attempt, Clients
<1>3. PollLeft \in Nat /\ LastRead \in Nat /\ PollLeft <= LastRead /\ Blocking + 1 <= LastRead
  BY <1>2, BlockedBounded, BoundTypes DEF PollLeft, LastRead, Longer
<1> QED BY <1>1, <1>3, LeftBounded, BoundTypes DEF NoticeLeft, NoticeBound

\* The main client has no more left than the bound to be connected to a broker in
\* reach.
LEMMA ReconnectBounded ==
  Types /\ MainInv
    => ReconnectLeft \in Nat /\ (~HalfMade => ReconnectLeft <= ReconnectBound)
<1> SUFFICES ASSUME Types, MainInv
             PROVE  /\ ReconnectLeft \in Nat
                    /\ ~HalfMade => ReconnectLeft \in Nat /\ ReconnectLeft <= ReconnectBound
  OBVIOUS
<1> USE MqttAssumption
<1>1. client["main"] \in Client /\ due \in 0 .. MaxInterval + 1
  BY MainIsClient DEF Types, Links, Timer
<1>2. PollLeftInReach \in Nat /\ AttemptLeft \in 0 .. SocketTimeout
  BY BlockedBounded
<1>3. ReconnectLeft \in Nat
  BY <1>1, <1>2, LeftBounded DEF ReconnectLeft
<1>4. CASE ~IsConnected(client["main"])
  <2>1. ReconnectLeft = PollLeftInReach
    BY <1>4 DEF ReconnectLeft, Left
  <2> QED BY <1>1, <1>2, <1>3, <2>1 DEF PollLeftInReach, Longer, ReconnectBound
<1>5. CASE IsConnected(client["main"]) /\ ~HalfMade
  <2>1. due <= 1
    BY <1>1, <1>5 DEF MainInv, HalfMade
  <2>2. PollLeftInReach <= SocketTimeout
    BY <1>1, <1>2, <2>1 DEF PollLeftInReach, Longer
  <2>3. \A q \in Nat : PollLeftInReach <= q /\ 1 <= q => ReconnectLeft <= q + 2 * (KeepAlive + 1)
    <3>1. \A q \in Nat : PollLeftInReach <= q /\ 0 + 1 <= q
                            => ReconnectLeft <= q + 2 * (KeepAlive + 1 + 0)
      BY <1>1, <1>2, LeftBounded, Zenon DEF ReconnectLeft
    <3> QED BY <3>1
  <2> QED BY <1>3, <2>2, <2>3 DEF ReconnectBound, Longer
<1> QED BY <1>3, <1>4, <1>5
-----------------------------------------------------------------------------
(* No action but a beat takes time, and none but a restart adds any.         *)

\* A connection was made, or the surroundings have changed: counting starts anew.
Restarts == deaf' = 0 /\ waiting' = 0

\* Nothing is counted, nobody begins to listen or, with WiFi, to count as connected, and
\* who waits to notice, or to be connected again, waits no longer than before; no link is
\* made by halves.
Quiet ==
  /\ UNCHANGED <<wifi, broker, enabled, deaf, waiting>>
  /\ Live("main")' => Live("main")
  /\ connected'["main"] /\ wifi /\ enabled /\ ~Live("main")
       => connected["main"] /\ NoticeLeft' <= NoticeLeft
  /\ HalfMade' => HalfMade
  /\ Reachable /\ ~Live("main") /\ ~HalfMade => ReconnectLeft' <= ReconnectLeft

\* What the surroundings, and MQTTpublish, may make of the main client while nobody
\* listens to it
Worse(k) ==
  {k, Closed, [k EXCEPT !.out = 0]}
    \union (IF IsConnected(k) THEN {[k EXCEPT !.link = "dead"]} ELSE {})

\* None of it adds to the time left.
LEMMA WorseIsNoLonger ==
  ASSUME NEW k \in Client, NEW m \in Worse(k), NEW d \in Nat, NEW p \in Nat, NEW q \in 0 .. p
  PROVE  /\ Left(m, q, d) <= Left(k, p, d)
         /\ m.link = "open" => k.link = "open"
<1>0. q \in Nat
  OBVIOUS
<1>1. Left(k, q, d) \in Nat /\ Left(k, p, d) \in Nat /\ q \in Nat
  BY <1>0, LeftBounded
<1>2. Left(k, q, d) <= Left(k, p, d) /\ Left(Closed, q, d) <= Left(k, q, d)
  BY <1>1, LeftMonotone, LeftSame
<1>3. Left(Closed, q, d) \in Nat
  BY <1>1, ClientTypes, LeftBounded
<1>4. Left([k EXCEPT !.out = 0], q, d) = Left(k, q, d)
  BY <1>1, LeftSame
<1>5. IsConnected(k) => Left([k EXCEPT !.link = "dead"], q, d) = Left(k, q, d)
  BY <1>1, LeftSame
<1>6. Left(m, q, d) <= Left(k, p, d)
  <2>1. \/ m = k \/ m = Closed \/ m = [k EXCEPT !.out = 0]
        \/ IsConnected(k) /\ m = [k EXCEPT !.link = "dead"]
    BY DEF Worse
  <2>2. Left(m, q, d) = Left(k, q, d) \/ Left(m, q, d) = Left(Closed, q, d)
    BY <1>4, <1>5, <2>1
  <2> QED BY <1>1, <1>2, <1>3, <2>2
<1>7. m.link = "open" => k.link = "open"
  BY DEF Worse, Closed, Client
<1> QED BY <1>6, <1>7

\* A step after which the main client is no better off and TIMER_MQTT is polled no
\* later is quiet.
LEMMA StaysQuiet ==
  ASSUME Types, Types', UNCHANGED <<wifi, broker, enabled, deaf, waiting>>,
         ~Live("main") => client'["main"] \in Worse(client["main"]),
         ~Live("main") /\ connected'["main"] => connected["main"] /\ PollLeft' <= PollLeft,
         HalfMade' => HalfMade,
         Reachable => PollLeftInReach' <= PollLeftInReach
  PROVE  Quiet
<1>1. CASE Live("main")
  BY <1>1 DEF Quiet
<1>2. CASE ~Live("main")
  <2> DEFINE k == client["main"]
             m == client'["main"]
  <2>1. k \in Client /\ m \in Worse(k)
    BY <1>2, MainIsClient DEF Types, Links
  <2>2. /\ PollLeft \in Nat /\ PollLeftInReach \in Nat
        /\ (PollLeft \in Nat)' /\ (PollLeftInReach \in Nat)'
    BY BlockedBounded, PTL
  <2> HIDE DEF k, m
  <2>3. m.link = "open" => k.link = "open"
    BY <2>1, WorseIsNoLonger
  <2>4. ASSUME PollLeft' <= PollLeft
        PROVE  Left(m, PollLeft', Blocking) <= Left(k, PollLeft, Blocking)
    BY <2>1, <2>2, <2>4, WorseIsNoLonger, BoundTypes
  <2>5. ASSUME PollLeftInReach' <= PollLeftInReach
        PROVE  Left(m, PollLeftInReach', 0) <= Left(k, PollLeftInReach, 0)
    BY <2>1, <2>2, <2>5, WorseIsNoLonger
  <2>6. ~Live("main")'
    BY <1>2, <2>3 DEF Live, k, m
  <2>7. NoticeLeft = Left(k, PollLeft, Blocking) /\ NoticeLeft' = Left(m, PollLeft', Blocking)
    BY DEF NoticeLeft, k, m
  <2>8. /\ ReconnectLeft = Left(k, PollLeftInReach, 0)
        /\ ReconnectLeft' = Left(m, PollLeftInReach', 0)
    BY DEF ReconnectLeft, k, m
  <2> QED BY <1>2, <2>4, <2>5, <2>6, <2>7, <2>8 DEF Quiet
<1> QED BY <1>1, <1>2

\* It opens no link.
LEMMA WorseIsNoOpener ==
  (~Live("main") => client'["main"] \in Worse(client["main"]))
    => (IsConnected(client'["main"]) => IsConnected(client["main"]))
<1>1. Live("main") => IsConnected(client["main"])
  BY DEF Live, IsConnected
<1>2. ~IsConnected(Closed)
  BY DEF IsConnected, Closed
<1>3. ASSUME client'["main"] \in Worse(client["main"]), IsConnected(client'["main"])
      PROVE  IsConnected(client["main"])
  <2>1. CASE client'["main"] = client["main"] \/ client'["main"] = Closed
    BY <1>2, <1>3, <2>1
  <2>2. CASE client'["main"] = [client["main"] EXCEPT !.out = 0]
    BY <1>3, <2>2 DEF IsConnected
  <2> QED BY <1>3, <2>1, <2>2 DEF Worse
<1> QED BY <1>1, <1>3

\* A timer that is due as before or at once is polled no later, unless the node is
\* blocked for longer.
LEMMA PolledNoLater ==
  ASSUME Types, Types', due' = due \/ due' = 0
  PROVE  /\ BlockedLeft' <= BlockedLeft => PollLeft' <= PollLeft
         /\ AttemptLeft' <= AttemptLeft => PollLeftInReach' <= PollLeftInReach
<1>1. /\ BlockedLeft \in Nat /\ AttemptLeft \in 0 .. SocketTimeout
      /\ (BlockedLeft \in Nat)' /\ (AttemptLeft \in 0 .. SocketTimeout)'
  BY BlockedBounded, PTL
<1>2. due \in Nat /\ due' \in Nat
  BY MqttAssumption DEF Types, Timer
<1>3. AttemptLeft \in Nat /\ AttemptLeft' \in Nat
  BY <1>1, MqttAssumption
<1>4. ASSUME NEW b \in Nat, NEW c \in Nat, c <= b
      PROVE  /\ (IF due' = 0 THEN c ELSE Longer(c, Blocking + 1))
                   <= (IF due = 0 THEN b ELSE Longer(b, Blocking + 1))
             /\ Longer(due', c) <= Longer(due, b)
  BY <1>2, <1>4, BoundTypes DEF Longer
<1>5. BlockedLeft' <= BlockedLeft => PollLeft' <= PollLeft
  BY <1>1, <1>4 DEF PollLeft
<1>6. AttemptLeft' <= AttemptLeft => PollLeftInReach' <= PollLeftInReach
  BY <1>3, <1>4 DEF PollLeftInReach
<1> QED BY <1>5, <1>6

\* A step that leaves the main client, the timer and the work alone is quiet.
LEMMA NothingChanges ==
  ASSUME Types, Types', MainInv,
         UNCHANGED <<wifi, broker, enabled, refused, deaf, waiting, due, job>>,
         ~Live("main") => client'["main"] \in Worse(client["main"]),
         connected'["main"] => connected["main"], "check" \in todo' => "check" \in todo
  PROVE  Quiet
<1>1. BlockedLeft \in Nat /\ AttemptLeft \in 0 .. SocketTimeout /\ NextAttempts \in Nat
  BY BlockedBounded
<1>2. AttemptLeft' = AttemptLeft /\ NextAttempts' = NextAttempts
  BY DEF AttemptLeft, NextAttempts
<1>3. AttemptLeft' <= AttemptLeft
  BY <1>1, <1>2, MqttAssumption
<1>4. BlockedLeft' <= BlockedLeft
  BY <1>1, <1>2, BoundTypes, MqttAssumption DEF BlockedLeft
<1>5. PollLeft' <= PollLeft /\ PollLeftInReach' <= PollLeftInReach
  BY <1>3, <1>4, PolledNoLater
<1>6. HalfMade' => HalfMade
  BY WorseIsNoOpener DEF HalfMade
<1> QED BY <1>5, <1>6, StaysQuiet

\* A poll of TIMER_MQTT restarts the count or is quiet: when it finds the client
\* connected it comes back in the next beat.
LEMMA PollIsQuiet ==
  Types /\ Types' /\ MainInv /\ runPeriodicalMQTT => Quiet \/ Restarts
<1> SUFFICES ASSUME Types, Types', MainInv, runPeriodicalMQTT PROVE Quiet \/ Restarts
  OBVIOUS
<1> USE DEF runPeriodicalMQTT
<1>0. Flags /\ Timer' /\ client["main"] \in Client
  BY MainIsClient DEF Types, Links
<1>1. CASE ~wifi
  <2>1. /\ UNCHANGED <<wifi, broker, enabled, deaf, waiting, client>> /\ refused' = FALSE
        /\ Update(IsConnected(client["main"]))
    BY <1>1 DEF history
  <2> QED BY <1>0, <1>1, <2>1, UpdateEffect DEF Quiet, Live, Reachable, MainInv, HalfMade
<1>2. CASE wifi /\ enabled /\ IsConnected(Loop(client["main"]))
  <2>1. /\ UNCHANGED <<wifi, broker, enabled, refused, deaf, waiting, connected, interval, job, todo>>
        /\ client'["main"] = Loop(client["main"]) /\ due' = interval' + 1 /\ job = Idle
    BY <1>0, <1>2, MainIsClient DEF KeepTimer, Rearm, history, Types, Links
  <2>2. IsConnected(client["main"]) /\ Loop(client["main"]).link = client["main"].link
    BY <1>0, <1>2 DEF Loop, IsConnected, Closed, Client
  <2>3. connected["main"] => due' = 1
    <3>1. connected["main"] => interval' = 0
      BY <2>1 DEF MainInv
    <3> QED BY <2>1, <3>1
  <2>4. BlockedLeft' = BlockedLeft /\ AttemptLeft' = 0
    BY <2>1 DEF BlockedLeft, AttemptLeft, NextAttempts
  <2>5. BlockedLeft \in Nat /\ BlockedLeft <= Blocking /\ PollLeft \in Nat /\ PollLeftInReach \in Nat
    BY <2>1, BlockedBounded
  <2>6. connected["main"] => PollLeft' = Blocking + 1 /\ PollLeftInReach' = 0 + 1
    BY <2>3, <2>4, <2>5, BoundTypes DEF PollLeft, PollLeftInReach, Longer
  <2>7. connected["main"] => NoticeLeft' <= NoticeLeft
    BY <1>0, <1>2, <2>1, <2>5, <2>6, LeftPolled, BoundTypes DEF NoticeLeft
  <2>8. Left(Loop(client["main"]), 0 + 1, 0) <= Left(client["main"], PollLeftInReach, 0)
    BY <1>0, <1>2, <2>5, LeftPolled
  <2>9. connected["main"] => ReconnectLeft' <= ReconnectLeft
    BY <2>1, <2>6, <2>8 DEF ReconnectLeft
  <2>10. ~HalfMade => connected["main"]
    BY <2>2 DEF HalfMade, MainInv
  <2>11. (HalfMade' => HalfMade) /\ (Live("main")' => Live("main"))
    BY <2>1, <2>2 DEF HalfMade, Live
  <2> QED BY <2>1, <2>7, <2>9, <2>10, <2>11 DEF Quiet
<1>3. CASE wifi /\ enabled /\ ~IsConnected(Loop(client["main"])) /\ broker
  BY <1>3 DEF MQTTCheck, Connects, Succeed, Refuse, Restarts
<1>4. CASE wifi /\ enabled /\ ~IsConnected(Loop(client["main"])) /\ ~broker
  <2>1. /\ UNCHANGED <<wifi, broker, enabled, deaf, waiting>> /\ Update(FALSE)
        /\ refused' = FALSE
    BY <1>4 DEF MQTTCheck, history
  <2> QED BY <1>0, <1>4, <2>1, UpdateEffect DEF Quiet, Live, Reachable, HalfMade
<1>5. CASE wifi /\ ~enabled
  <2>1. /\ UNCHANGED <<wifi, broker, enabled, deaf, waiting>>
        /\ Update(FALSE) \/ UNCHANGED connected
        /\ client' = [client EXCEPT !["main"] = Closed] /\ refused' = FALSE
    BY <1>5 DEF history, KeepTimer
  <2>2. client'["main"].link # "open"
    BY <2>1, MainIsClient DEF Closed, Types, Links
  <2>3. ~HalfMade' /\ ~Live("main")'
    BY <2>1, <2>2 DEF HalfMade, Live
  <2> QED BY <1>0, <1>5, <2>1, <2>3, UpdateEffect DEF Quiet, Reachable
<1> QED BY <1>1, <1>2, <1>3, <1>4, <1>5 DEF Types, Flags

\* The import client never touches the main one or its timer, and its attempts
\* follow each other within the time they were counted with; in reach of the broker
\* the attempt under way is the last.
LEMMA ImportIsQuiet ==
  Types /\ Types' /\ MainInv /\ (ImportLoop \/ ImportCheck \/ ImportConnected) => Quiet
<1> SUFFICES ASSUME Types, Types', MainInv, ImportLoop \/ ImportCheck \/ ImportConnected
             PROVE  Quiet
  OBVIOUS
<1> USE MqttAssumption, BoundTypes
<1>1. /\ UNCHANGED <<wifi, broker, enabled, refused, deaf, waiting, due>>
      /\ client'["main"] = client["main"] /\ connected'["main"] = connected["main"]
  BY ImportIsNotMain, MainIsClient DEF ImportLoop, ImportCheck, ImportConnected, UpdateImport,
     MQTTConnect_037, Types, Flags, Links, history, timer
<1>2. client'["main"] \in Worse(client["main"])
  BY <1>1 DEF Worse
<1>3. AttemptLeft \in 0 .. SocketTimeout /\ NextAttempts \in Nat /\ BlockedLeft \in Nat
  BY BlockedBounded
<1>4. HalfMade' => HalfMade
  BY <1>1 DEF HalfMade
<1>5. CASE ImportLoop
  <2>1. job' = job /\ ("check" \in todo' => "check" \in todo)
    BY <1>5 DEF ImportLoop
  <2> QED BY <1>1, <1>2, <2>1, NothingChanges
<1>6. CASE ImportCheck
  <2>1. job = Idle /\ "check" \in todo /\ "check" \notin todo'
    BY <1>6 DEF ImportCheck
  <2>2. Import
    BY <2>1, BlockedBounded
  <2>3. \/ job' = Idle
        \/ ~Reachable /\ job'.tries = 1 /\ job'.wait \in 0 .. SocketTimeout /\ job' # Idle
    <3>1. \/ job' = Idle
          \/ ~Reachable /\ \E w \in 0 .. SocketTimeout :
                              job' = [who |-> "import", tries |-> 1, wait |-> w]
      BY <1>6, <2>1 DEF ImportCheck, MQTTConnect_037, Blocked, Reachable
    <3>2. \A w : [who |-> "import", tries |-> 1, wait |-> w] # Idle
      BY DEF Idle
    <3> QED BY <3>1, <3>2
  <2>4. AttemptLeft = 0 /\ NextAttempts = 0 /\ BlockedLeft = 3 * SocketTimeout
    BY <2>1, <2>2 DEF BlockedLeft, AttemptLeft, NextAttempts, Blocking
  <2>5. CASE job' = Idle
    <3>1. AttemptLeft' = 0 /\ NextAttempts' = 0 /\ BlockedLeft' = 0
      BY <2>1, <2>5 DEF BlockedLeft, AttemptLeft, NextAttempts
    <3>2. BlockedLeft' <= BlockedLeft /\ AttemptLeft' <= AttemptLeft
      BY <2>4, <3>1
    <3> QED BY <1>1, <1>2, <1>4, <3>2, PolledNoLater, StaysQuiet
  <2>6. CASE ~Reachable /\ job'.tries = 1 /\ job'.wait \in 0 .. SocketTimeout /\ job' # Idle
    <3>1. AttemptLeft' = job'.wait /\ NextAttempts' = 2 * SocketTimeout
      BY <2>6 DEF AttemptLeft, NextAttempts
    <3>2. BlockedLeft' <= 3 * SocketTimeout
      BY <2>1, <2>6, <3>1 DEF BlockedLeft
    <3>3. BlockedLeft' <= BlockedLeft
      BY <2>4, <3>2
    <3> QED BY <1>1, <1>2, <1>4, <2>6, <3>3, PolledNoLater, StaysQuiet
  <2> QED BY <2>3, <2>5, <2>6
<1>7. CASE ImportConnected
  <2>1. /\ job # Idle /\ todo' = todo /\ job.tries \in 1 .. 3 /\ job.wait \in 0 .. SocketTimeout
    BY <1>7 DEF ImportConnected, Types, Work, Attempt
  <2>2. \/ job' = Idle
        \/ /\ ~Reachable /\ job.wait = 0 /\ job.tries < 3 /\ job' # Idle
           /\ job'.tries = job.tries + 1 /\ job'.wait \in 0 .. SocketTimeout
    <3>1. \/ job' = Idle
          \/ /\ ~Reachable /\ job.wait = 0 /\ job.tries < 3
             /\ \E w \in 0 .. SocketTimeout :
                   job' = [who |-> "import", tries |-> job.tries + 1, wait |-> w]
      BY <1>7, <2>1 DEF ImportConnected, MQTTConnect_037, Blocked, Reachable
    <3>2. \A w, t : [who |-> "import", tries |-> t, wait |-> w] # Idle
      BY DEF Idle
    <3> QED BY <3>1, <3>2
  <2>3. CASE job' = Idle
    <3>1. AttemptLeft' = 0 /\ NextAttempts' = 0
      BY <2>3 DEF AttemptLeft, NextAttempts
    <3>2. BlockedLeft' <= BlockedLeft /\ AttemptLeft' <= AttemptLeft
      BY <1>3, <2>1, <3>1 DEF BlockedLeft
    <3> QED BY <1>1, <1>2, <1>4, <3>2, PolledNoLater, StaysQuiet
  <2>4. CASE /\ ~Reachable /\ job.wait = 0 /\ job.tries < 3 /\ job' # Idle
             /\ job'.tries = job.tries + 1 /\ job'.wait \in 0 .. SocketTimeout
    <3>1. AttemptLeft' = job'.wait /\ AttemptLeft = 0
      BY <2>1, <2>4 DEF AttemptLeft
    <3>2. NextAttempts' + SocketTimeout = NextAttempts
      BY <2>1, <2>4 DEF NextAttempts
    <3>3. (NextAttempts \in Nat)'
      BY BlockedBounded, PTL
    <3>4. ASSUME NEW w \in 0 .. SocketTimeout, NEW m \in Nat, NEW c \in Nat
          PROVE  w + m + c <= 0 + (m + SocketTimeout) + c
      OBVIOUS
    <3>5. BlockedLeft' <= BlockedLeft
      <4>1. CASE "check" \in todo
        <5>1. /\ BlockedLeft' = job'.wait + NextAttempts' + Blocking
              /\ BlockedLeft = 0 + (NextAttempts' + SocketTimeout) + Blocking
          BY <2>1, <3>1, <3>2, <4>1 DEF BlockedLeft
        <5> QED BY <2>4, <3>3, <3>4, <5>1
      <4>2. CASE "check" \notin todo
        <5>1. /\ BlockedLeft' = job'.wait + NextAttempts' + 0
              /\ BlockedLeft = 0 + (NextAttempts' + SocketTimeout) + 0
          BY <2>1, <3>1, <3>2, <4>2 DEF BlockedLeft
        <5> QED BY <2>4, <3>3, <3>4, <5>1
      <4> QED BY <4>1, <4>2
    <3> QED BY <1>1, <1>2, <1>4, <2>4, <3>5, PolledNoLater, StaysQuiet
  <2> QED BY <2>2, <2>3, <2>4
<1> QED BY <1>5, <1>6, <1>7

\* What the main client sends, and the end of an attempt to connect it, restart the
\* count or are quiet.
LEMMA MainIsQuiet ==
  Types /\ Types' /\ MainInv /\ (MQTTConnected \/ MQTTpublish) => Quiet \/ Restarts
<1> SUFFICES ASSUME Types, Types', MainInv, MQTTConnected \/ MQTTpublish PROVE Quiet \/ Restarts
  OBVIOUS
<1> USE MqttAssumption
<1>0. AttemptLeft \in 0 .. SocketTimeout /\ NextAttempts \in Nat /\ BlockedLeft \in Nat
  BY BlockedBounded
<1>1. CASE MQTTConnected /\ (Succeed \/ Refuse)
  BY <1>1 DEF Succeed, Refuse, Connects, Restarts
<1>2. CASE MQTTConnected /\ ~(Succeed \/ Refuse)
  <2>1. /\ UNCHANGED <<wifi, broker, enabled, refused, deaf, waiting, client, connected, due, todo>>
        /\ job # Idle /\ job.who = "main" /\ job' = Idle
    BY <1>2 DEF MQTTConnected, history, timer
  <2>2. AttemptLeft' = 0
    BY <2>1 DEF AttemptLeft
  <2>3. PollLeftInReach' <= PollLeftInReach
    BY <1>0, <2>1, <2>2, PolledNoLater
  <2>4. client'["main"] \in Worse(client["main"]) /\ ~connected["main"]
    BY <2>1 DEF Worse, MainInv
  <2>5. HalfMade' => HalfMade
    BY <2>1 DEF HalfMade
  <2> QED BY <2>1, <2>3, <2>4, <2>5, StaysQuiet
<1>3. CASE MQTTpublish
  <2>1. /\ UNCHANGED <<wifi, broker, enabled, refused, deaf, waiting, connected, job>> /\ due' = 0
        /\ "check" \in todo' <=> "check" \in todo
        /\ client'["main"] = [client["main"] EXCEPT !.out = 0]
    BY <1>3, MainIsClient DEF MQTTpublish, history, Types, Links
  <2>2. AttemptLeft' <= AttemptLeft /\ BlockedLeft' <= BlockedLeft
    BY <1>0, <2>1 DEF AttemptLeft, NextAttempts, BlockedLeft
  <2>3. PollLeftInReach' <= PollLeftInReach /\ PollLeft' <= PollLeft
    BY <2>1, <2>2, PolledNoLater
  <2>4. client'["main"] \in Worse(client["main"])
    BY <2>1 DEF Worse
  <2>5. HalfMade' => HalfMade
    BY <2>1, <2>4, WorseIsNoOpener DEF HalfMade
  <2> QED BY <2>1, <2>3, <2>4, <2>5, StaysQuiet
<1> QED BY <1>1, <1>2, <1>3

\* The broker and the network restart the count, or do nothing for a main client
\* nobody listens to.
LEMMA SurroundingsAreQuiet ==
  Types /\ Types' /\ MainInv /\ (Answers \/ Arrives \/ Drops \/ Resets \/ RenamesUnit) => Quiet
<1> SUFFICES ASSUME Types, Types', MainInv, Answers \/ Arrives \/ Drops \/ Resets \/ RenamesUnit
             PROVE  Quiet
  OBVIOUS
<1>1. UNCHANGED <<wifi, broker, enabled, refused, deaf, waiting, due, job, connected, todo>>
  BY DEF Answers, Arrives, Drops, Resets, RenamesUnit, history, timer
<1>2. ~Live("main") => client'["main"] \in Worse(client["main"])
  <2> SUFFICES ASSUME ~Live("main") PROVE client'["main"] \in Worse(client["main"])
    OBVIOUS
  <2> USE MainIsClient DEF Types, Links
  <2>1. CASE Answers \/ Arrives
    <3>1. client'["main"] = client["main"]
      BY <2>1 DEF Answers, Arrives, Asked
    <3> QED BY <3>1 DEF Worse
  <2>2. CASE Drops
    <3>1. \/ client'["main"] = client["main"]
          \/ /\ client["main"].link = "open"
             /\ client'["main"] = [client["main"] EXCEPT !.link = "dead"]
      BY <2>2 DEF Drops
    <3> QED BY <3>1 DEF Worse, IsConnected
  <2>3. CASE Resets
    <3>1. client'["main"] \in {client["main"], Closed}
      BY <2>3 DEF Resets
    <3> QED BY <3>1 DEF Worse
  <2>4. CASE RenamesUnit
    BY <2>4 DEF RenamesUnit, Worse
  <2> QED BY <2>1, <2>2, <2>3, <2>4
<1> QED BY <1>1, <1>2, NothingChanges

\* So every step is quiet, restarts the count, or is a beat.
LEMMA StepKinds ==
  Types /\ Types' /\ MainInv /\ [Next]_vars => Quiet \/ Restarts \/ Tick
<1> SUFFICES ASSUME Types, Types', MainInv, [Next]_vars PROVE Quiet \/ Restarts \/ Tick
  OBVIOUS
<1>1. CASE Node \/ MQTTpublish
  BY <1>1, PollIsQuiet, MainIsQuiet, ImportIsQuiet DEF Node
<1>2. CASE Answers \/ Arrives \/ Drops \/ Resets \/ RenamesUnit
  BY <1>2, SurroundingsAreQuiet
<1>3. CASE BrokerMoves \/ WifiGoes \/ WifiComes \/ SavesController \/ SavesImport
  BY <1>3 DEF BrokerMoves, WifiGoes, WifiComes, SavesController, SavesImport, Change, Restarts
<1>4. CASE UNCHANGED vars
  <2>1. client'["main"] \in Worse(client["main"])
    BY <1>4 DEF Worse, vars
  <2> QED BY <1>4, <2>1, NothingChanges DEF vars, timer, history
<1> QED BY <1>1, <1>2, <1>3, <1>4 DEF Next, World
-----------------------------------------------------------------------------
(* A beat takes one away.                                                    *)

\* A beat brings the next poll nearer: the timer is due sooner, or the node has been
\* blocked for a beat of the time it may be.
LEMMA BeatBringsPoll ==
  ASSUME Types, Types', MainInv, Tick
  PROVE  /\ PollLeftInReach' + 1 <= PollLeftInReach
         /\ connected["main"] => PollLeft' + 1 <= PollLeft
<1> USE MqttAssumption, BoundTypes
<1>0. Flags /\ Links /\ Timer /\ Work
  BY DEF Types
<1>1. due \in Nat /\ AttemptLeft \in 0 .. SocketTimeout /\ NextAttempts \in Nat
      /\ BlockedLeft \in Nat
  BY <1>0, BlockedBounded DEF Timer
<1>2. due' = IF due = 0 THEN 0 ELSE due - 1
  BY <1>0, TickEffect
<1>3. connected["main"] => due = 0 \/ due = 1
  BY <1>1 DEF MainInv
<1>4. CASE job = Idle
  <2>1. due > 0 /\ "check" \notin todo /\ job' = Idle
    BY <1>4 DEF Tick
  <2>2. /\ AttemptLeft = 0 /\ AttemptLeft' = 0 /\ NextAttempts = 0 /\ NextAttempts' = 0
        /\ BlockedLeft = 0
    BY <1>4, <2>1 DEF AttemptLeft, NextAttempts, BlockedLeft
  <2>3. BlockedLeft' = 0 \/ BlockedLeft' = Blocking
    BY <2>2 DEF BlockedLeft
  <2>4. PollLeftInReach' + 1 <= PollLeftInReach
    BY <1>1, <1>2, <2>1, <2>2 DEF PollLeftInReach, Longer
  <2>5. connected["main"] => PollLeft = Blocking + 1 /\ PollLeft' = BlockedLeft'
    BY <1>2, <1>3, <2>1, <2>2 DEF PollLeft, Longer
  <2> QED BY <2>3, <2>4, <2>5
<1>5. CASE job # Idle
  <2>1. job.wait > 0 /\ job' = [job EXCEPT !.wait = job.wait - 1] /\ job \in Attempt
    BY <1>0, <1>5, TickEffect
  <2>2. /\ job'.wait = job.wait - 1 /\ job'.tries = job.tries /\ job'.who = job.who
        /\ job.wait \in 0 .. SocketTimeout /\ todo' = todo
    BY <1>5, <2>1 DEF Attempt, Tick
  <2>3. job' # Idle
    BY <2>1, <2>2 DEF Idle, Attempt, Clients
  <2>4. AttemptLeft' = AttemptLeft - 1 /\ NextAttempts' = NextAttempts /\ AttemptLeft \in Nat \ {0}
    BY <1>1, <1>5, <2>1, <2>2, <2>3 DEF AttemptLeft, NextAttempts
  <2>5. BlockedLeft' = BlockedLeft - 1 /\ BlockedLeft > 0
    BY <1>1, <2>2, <2>4 DEF BlockedLeft
  <2>6. PollLeftInReach' + 1 <= PollLeftInReach
    BY <1>1, <1>2, <2>4 DEF PollLeftInReach, Longer
  <2>7. connected["main"] => BlockedLeft <= PollLeft /\ PollLeft' = BlockedLeft'
    BY <1>1, <1>2, <1>3 DEF PollLeft, Longer
  <2>8. connected["main"] => PollLeft' + 1 <= PollLeft
    BY <1>1, <2>5, <2>7, BlockedBounded
  <2> QED BY <2>6, <2>8
<1> QED BY <1>4, <1>5

\* So does a beat with the times left, and nothing that is counted goes away.
LEMMA BeatTakesOne ==
  ASSUME Types, Types', MainInv, Tick
  PROVE  /\ connected["main"] => NoticeLeft' + 1 <= NoticeLeft
         /\ ReconnectLeft' + 1 <= ReconnectLeft
         /\ Live("main")' <=> Live("main")
         /\ HalfMade' <=> HalfMade
<1>0. Flags /\ Links /\ Timer /\ Work /\ client["main"] \in Client
  BY MainIsClient DEF Types, Links
<1>1. /\ PollLeft \in Nat /\ PollLeftInReach \in Nat
      /\ (PollLeft \in Nat)' /\ (PollLeftInReach \in Nat)'
  BY BlockedBounded, PTL
<1>2. client'["main"] = Aged(client["main"]) /\ client'["main"].link = client["main"].link
      /\ UNCHANGED <<wifi, broker, refused>>
  BY <1>0, TickEffect
<1>3. connected["main"] => NoticeLeft' + 1 <= NoticeLeft
  BY <1>0, <1>1, <1>2, BeatBringsPoll, LeftAged, BoundTypes DEF NoticeLeft
<1>4. 0 \in Nat
  OBVIOUS
<1>5. ReconnectLeft' + 1 <= ReconnectLeft
  BY <1>0, <1>1, <1>2, <1>4, BeatBringsPoll, LeftAged DEF ReconnectLeft
<1> QED BY <1>2, <1>3, <1>5 DEF Live, HalfMade, IsConnected
-----------------------------------------------------------------------------
(* The bounds.                                                               *)

\* A count and what is left of its bound
LEMMA CountAndLeft ==
  \A n, l, m, b \in Nat :
    /\ n + l <= b /\ m <= l => n + m <= b
    /\ n + l <= b /\ m + 1 <= l => n + 1 + m <= b /\ n + 1 <= b /\ ~(n > b)
    /\ l <= b => 0 + l <= b
OBVIOUS

\* What has been counted and what is left never exceed the time to notice.
LEMMA DeafKept ==
  Types /\ Types' /\ MainInv /\ MainInv' /\ DeafInv /\ [Next]_vars => DeafInv'
<1> SUFFICES ASSUME Types, Types', MainInv, MainInv', DeafInv, [Next]_vars PROVE DeafInv'
  OBVIOUS
<1>1. connected["main"] => NoticeLeft \in Nat /\ NoticeLeft <= NoticeBound
  BY NoticeBounded
<1>2. connected'["main"] => NoticeLeft' \in Nat /\ NoticeLeft' <= NoticeBound
  <2>1. (connected["main"] => NoticeLeft \in Nat /\ NoticeLeft <= NoticeBound)'
    BY NoticeBounded, PTL
  <2> QED BY <2>1 DEF NoticeBound, LastRead, Longer, Blocking
<1>3. deaf \in Nat /\ NoticeBound \in Nat
  BY BoundTypes DEF Types, Counts
<1>5. CASE Restarts
  BY <1>2, <1>3, <1>5 DEF Restarts, DeafInv
<1>6. CASE Quiet
  <2>1. deaf' = deaf /\ (Live("main")' \/ ~wifi' \/ ~enabled' => deaf = 0) /\ deaf <= NoticeBound
    BY <1>6 DEF Quiet, DeafInv
  <2>2. ASSUME connected'["main"] PROVE deaf + NoticeLeft' <= NoticeBound
    <3>1. CASE Live("main") \/ ~wifi \/ ~enabled
      BY <1>2, <1>3, <2>2, <3>1 DEF DeafInv
    <3>2. CASE ~(Live("main") \/ ~wifi \/ ~enabled)
      <4>1. connected["main"] /\ NoticeLeft' <= NoticeLeft /\ deaf + NoticeLeft <= NoticeBound
        BY <1>6, <2>2, <3>2 DEF Quiet, DeafInv
      <4> QED BY <1>1, <1>2, <1>3, <2>2, <4>1, CountAndLeft
    <3> QED BY <3>1, <3>2
  <2> QED BY <2>1, <2>2 DEF DeafInv
<1>7. CASE Tick
  <2> DEFINE goesOn == wifi /\ enabled /\ connected["main"] /\ ~Live("main")
  <2>1. /\ UNCHANGED <<wifi, enabled, connected>> /\ (Live("main")' <=> Live("main"))
        /\ connected["main"] => NoticeLeft' + 1 <= NoticeLeft
    BY <1>7, BeatTakesOne DEF Tick
  <2>2. CASE goesOn
    <3>1. deaf + NoticeLeft <= NoticeBound /\ NoticeLeft' + 1 <= NoticeLeft
      BY <2>1, <2>2 DEF DeafInv
    <3>2. NoticeLeft \in Nat /\ NoticeLeft' \in Nat
      BY <1>1, <1>2, <2>1, <2>2
    <3>3. /\ deaf + 1 + NoticeLeft' <= NoticeBound /\ deaf + 1 <= NoticeBound
          /\ ~(deaf > NoticeBound)
      BY <1>3, <3>1, <3>2, CountAndLeft
    <3>4. deaf' = deaf + 1
      BY <1>7, <2>2, <3>3 DEF Tick, Count
    <3> QED BY <2>1, <2>2, <3>3, <3>4 DEF DeafInv
  <2>3. CASE ~goesOn
    <3>1. deaf' = 0
      BY <1>7, <2>3 DEF Tick, Count
    <3> QED BY <1>2, <1>3, <3>1 DEF DeafInv
  <2> QED BY <2>2, <2>3
<1> QED BY <1>5, <1>6, <1>7, StepKinds

\* The same for the time to be connected to a broker in reach.
LEMMA WaitingKept ==
  Types /\ Types' /\ MainInv /\ MainInv' /\ WaitingInv /\ [Next]_vars => WaitingInv'
<1> SUFFICES ASSUME Types, Types', MainInv, MainInv', WaitingInv, [Next]_vars PROVE WaitingInv'
  OBVIOUS
<1>1. ReconnectLeft \in Nat /\ (~HalfMade => ReconnectLeft <= ReconnectBound)
  BY ReconnectBounded
<1>2. ReconnectLeft' \in Nat /\ (~HalfMade' => ReconnectLeft' <= ReconnectBound)
  <2>1. (ReconnectLeft \in Nat /\ (~HalfMade => ReconnectLeft <= ReconnectBound))'
    BY ReconnectBounded, PTL
  <2> QED BY <2>1 DEF ReconnectBound, Longer
<1>3. waiting \in Nat /\ ReconnectBound \in Nat
  BY BoundTypes DEF Types, Counts
<1>4. (~HalfMade' => 0 + ReconnectLeft' <= ReconnectBound) /\ 0 <= ReconnectBound
  <2>1. \A l, b \in Nat : l <= b => 0 + l <= b /\ 0 <= b
    OBVIOUS
  <2>2. 0 <= ReconnectBound
    BY <1>3
  <2> QED BY <1>2, <1>3, <2>1, <2>2
<1>5. Live("main") => connected["main"] \/ HalfMade
  BY DEF Live, MainInv, HalfMade, IsConnected
<1>6. CASE Restarts
  BY <1>4, <1>6 DEF Restarts, WaitingInv
<1>7. CASE Quiet
  <2>1. /\ waiting' = waiting /\ (Live("main")' \/ ~Reachable' \/ HalfMade' => waiting = 0)
        /\ waiting <= ReconnectBound
    BY <1>7 DEF Quiet, WaitingInv, Reachable
  <2>2. ASSUME ~HalfMade' PROVE waiting + ReconnectLeft' <= ReconnectBound
    <3>1. CASE Live("main") \/ ~Reachable \/ HalfMade
      BY <1>4, <2>2, <3>1 DEF WaitingInv
    <3>2. CASE ~(Live("main") \/ ~Reachable \/ HalfMade)
      <4>1. ReconnectLeft' <= ReconnectLeft /\ waiting + ReconnectLeft <= ReconnectBound
        BY <1>7, <3>2 DEF Quiet, WaitingInv
      <4> QED BY <1>1, <1>2, <1>3, <2>2, <3>2, <4>1, CountAndLeft
    <3> QED BY <3>1, <3>2
  <2> QED BY <2>1, <2>2 DEF WaitingInv
<1>8. CASE Tick
  <2> DEFINE goesOn == Reachable /\ ~HalfMade /\ ~Works("main")
  <2>1. /\ UNCHANGED <<wifi, broker, enabled>> /\ (Live("main")' <=> Live("main"))
        /\ (HalfMade' <=> HalfMade)
        /\ ReconnectLeft' + 1 <= ReconnectLeft
    BY <1>8, BeatTakesOne DEF Tick
  <2>2. CASE goesOn
    <3>1. waiting + ReconnectLeft <= ReconnectBound /\ ~Live("main") /\ Reachable /\ ~HalfMade
      BY <1>5, <2>2 DEF WaitingInv, Works
    <3>2. /\ waiting + 1 + ReconnectLeft' <= ReconnectBound /\ waiting + 1 <= ReconnectBound
          /\ ~(waiting > ReconnectBound)
      BY <1>1, <1>2, <1>3, <2>1, <3>1, CountAndLeft
    <3>3. waiting' = waiting + 1
      BY <1>8, <2>2, <3>2 DEF Tick, Count
    <3>4. Reachable' /\ ~Live("main")' /\ ~HalfMade'
      BY <2>1, <3>1 DEF Reachable
    <3> QED BY <3>2, <3>3, <3>4 DEF WaitingInv
  <2>3. CASE ~goesOn
    <3>1. waiting' = 0
      BY <1>8, <2>3 DEF Tick, Count
    <3> QED BY <1>4, <3>1 DEF WaitingInv
  <2> QED BY <2>2, <2>3
<1> QED BY <1>6, <1>7, <1>8, StepKinds

\* setup() has counted nothing.
LEMMA InitCounts == Init => DeafInv /\ WaitingInv
<1> SUFFICES ASSUME Init PROVE DeafInv /\ WaitingInv
  OBVIOUS
<1>1. Types /\ MainInv
  BY InitTypes, InitMain
<1>2. ~connected["main"] /\ deaf = 0 /\ waiting = 0
  BY MainIsClient DEF Init
<1>3. ReconnectLeft \in Nat /\ (~HalfMade => ReconnectLeft <= ReconnectBound)
  BY <1>1, ReconnectBounded
<1> QED BY <1>2, <1>3, BoundTypes DEF DeafInv, WaitingInv

\* The invariant of the main client, which both bounds rest on
LEMMA MainInvariant == Spec => [](Types /\ MainInv)
BY InitTypes, InitMain, TypesKept, MainKept, PTL DEF Spec

\* A broker that has gone silent, for whatever reason and whatever the import client
\* tries meanwhile, is noticed within NoticeBound: the poll that reads what arrived
\* last, the keep-alive time that leads to a ping and the one that gives it up, each
\* prolonged by the attempts of the import client (PubSubClient::loop, runPeriodicalMQTT).
THEOREM SilenceIsNoticed == Spec => []DeadBrokerNoticed
<1>1. DeafInv => DeadBrokerNoticed
  BY DEF DeafInv, DeadBrokerNoticed
<1>2. Types /\ MainInv /\ (Types /\ MainInv)' /\ DeafInv /\ [Next]_vars => DeafInv'
  BY DeafKept
<1> QED BY <1>1, <1>2, MainInvariant, InitCounts, PTL DEF Spec

\* While broker and WiFi are in reach the main client is connected again within
\* ReconnectBound, from every state a loss, a pause or a half-dead connection has left
\* behind; the time in which it has a link whose connect message was refused is not
\* counted, for then nothing in the code ends it (MQTTConnect,
\* updateMQTTclient_connected, MQTTCheck).
THEOREM ReconnectionIsPrompt == Spec => []ReconnectsInTime
<1>1. WaitingInv => ReconnectsInTime
  BY DEF WaitingInv, ReconnectsInTime
<1>2. Types /\ MainInv /\ (Types /\ MainInv)' /\ WaitingInv /\ [Next]_vars => WaitingInv'
  BY WaitingKept
<1> QED BY <1>1, <1>2, MainInvariant, InitCounts, PTL DEF Spec
=============================================================================
