--------------------------- MODULE ModbusTCPClient ---------------------------
(***************************************************************************)
(* One connection of the plugin: class ModbusTCPClient in                  *)
(* engine/src/modbus_tcp_client.cpp.                                       *)
(*                                                                         *)
(* The public operations run one at a time (the module's connection mutex  *)
(* serializes them, see ModbusTCPClientModule), but two libmodbus calls    *)
(* block, modbus_connect and a request/response exchange; while they do,   *)
(* time passes and the peer and the socket change.  An operation is        *)
(* therefore one action up to its first blocking call and one action per   *)
(* return of a blocking call.                                              *)
(*                                                                         *)
(* std::chrono::steady_clock is modelled by the time that is left on each  *)
(* deadline the code compares `now` with.  One Tick is 1/Second of a       *)
(* second.                                                                 *)
(***************************************************************************)
EXTENDS Integers

CONSTANTS Second,        \* ticks in a second
          ErrorGap,      \* ticks in 750 ms, the least gap of two connection events
          MaxFailures,   \* cap of consecutive_connection_failures_, 30 in the code
          Endpoints      \* the kinds of configured endpoint considered

ASSUME SecondAssumption == Second \in Nat \ {0}
ASSUME ErrorGapAssumption == ErrorGap \in Nat \ {0}
ASSUME MaxFailuresAssumption == MaxFailures \in Nat \ {0}

\* "invalid": empty address or a port outside 1..65535; "overlong": an address
\* for which modbus_new_tcp_pi returns a null context.
EndpointKinds == {"valid", "invalid", "overlong"}
ASSUME EndpointsAssumption == Endpoints \subseteq EndpointKinds

VARIABLES
  endpoint,          \* server_ip_ and server_port_, fixed by the constructor
  connected,         \* connected_
  context,           \* context_ # nullptr
  protocolHealthy,   \* protocol_healthy_
  failures,          \* consecutive_connection_failures_
  reconnectWait,     \* ticks until next_reconnect_attempt_, 0 when it has passed
  publicationWait,   \* ticks until publishConnectionError may record again
  eventHeld,         \* connection_error_event_id_ is not empty
  operation,         \* the public operation in progress, or "none"
  phase,             \* "idle", or the libmodbus call the operation is blocked in
  returned,          \* what the last finished operation returned (the monitor,
                     \* which returns nothing: whether it left the connection up)
  infoConnected,     \* RAPID channel <instance>.info.connected
  event,             \* ARGUS event modbus_connection_error|<instance>
  orphaned,          \* the firing event was left by a destroyed client (history)
  peer,              \* how the Modbus server behaves
  peerClosed,        \* the server has closed the open socket
  owed,              \* replies the server may still send on the open socket
  sinceAttempt       \* ticks since the last connect(), up to Second (history)

memberVars == <<connected, context, protocolHealthy, failures, reconnectWait,
                publicationWait, eventHeld>>
callVars == <<operation, phase, returned>>
outsideVars == <<infoConnected, event, orphaned>>
socketVars == <<peerClosed, owed>>
clientVars == <<endpoint, memberVars, callVars, outsideVars, peer, socketVars,
                sinceAttempt>>

-----------------------------------------------------------------------------
\* The operations of the class: "oversized" is a transaction over more
\* addresses than one Modbus request holds, which libmodbus refuses unsent.
Operations == {"ensureConnected", "monitorConnection", "transaction", "oversized"}
Phases == {"idle", "connecting", "awaiting"}

\* "refusing": answers, but not with what was asked for (an exception, too few
\* values); "mute": accepts connections, answers late or never; "garbling":
\* answers with frames libmodbus rejects; "gone": host or service unreachable.
PeerBehaviours == {"answering", "refusing", "mute", "garbling", "gone"}
Responsive == {"answering", "refusing"}

Replies == {"current", "earlier"}

\* (std::min)(uint32_t(1) << exponent, uint32_t(30)) seconds, exponent being
\* (std::min)(failures - 1, 5).
BackoffSeconds == <<1, 2, 4, 8, 16, 30>>
BackoffDelay(n) == Second * BackoffSeconds[IF n < 6 THEN n ELSE 6]

TypeOK ==
  /\ endpoint \in EndpointKinds
  /\ connected \in BOOLEAN
  /\ context \in BOOLEAN
  /\ protocolHealthy \in BOOLEAN
  /\ failures \in 0..MaxFailures
  /\ reconnectWait \in 0..(30 * Second)
  /\ publicationWait \in 0..ErrorGap
  /\ eventHeld \in BOOLEAN
  /\ operation \in Operations \cup {"none"}
  /\ phase \in Phases
  /\ returned \in BOOLEAN
  /\ infoConnected \in BOOLEAN
  /\ event \in {"none", "firing", "resolved"}
  /\ orphaned \in BOOLEAN
  /\ peer \in PeerBehaviours
  /\ peerClosed \in BOOLEAN
  /\ owed \subseteq Replies
  /\ sinceAttempt \in 0..Second

-----------------------------------------------------------------------------
\* The private helpers, each the whole effect of one member function on the
\* variables it assigns.

SetProtocolHealthy(healthy) ==
  /\ protocolHealthy' = healthy
  /\ infoConnected' = IF protocolHealthy = healthy THEN infoConnected ELSE healthy

\* Bug: the flag is cleared, the channel keeps its value.
ClosesWithoutPublishing ==
  /\ connected' = FALSE
  /\ context' = FALSE
  /\ protocolHealthy' = FALSE
  /\ UNCHANGED infoConnected
  /\ peerClosed' = FALSE
  /\ owed' = {}

CloseContextAndSetDisconnected ==
  /\ connected' = FALSE
  /\ context' = FALSE
  /\ SetProtocolHealthy(FALSE)
  /\ peerClosed' = FALSE
  /\ owed' = {}

\* Bug: the counter grows, the deadline is forgotten.
CountsFailureOnly ==
  /\ failures' = IF failures + 1 < MaxFailures THEN failures + 1 ELSE MaxFailures
  /\ UNCHANGED reconnectWait

ScheduleReconnect ==
  /\ failures' = IF failures + 1 < MaxFailures THEN failures + 1 ELSE MaxFailures
  /\ reconnectWait' = BackoffDelay(failures')

\* Bug: a suppressed publication restarts the 750 ms, too.
ThrottleRestarts ==
  /\ publicationWait' = ErrorGap
  /\ IF publicationWait > 0
       THEN UNCHANGED <<eventHeld, event, orphaned>>
       ELSE eventHeld' = TRUE /\ event' = "firing" /\ orphaned' = FALSE

\* recordEvent refreshes the event that carries the same correlation key.
PublishConnectionError ==
  IF publicationWait > 0
    THEN UNCHANGED <<publicationWait, eventHeld, event, orphaned>>
    ELSE /\ publicationWait' = ErrorGap
         /\ eventHeld' = TRUE
         /\ event' = "firing"
         /\ orphaned' = FALSE

\* Bug: the identifier is forgotten before the event is updated.
ForgetsEvent ==
  /\ eventHeld' = FALSE
  /\ UNCHANGED <<event, orphaned>>

ResolveConnectionError ==
  /\ eventHeld' = FALSE
  /\ event' = IF eventHeld THEN "resolved" ELSE event
  /\ UNCHANGED orphaned

\* Bug: the reconnect deadline outlives the connection.
KeepsDeadline ==
  /\ failures' = 0
  /\ UNCHANGED reconnectWait
  /\ SetProtocolHealthy(TRUE)
  /\ ResolveConnectionError

MarkProtocolResponsive ==
  /\ failures' = 0
  /\ reconnectWait' = 0
  /\ SetProtocolHealthy(TRUE)
  /\ ResolveConnectionError

\* The operation is over and returns value.
Return(value) ==
  /\ operation' = "none"
  /\ phase' = "idle"
  /\ returned' = value

\* What handleOperationFailure does when the stream can no longer be trusted:
\* timeout, lost connection and lost framing take the same steps.
ResetConnection ==
  /\ CloseContextAndSetDisconnected
  /\ ScheduleReconnect
  /\ PublishConnectionError
  /\ Return(FALSE)
  /\ UNCHANGED <<endpoint, peer, sinceAttempt>>

-----------------------------------------------------------------------------
\* Constructor: the channel is created with value 0.0.
ClientInit ==
  /\ endpoint \in Endpoints
  /\ connected = FALSE
  /\ context = FALSE
  /\ protocolHealthy = FALSE
  /\ failures = 0
  /\ reconnectWait = 0
  /\ publicationWait = 0
  /\ eventHeld = FALSE
  /\ operation = "none"
  /\ phase = "idle"
  /\ returned = FALSE
  /\ infoConnected = FALSE
  /\ event = "none"
  /\ orphaned = FALSE
  /\ peer \in PeerBehaviours
  /\ peerClosed = FALSE
  /\ owed = {}
  /\ sinceAttempt = Second

\* What ensureConnected() tests.
Usable == connected /\ context
CoolingDown == ~Usable /\ reconnectWait > 0
MayAttempt == ~Usable /\ reconnectWait = 0

\* The request goes out and the operation blocks for its reply.
SendRequest(op) ==
  /\ operation' = op
  /\ phase' = "awaiting"
  /\ owed' = (IF owed = {} THEN {} ELSE {"earlier"}) \cup {"current"}
  /\ UNCHANGED <<returned, peerClosed>>

\* An operation entered while the connection is up. ensureConnected() returns
\* true; the monitor marks the protocol responsive; a transaction sends.
EnsureWhileConnected ==
  /\ phase = "idle" /\ Usable
  /\ Return(TRUE)
  /\ UNCHANGED <<endpoint, memberVars, outsideVars, peer, socketVars, sinceAttempt>>

SendWhileConnected ==
  /\ phase = "idle" /\ Usable
  /\ SendRequest("transaction")
  /\ UNCHANGED <<endpoint, memberVars, outsideVars, peer, sinceAttempt>>

\* libmodbus refuses the request: handleOperationFailure sees neither a timeout
\* nor a loss.
RefuseOversized ==
  /\ phase = "idle" /\ Usable
  /\ MarkProtocolResponsive
  /\ Return(FALSE)
  /\ UNCHANGED <<endpoint, connected, context, publicationWait, peer, socketVars,
                 sinceAttempt>>

MonitorWhileConnected ==
  /\ phase = "idle" /\ Usable /\ ~peerClosed
  /\ MarkProtocolResponsive
  /\ Return(TRUE)
  /\ UNCHANGED <<endpoint, connected, context, publicationWait, peer, socketVars,
                 sinceAttempt>>

\* monitorConnection() finds the socket closed; the backoff it schedules keeps
\* the ensureConnected() that follows from connecting.
MonitorFindsPeerClosed ==
  /\ phase = "idle" /\ Usable /\ peerClosed
  /\ ResetConnection

\* An operation entered while the reconnect deadline lies ahead.
CallWhileCoolingDown(op) ==
  /\ phase = "idle" /\ CoolingDown
  /\ op # "monitorConnection"
  /\ Return(FALSE)
  /\ UNCHANGED <<endpoint, memberVars, outsideVars, peer, socketVars, sinceAttempt>>

\* Bug: the monitor schedules again while it cools down.
MonitorReschedules ==
  /\ phase = "idle" /\ CoolingDown
  /\ PublishConnectionError
  /\ ScheduleReconnect
  /\ Return(FALSE)
  /\ UNCHANGED <<endpoint, connected, context, protocolHealthy, infoConnected, peer,
                 socketVars, sinceAttempt>>

MonitorWhileCoolingDown ==
  /\ phase = "idle" /\ CoolingDown
  /\ PublishConnectionError
  /\ Return(FALSE)
  /\ UNCHANGED <<endpoint, connected, context, protocolHealthy, failures,
                 reconnectWait, infoConnected, peer, socketVars, sinceAttempt>>

\* An operation that attempts the connection, up to modbus_connect.
OpenConnection(op) ==
  /\ phase = "idle" /\ MayAttempt /\ endpoint = "valid"
  /\ reconnectWait' = Second
  /\ connected' = FALSE
  /\ context' = TRUE
  /\ SetProtocolHealthy(FALSE)
  /\ peerClosed' = FALSE
  /\ owed' = {}
  /\ operation' = op
  /\ phase' = "connecting"
  /\ sinceAttempt' = 0
  /\ UNCHANGED <<endpoint, failures, publicationWait, eventHeld, returned, event,
                 orphaned, peer>>

\* connect() with an endpoint it refuses.
RejectEndpoint(op) ==
  /\ phase = "idle" /\ MayAttempt /\ endpoint = "invalid"
  /\ CloseContextAndSetDisconnected
  /\ PublishConnectionError
  /\ ScheduleReconnect
  /\ Return(FALSE)
  /\ sinceAttempt' = 0
  /\ UNCHANGED <<endpoint, peer>>

\* connect() without a context: no backoff beyond the second that
\* ensureConnected() set aside.
LackContext(op) ==
  /\ phase = "idle" /\ MayAttempt /\ endpoint = "overlong"
  /\ CloseContextAndSetDisconnected
  /\ PublishConnectionError
  /\ reconnectWait' = Second
  /\ Return(FALSE)
  /\ sinceAttempt' = 0
  /\ UNCHANGED <<endpoint, failures, peer>>

-----------------------------------------------------------------------------
\* Returns of modbus_connect.
ConnectSucceeds ==
  /\ phase = "connecting" /\ peer # "gone"
  /\ connected' = TRUE
  /\ MarkProtocolResponsive
  /\ IF operation = "transaction"
       THEN SendRequest(operation)
       ELSE /\ Return(operation # "oversized")
            /\ UNCHANGED socketVars
  /\ UNCHANGED <<endpoint, context, publicationWait, peer, sinceAttempt>>

ConnectFails ==
  /\ phase = "connecting" /\ peer = "gone"
  /\ ResetConnection

\* Returns of a request/response exchange. The replies of a socket arrive in the
\* order of their requests, so one owed to an earlier request comes first.
ReplyArrives ==
  /\ phase = "awaiting" /\ peer \in Responsive /\ ~peerClosed
  /\ "earlier" \notin owed

ReplyCompletes ==
  /\ ReplyArrives /\ peer = "answering"
  /\ MarkProtocolResponsive
  /\ owed' = owed \ {"current"}
  /\ Return(TRUE)
  /\ UNCHANGED <<endpoint, connected, context, publicationWait, peer, peerClosed,
                 sinceAttempt>>

\* A result that is neither -1 nor the size asked for.
ReplyFallsShort ==
  /\ ReplyArrives /\ peer = "refusing"
  /\ owed' = owed \ {"current"}
  /\ Return(FALSE)
  /\ UNCHANGED <<endpoint, memberVars, outsideVars, peer, peerClosed, sinceAttempt>>

\* A Modbus exception response.
ReplyIsException ==
  /\ ReplyArrives /\ peer = "refusing"
  /\ MarkProtocolResponsive
  /\ owed' = owed \ {"current"}
  /\ Return(FALSE)
  /\ UNCHANGED <<endpoint, connected, context, publicationWait, peer, peerClosed,
                 sinceAttempt>>

\* Bug: the connection is kept after a response timeout.
KeepsConnectionOnTimeout ==
  /\ phase = "awaiting" /\ peer \in {"mute", "gone"} /\ ~peerClosed
  /\ Return(FALSE)
  /\ UNCHANGED <<endpoint, memberVars, outsideVars, peer, socketVars, sinceAttempt>>

ResponseTimesOut ==
  /\ phase = "awaiting" /\ peer \in {"mute", "gone"} /\ ~peerClosed
  /\ ResetConnection

ConnectionIsLost ==
  /\ phase = "awaiting" /\ peerClosed
  /\ ResetConnection

\* libmodbus rejects a frame: malformed, or of another transaction.
FrameIsRejected == peer = "garbling" \/ (peer \in Responsive /\ "earlier" \in owed)

FramingIsLost ==
  /\ phase = "awaiting" /\ ~peerClosed
  /\ FrameIsRejected
  /\ ResetConnection

-----------------------------------------------------------------------------
\* The instance is destroyed and another of its name constructed: the
\* destructor closes the connection, and the new client holds no event.
Recreate ==
  /\ phase = "idle"
  /\ CloseContextAndSetDisconnected
  /\ failures' = 0
  /\ reconnectWait' = 0
  /\ publicationWait' = 0
  /\ eventHeld' = FALSE
  /\ orphaned' = (event = "firing")
  /\ returned' = FALSE
  /\ sinceAttempt' = Second
  /\ UNCHANGED <<endpoint, operation, phase, event, peer>>

PeerChanges ==
  /\ peer' \in PeerBehaviours \ {peer}
  /\ UNCHANGED <<endpoint, memberVars, callVars, outsideVars, socketVars, sinceAttempt>>

PeerCloses ==
  /\ connected /\ ~peerClosed /\ peer # "gone"
  /\ peerClosed' = TRUE
  /\ UNCHANGED <<endpoint, memberVars, callVars, outsideVars, peer, owed, sinceAttempt>>

Elapse(left) == IF left > 0 THEN left - 1 ELSE 0

TimersRunning == reconnectWait > 0 \/ publicationWait > 0 \/ sinceAttempt < Second

Tick ==
  /\ TimersRunning
  /\ reconnectWait' = Elapse(reconnectWait)
  /\ publicationWait' = Elapse(publicationWait)
  /\ sinceAttempt' = IF sinceAttempt < Second THEN sinceAttempt + 1 ELSE Second
  /\ UNCHANGED <<endpoint, connected, context, protocolHealthy, failures, eventHeld,
                 callVars, outsideVars, peer, socketVars>>

-----------------------------------------------------------------------------
\* The public operations, up to their first blocking call or their return.
MayConnect(op) ==
  \/ OpenConnection(op)
  \/ RejectEndpoint(op)
  \/ LackContext(op)

EnsureConnected ==
  \/ EnsureWhileConnected
  \/ CallWhileCoolingDown("ensureConnected")
  \/ MayConnect("ensureConnected")

MonitorConnection ==
  \/ MonitorWhileConnected
  \/ MonitorFindsPeerClosed
  \/ MonitorWhileCoolingDown
  \/ MayConnect("monitorConnection")

Transact ==
  \/ SendWhileConnected
  \/ CallWhileCoolingDown("transaction")
  \/ MayConnect("transaction")

TransactOversized ==
  \/ RefuseOversized
  \/ CallWhileCoolingDown("oversized")
  \/ MayConnect("oversized")

ConnectReturns == ConnectSucceeds \/ ConnectFails

ExchangeFails ==
  \/ ReplyFallsShort
  \/ ReplyIsException
  \/ ResponseTimesOut
  \/ ConnectionIsLost
  \/ FramingIsLost

LibmodbusReturns == ConnectReturns \/ ReplyCompletes \/ ExchangeFails

Environment == PeerChanges \/ PeerCloses \/ Tick

ClientNext ==
  \/ EnsureConnected
  \/ MonitorConnection
  \/ Transact
  \/ TransactOversized
  \/ LibmodbusReturns
  \/ Recreate
  \/ Environment

ClientSpec == ClientInit /\ [][ClientNext]_clientVars

\* libmodbus calls return (both have a timeout), time passes, and the monitor
\* thread gets its turn whenever it keeps finding the client free: it sleeps a
\* second between turns and the tasks release the mutex after every cycle.
Fairness ==
  /\ WF_clientVars(Tick)
  /\ WF_clientVars(LibmodbusReturns)
  /\ SF_clientVars(MonitorConnection)

MonitoredSpec == ClientSpec /\ Fairness

-----------------------------------------------------------------------------
\* Outside a libmodbus call the RAPID channel tells whether the client holds a
\* connection, although setProtocolHealthy() skips the publication whenever its
\* flag already has the value (modbus_tcp_client.cpp:235-241).
ChannelShowsConnection == infoConnected = connected

\* The ARGUS event of this client fires exactly while it holds the identifier,
\* and no client that has a connection leaves an event of its own firing
\* (modbus_tcp_client.cpp:359-391).
AlarmOnlyDuringOutage ==
  /\ eventHeld <=> (event = "firing" /\ ~orphaned)
  /\ connected => ~eventHeld

\* No operation starts on a socket over which the server still owes a reply, so
\* that a late reply cannot answer the next request
\* (modbus_tcp_client.cpp:337-345).
StreamUnambiguous ==
  owed = IF phase = "awaiting" THEN {"current"} ELSE {}

\* The libmodbus context exists exactly while a connection is up or being made,
\* and a connection that is up carries no backoff from earlier failures
\* (modbus_tcp_client.cpp:243-265, 282-328).
ContextAndBackoffConsistent ==
  /\ context <=> (connected \/ phase = "connecting")
  /\ phase = "connecting" => ~connected
  /\ phase = "awaiting" => connected
  /\ connected => failures = 0 /\ reconnectWait = 0
  /\ ~connected /\ failures > 0 => reconnectWait <= BackoffDelay(failures)

\* Two calls of connect() are at least a second apart, whatever the tasks, the
\* monitor and the peer do (modbus_tcp_client.cpp:250-265).
AttemptsSpaced ==
  [][sinceAttempt' < sinceAttempt => sinceAttempt = Second]_clientVars

\* A server that keeps accepting and answering is connected again and again,
\* however far the backoff had grown.
Reconnects ==
  endpoint = "valid" /\ <>[](peer \in Responsive) => []<>connected

\* The client as the rest of the system sees it: a link, and an alarm that is
\* its own or was left by its predecessor.
AlarmOwner == IF event # "firing" THEN "none" ELSE IF orphaned THEN "orphan" ELSE "own"

Health == INSTANCE ConnectionHealth WITH linkUp <- infoConnected, alarm <- AlarmOwner

\* The client implements ConnectionHealth: an alarm of its own is withdrawn only
\* by a connection, and an outage does not stay without one although events are
\* throttled (modbus_tcp_client.cpp:359-391).
ImplementsHealth == Health!Spec

\* The safety part of the implementation: what a step may do to link and alarm.
ImplementsHealthSafety == Health!Safety
=============================================================================
