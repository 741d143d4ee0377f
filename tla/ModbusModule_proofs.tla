------------------------ MODULE ModbusModule_proofs ------------------------
(***************************************************************************)
(* Proofs about the client, for every tick length, event gap, failure cap  *)
(* and set of endpoints, and about the module that shares it: its threads  *)
(* use the client as its own specification allows, so that every theorem   *)
(* about the client holds in a module, and the mutex serializes their      *)
(* transactions.                                                           *)
(***************************************************************************)
EXTENDS ModbusModule, TLAPS

(***************************************************************************)
(* The client.                                                             *)
(***************************************************************************)
USE SecondAssumption, ErrorGapAssumption, MaxFailuresAssumption, EndpointsAssumption

\* Between a second and thirty: the bounds of the backoff
\* (modbus_tcp_client.cpp:250-257).
LEMMA BackoffBounds ==
  ASSUME NEW n \in Nat \ {0}
  PROVE  BackoffDelay(n) \in Second..(30 * Second)
<1>1. CASE n < 6
  <2>1. n = 1 \/ n = 2 \/ n = 3 \/ n = 4 \/ n = 5
    BY <1>1
  <2> QED
    BY <1>1, <2>1 DEF BackoffDelay, BackoffSeconds
<1>2. CASE ~(n < 6)
  BY <1>2 DEF BackoffDelay, BackoffSeconds
<1> QED
  BY <1>1, <1>2

\* What scheduleReconnect() leaves behind.
LEMMA ScheduleBounds ==
  ASSUME TypeOK, ScheduleReconnect
  PROVE  /\ failures' \in 1..MaxFailures
         /\ reconnectWait' = BackoffDelay(failures')
         /\ reconnectWait' \in Second..(30 * Second)
<1>1. failures' \in 1..MaxFailures
  BY DEF TypeOK, ScheduleReconnect
<1>2. reconnectWait' = BackoffDelay(failures')
  BY DEF ScheduleReconnect
<1> QED
  BY <1>1, <1>2, BackoffBounds

-----------------------------------------------------------------------------
\* The strengthening of the safety invariants. Besides them it says that the
\* flag follows the connection, that an operation is in progress exactly while a
\* libmodbus call blocks, and that without a connection the time since the last
\* attempt and the time to the next one add up to a second at least.
SpacingInv == ~connected => reconnectWait + sinceAttempt >= Second

CallInv == (phase = "idle") <=> (operation = "none")

ClientInv ==
  /\ TypeOK
  /\ ChannelShowsConnection
  /\ protocolHealthy = connected
  /\ AlarmOnlyDuringOutage
  /\ StreamUnambiguous
  /\ ContextAndBackoffConsistent
  /\ CallInv
  /\ SpacingInv

-----------------------------------------------------------------------------
\* Every step keeps the types.
LEMMA ClosingTypes ==
  ASSUME TypeOK, CloseContextAndSetDisconnected
  PROVE  /\ connected' \in BOOLEAN /\ context' \in BOOLEAN
         /\ protocolHealthy' \in BOOLEAN /\ infoConnected' \in BOOLEAN
         /\ peerClosed' \in BOOLEAN /\ owed' \subseteq Replies
BY DEF TypeOK, CloseContextAndSetDisconnected, SetProtocolHealthy

LEMMA PublishingTypes ==
  ASSUME TypeOK, PublishConnectionError
  PROVE  /\ publicationWait' \in 0..ErrorGap
         /\ eventHeld' \in BOOLEAN /\ orphaned' \in BOOLEAN
         /\ event' \in {"none", "firing", "resolved"}
<1>1. publicationWait' \in 0..ErrorGap
  BY DEF TypeOK, PublishConnectionError
<1>2. /\ eventHeld' \in BOOLEAN /\ orphaned' \in BOOLEAN
      /\ event' \in {"none", "firing", "resolved"}
  BY DEF TypeOK, PublishConnectionError
<1> QED
  BY <1>1, <1>2

LEMMA ScheduleTypes ==
  ASSUME TypeOK, ScheduleReconnect
  PROVE  failures' \in 0..MaxFailures /\ reconnectWait' \in 0..(30 * Second)
BY ScheduleBounds

LEMMA MarkingTypes ==
  ASSUME TypeOK, MarkProtocolResponsive
  PROVE  /\ failures' \in 0..MaxFailures /\ reconnectWait' \in 0..(30 * Second)
         /\ protocolHealthy' \in BOOLEAN /\ infoConnected' \in BOOLEAN
         /\ eventHeld' \in BOOLEAN /\ orphaned' \in BOOLEAN
         /\ event' \in {"none", "firing", "resolved"}
<1>1. failures' \in 0..MaxFailures /\ reconnectWait' \in 0..(30 * Second)
  BY DEF TypeOK, MarkProtocolResponsive
<1>2. protocolHealthy' \in BOOLEAN /\ infoConnected' \in BOOLEAN
  BY DEF TypeOK, MarkProtocolResponsive, SetProtocolHealthy
<1>3. /\ eventHeld' \in BOOLEAN /\ orphaned' \in BOOLEAN
      /\ event' \in {"none", "firing", "resolved"}
  BY DEF TypeOK, MarkProtocolResponsive, ResolveConnectionError
<1> QED
  BY <1>1, <1>2, <1>3

LEMMA ResetKeepsTypes ==
  ASSUME TypeOK, ResetConnection
  PROVE  TypeOK'
BY ClosingTypes, PublishingTypes, ScheduleTypes DEF ResetConnection, Return, TypeOK, Phases

LEMMA OpeningKeepsTypes ==
  ASSUME TypeOK, NEW op \in Operations, MayConnect(op)
  PROVE  TypeOK'
<1>1. CASE OpenConnection(op)
  <2>1. protocolHealthy' \in BOOLEAN /\ infoConnected' \in BOOLEAN
    BY <1>1 DEF OpenConnection, SetProtocolHealthy, TypeOK
  <2>2. sinceAttempt' \in 0..Second /\ reconnectWait' \in 0..(30 * Second)
    BY <1>1 DEF OpenConnection
  <2> QED
    BY <1>1, <2>1, <2>2 DEF OpenConnection, TypeOK, Phases
<1>2. CASE RejectEndpoint(op)
  <2>1. sinceAttempt' \in 0..Second
    BY <1>2 DEF RejectEndpoint
  <2> QED
    BY <1>2, <2>1, ClosingTypes, PublishingTypes, ScheduleTypes
       DEF RejectEndpoint, Return, TypeOK, Phases
<1>3. CASE LackContext(op)
  <2>1. sinceAttempt' \in 0..Second /\ reconnectWait' \in 0..(30 * Second)
    BY <1>3 DEF LackContext
  <2> QED
    BY <1>3, <2>1, ClosingTypes, PublishingTypes DEF LackContext, Return, TypeOK, Phases
<1> QED
  BY <1>1, <1>2, <1>3 DEF MayConnect

LEMMA OperationsKeepTypes ==
  ASSUME TypeOK,
         EnsureConnected \/ MonitorConnection \/ Transact \/ TransactOversized
  PROVE  TypeOK'
<1> USE DEF TypeOK, Phases, memberVars, outsideVars, socketVars
<1>1. CASE EnsureWhileConnected
  BY <1>1 DEF EnsureWhileConnected, Return
<1>2. CASE SendWhileConnected
  BY <1>2 DEF SendWhileConnected, SendRequest, Operations, Replies
<1>3. CASE RefuseOversized
  BY <1>3, MarkingTypes DEF RefuseOversized, Return
<1>4. CASE MonitorWhileConnected
  BY <1>4, MarkingTypes DEF MonitorWhileConnected, Return
<1>5. CASE MonitorFindsPeerClosed
  BY <1>5, ResetKeepsTypes DEF MonitorFindsPeerClosed
<1>6. CASE \E op \in Operations : CallWhileCoolingDown(op)
  BY <1>6 DEF CallWhileCoolingDown, Return
<1>7. CASE MonitorWhileCoolingDown
  BY <1>7, PublishingTypes DEF MonitorWhileCoolingDown, Return
<1>8. CASE \E op \in Operations : MayConnect(op)
  BY <1>8, OpeningKeepsTypes
<1> QED
  BY <1>1, <1>2, <1>3, <1>4, <1>5, <1>6, <1>7, <1>8
     DEF EnsureConnected, MonitorConnection, Transact, TransactOversized, Operations

LEMMA ReturnsKeepTypes ==
  ASSUME TypeOK, LibmodbusReturns
  PROVE  TypeOK'
<1> USE DEF TypeOK, Phases, memberVars, outsideVars, socketVars
<1>1. CASE ConnectSucceeds
  BY <1>1, MarkingTypes DEF ConnectSucceeds, SendRequest, Return, Operations, Replies
<1>2. CASE ReplyCompletes
  BY <1>2, MarkingTypes DEF ReplyCompletes, Return
<1>3. CASE ReplyFallsShort
  BY <1>3 DEF ReplyFallsShort, Return
<1>4. CASE ReplyIsException
  BY <1>4, MarkingTypes DEF ReplyIsException, Return
<1>5. CASE ConnectFails \/ ResponseTimesOut \/ ConnectionIsLost \/ FramingIsLost
  BY <1>5, ResetKeepsTypes
     DEF ConnectFails, ResponseTimesOut, ConnectionIsLost, FramingIsLost
<1> QED
  BY <1>1, <1>2, <1>3, <1>4, <1>5 DEF LibmodbusReturns, ConnectReturns, ExchangeFails

LEMMA OthersKeepTypes ==
  ASSUME TypeOK, Recreate \/ Environment \/ UNCHANGED clientVars
  PROVE  TypeOK'
<1> USE DEF TypeOK, memberVars, callVars, outsideVars, socketVars
<1>1. CASE Recreate
  <2>1. /\ failures' \in 0..MaxFailures /\ reconnectWait' \in 0..(30 * Second)
        /\ publicationWait' \in 0..ErrorGap /\ sinceAttempt' \in 0..Second
    BY <1>1 DEF Recreate
  <2>2. orphaned' \in BOOLEAN
    BY <1>1 DEF Recreate
  <2> QED
    BY <1>1, <2>1, <2>2, ClosingTypes DEF Recreate
<1>2. CASE PeerChanges
  BY <1>2 DEF PeerChanges
<1>3. CASE PeerCloses
  BY <1>3 DEF PeerCloses
<1>4. CASE Tick
  <2>1. /\ reconnectWait' \in 0..(30 * Second) /\ publicationWait' \in 0..ErrorGap
        /\ sinceAttempt' \in 0..Second
    BY <1>4 DEF Tick, Elapse
  <2> QED
    BY <1>4, <2>1 DEF Tick
<1>5. CASE UNCHANGED clientVars
  <2>1. /\ failures' = failures /\ reconnectWait' = reconnectWait
        /\ publicationWait' = publicationWait /\ sinceAttempt' = sinceAttempt
    BY <1>5 DEF clientVars
  <2>2. /\ endpoint' = endpoint /\ connected' = connected /\ context' = context
        /\ protocolHealthy' = protocolHealthy /\ eventHeld' = eventHeld
        /\ operation' = operation /\ phase' = phase /\ returned' = returned
        /\ infoConnected' = infoConnected /\ event' = event /\ orphaned' = orphaned
        /\ peer' = peer /\ peerClosed' = peerClosed /\ owed' = owed
    BY <1>5 DEF clientVars
  <2> QED
    BY <2>1, <2>2
<1> QED
  BY <1>1, <1>2, <1>3, <1>4, <1>5 DEF Environment

LEMMA InitTypes ==
  ASSUME ClientInit
  PROVE  TypeOK
<1>1. /\ failures \in 0..MaxFailures /\ reconnectWait \in 0..(30 * Second)
      /\ publicationWait \in 0..ErrorGap /\ sinceAttempt \in 0..Second
  BY DEF ClientInit
<1> QED
  BY <1>1 DEF ClientInit, TypeOK, Phases

\* The state of the client and of its surroundings keeps its types.
THEOREM TypesCorrect == ClientSpec => []TypeOK
<1>1. ClientInit => TypeOK
  BY InitTypes
<1>2. TypeOK /\ [ClientNext]_clientVars => TypeOK'
  BY OperationsKeepTypes, ReturnsKeepTypes, OthersKeepTypes DEF ClientNext
<1> QED
  BY <1>1, <1>2, PTL DEF ClientSpec

-----------------------------------------------------------------------------
\* What the helpers leave behind in a state of the invariant.
LEMMA ClosingEffects ==
  ASSUME ClientInv, CloseContextAndSetDisconnected
  PROVE  /\ connected' = FALSE /\ context' = FALSE
         /\ protocolHealthy' = FALSE /\ infoConnected' = FALSE
         /\ owed' = {}
BY DEF ClientInv, ChannelShowsConnection, CloseContextAndSetDisconnected, SetProtocolHealthy,
       TypeOK

LEMMA MarkingEffects ==
  ASSUME ClientInv, MarkProtocolResponsive
  PROVE  /\ failures' = 0 /\ reconnectWait' = 0
         /\ protocolHealthy' = TRUE /\ infoConnected' = TRUE
         /\ eventHeld' = FALSE /\ ~(event' = "firing" /\ ~orphaned')
<1>1. protocolHealthy' = TRUE /\ infoConnected' = TRUE
  BY DEF ClientInv, ChannelShowsConnection, MarkProtocolResponsive, SetProtocolHealthy, TypeOK
<1>2. eventHeld' = FALSE /\ ~(event' = "firing" /\ ~orphaned')
  BY DEF ClientInv, AlarmOnlyDuringOutage, MarkProtocolResponsive, ResolveConnectionError,
         TypeOK
<1> QED
  BY <1>1, <1>2 DEF MarkProtocolResponsive

LEMMA PublishingEffects ==
  ASSUME ClientInv, PublishConnectionError
  PROVE  eventHeld' <=> (event' = "firing" /\ ~orphaned')
BY DEF ClientInv, AlarmOnlyDuringOutage, PublishConnectionError, TypeOK

-----------------------------------------------------------------------------
\* Every step keeps the invariant.
LEMMA ResetKeepsInv ==
  ASSUME ClientInv, ResetConnection, TypeOK'
  PROVE  ClientInv'
<1>1. /\ connected' = FALSE /\ context' = FALSE /\ protocolHealthy' = FALSE
      /\ infoConnected' = FALSE /\ owed' = {} /\ phase' = "idle" /\ operation' = "none"
  BY ClosingEffects DEF ResetConnection, Return
<1>2. AlarmOnlyDuringOutage'
  BY <1>1, PublishingEffects DEF ResetConnection, AlarmOnlyDuringOutage
<1>3. /\ failures' \in 1..MaxFailures
      /\ reconnectWait' = BackoffDelay(failures')
      /\ reconnectWait' \in Second..(30 * Second)
  BY ScheduleBounds DEF ResetConnection, ClientInv
<1>4. ContextAndBackoffConsistent'
  BY <1>1, <1>3 DEF ContextAndBackoffConsistent
<1>5. SpacingInv'
  BY <1>3 DEF SpacingInv, TypeOK
<1> QED
  BY <1>1, <1>2, <1>4, <1>5
     DEF ClientInv, ChannelShowsConnection, StreamUnambiguous, CallInv

LEMMA OpeningKeepsInv ==
  ASSUME ClientInv, NEW op \in Operations, MayConnect(op), TypeOK'
  PROVE  ClientInv'
<1> USE DEF ClientInv
<1>1. CASE OpenConnection(op)
  <2>1. /\ connected' = FALSE /\ context' = TRUE /\ protocolHealthy' = FALSE
        /\ infoConnected' = FALSE /\ owed' = {} /\ phase' = "connecting" /\ operation' = op
        /\ reconnectWait' = Second /\ failures' = failures
        /\ eventHeld' = eventHeld /\ event' = event /\ orphaned' = orphaned
    BY <1>1 DEF OpenConnection, SetProtocolHealthy, ChannelShowsConnection, TypeOK
  <2>2. AlarmOnlyDuringOutage'
    BY <2>1 DEF AlarmOnlyDuringOutage
  <2>3. ContextAndBackoffConsistent'
    <3>1. failures \in Nat
      BY DEF TypeOK
    <3>2. failures > 0 => Second <= BackoffDelay(failures)
      BY <3>1, BackoffBounds
    <3> QED
      BY <2>1, <3>2 DEF ContextAndBackoffConsistent
  <2>4. SpacingInv'
    <3>1. sinceAttempt' = 0
      BY <1>1 DEF OpenConnection, LackContext
    <3> QED
      BY <2>1, <3>1 DEF SpacingInv
  <2> QED
    BY <2>1, <2>2, <2>3, <2>4
       DEF ChannelShowsConnection, StreamUnambiguous, CallInv, Operations
<1>2. CASE RejectEndpoint(op)
  <2>1. /\ connected' = FALSE /\ context' = FALSE /\ protocolHealthy' = FALSE
        /\ infoConnected' = FALSE /\ owed' = {} /\ phase' = "idle" /\ operation' = "none"
    BY <1>2, ClosingEffects DEF RejectEndpoint, Return
  <2>2. AlarmOnlyDuringOutage'
    BY <1>2, <2>1, PublishingEffects DEF RejectEndpoint, AlarmOnlyDuringOutage
  <2>3. /\ failures' \in 1..MaxFailures
        /\ reconnectWait' = BackoffDelay(failures')
        /\ reconnectWait' \in Second..(30 * Second)
    BY <1>2, ScheduleBounds DEF RejectEndpoint
  <2>4. ContextAndBackoffConsistent'
    BY <2>1, <2>3 DEF ContextAndBackoffConsistent
  <2>5. SpacingInv'
    BY <2>3 DEF SpacingInv, TypeOK
  <2> QED
    BY <2>1, <2>2, <2>4, <2>5 DEF ChannelShowsConnection, StreamUnambiguous, CallInv
<1>3. CASE LackContext(op)
  <2>1. /\ connected' = FALSE /\ context' = FALSE /\ protocolHealthy' = FALSE
        /\ infoConnected' = FALSE /\ owed' = {} /\ phase' = "idle" /\ operation' = "none"
        /\ reconnectWait' = Second /\ failures' = failures
    BY <1>3, ClosingEffects DEF LackContext, Return
  <2>2. AlarmOnlyDuringOutage'
    BY <1>3, <2>1, PublishingEffects DEF LackContext, AlarmOnlyDuringOutage
  <2>3. ContextAndBackoffConsistent'
    <3>1. failures \in Nat
      BY DEF TypeOK
    <3>2. failures > 0 => Second <= BackoffDelay(failures)
      BY <3>1, BackoffBounds
    <3> QED
      BY <2>1, <3>2 DEF ContextAndBackoffConsistent
  <2>4. SpacingInv'
    <3>1. sinceAttempt' = 0
      BY <1>3 DEF OpenConnection, LackContext
    <3> QED
      BY <2>1, <3>1 DEF SpacingInv
  <2> QED
    BY <2>1, <2>2, <2>3, <2>4 DEF ChannelShowsConnection, StreamUnambiguous, CallInv
<1> QED
  BY <1>1, <1>2, <1>3 DEF MayConnect

LEMMA OperationsKeepInv ==
  ASSUME ClientInv, TypeOK',
         EnsureConnected \/ MonitorConnection \/ Transact \/ TransactOversized
  PROVE  ClientInv'
<1> USE DEF ClientInv
<1>1. CASE EnsureWhileConnected \/ \E op \in Operations : CallWhileCoolingDown(op)
  <2>1. /\ UNCHANGED <<memberVars, outsideVars, socketVars, sinceAttempt>>
        /\ phase = "idle" /\ phase' = "idle" /\ operation' = "none"
    BY <1>1 DEF EnsureWhileConnected, CallWhileCoolingDown, Return
  <2> QED
    BY <2>1 DEF ChannelShowsConnection, AlarmOnlyDuringOutage, StreamUnambiguous,
                ContextAndBackoffConsistent, CallInv, SpacingInv, memberVars, outsideVars,
                socketVars
<1>2. CASE SendWhileConnected
  <2>1. /\ UNCHANGED <<memberVars, outsideVars, sinceAttempt>>
        /\ phase = "idle" /\ phase' = "awaiting" /\ operation' = "transaction"
        /\ connected /\ context /\ owed' = {"current"}
    BY <1>2 DEF SendWhileConnected, SendRequest, Usable, StreamUnambiguous
  <2> QED
    BY <2>1 DEF ChannelShowsConnection, AlarmOnlyDuringOutage, StreamUnambiguous,
                ContextAndBackoffConsistent, CallInv, SpacingInv, memberVars, outsideVars
<1>3. CASE RefuseOversized \/ MonitorWhileConnected
  <2>1. /\ phase = "idle" /\ phase' = "idle" /\ operation' = "none"
        /\ connected /\ connected' = connected /\ context' = context /\ owed' = owed
        /\ MarkProtocolResponsive
    BY <1>3 DEF RefuseOversized, MonitorWhileConnected, Return, Usable, socketVars
  <2> QED
    BY <2>1, MarkingEffects
       DEF ChannelShowsConnection, AlarmOnlyDuringOutage, StreamUnambiguous,
           ContextAndBackoffConsistent, CallInv, SpacingInv, TypeOK
<1>4. CASE MonitorFindsPeerClosed
  BY <1>4, ResetKeepsInv DEF MonitorFindsPeerClosed
<1>5. CASE MonitorWhileCoolingDown
  <2>1. /\ phase = "idle" /\ phase' = "idle" /\ operation' = "none" /\ owed' = owed
        /\ connected' = connected /\ context' = context
        /\ protocolHealthy' = protocolHealthy /\ infoConnected' = infoConnected
        /\ failures' = failures /\ reconnectWait' = reconnectWait
        /\ sinceAttempt' = sinceAttempt /\ ~connected
    BY <1>5 DEF MonitorWhileCoolingDown, Return, CoolingDown, Usable, socketVars,
                ContextAndBackoffConsistent
  <2>2. AlarmOnlyDuringOutage'
    BY <1>5, <2>1, PublishingEffects DEF MonitorWhileCoolingDown, AlarmOnlyDuringOutage
  <2> QED
    BY <2>1, <2>2 DEF ChannelShowsConnection, StreamUnambiguous, ContextAndBackoffConsistent,
                      CallInv, SpacingInv
<1>6. CASE \E op \in Operations : MayConnect(op)
  BY <1>6, OpeningKeepsInv
<1> QED
  BY <1>1, <1>2, <1>3, <1>4, <1>5, <1>6
     DEF EnsureConnected, MonitorConnection, Transact, TransactOversized, Operations

LEMMA ReturnsKeepInv ==
  ASSUME ClientInv, TypeOK', LibmodbusReturns
  PROVE  ClientInv'
<1> USE DEF ClientInv
<1>1. CASE ConnectSucceeds
  <2>1. /\ connected' = TRUE /\ context' = TRUE /\ MarkProtocolResponsive
        /\ \/ operation' = "transaction" /\ phase' = "awaiting" /\ owed' = {"current"}
           \/ operation' = "none" /\ phase' = "idle" /\ owed' = {}
    BY <1>1 DEF ConnectSucceeds, SendRequest, Return, socketVars, StreamUnambiguous,
                ContextAndBackoffConsistent, TypeOK
  <2> QED
    BY <2>1, MarkingEffects
       DEF ChannelShowsConnection, AlarmOnlyDuringOutage, StreamUnambiguous,
           ContextAndBackoffConsistent, CallInv, SpacingInv
<1>2. CASE ReplyCompletes \/ ReplyIsException
  <2>1. /\ phase = "awaiting" /\ phase' = "idle" /\ operation' = "none" /\ owed' = {}
        /\ connected' = connected /\ context' = context /\ connected
        /\ MarkProtocolResponsive
    BY <1>2 DEF ReplyCompletes, ReplyIsException, ReplyArrives, Return, StreamUnambiguous,
                ContextAndBackoffConsistent
  <2> QED
    BY <2>1, MarkingEffects
       DEF ChannelShowsConnection, AlarmOnlyDuringOutage, StreamUnambiguous,
           ContextAndBackoffConsistent, CallInv, SpacingInv, TypeOK
<1>3. CASE ReplyFallsShort
  <2>1. /\ phase = "awaiting" /\ phase' = "idle" /\ operation' = "none" /\ owed' = {}
        /\ UNCHANGED <<memberVars, outsideVars, sinceAttempt>>
    BY <1>3 DEF ReplyFallsShort, ReplyArrives, Return, StreamUnambiguous
  <2> QED
    BY <2>1 DEF ChannelShowsConnection, AlarmOnlyDuringOutage, StreamUnambiguous,
                ContextAndBackoffConsistent, CallInv, SpacingInv, memberVars, outsideVars
<1>4. CASE ConnectFails \/ ResponseTimesOut \/ ConnectionIsLost \/ FramingIsLost
  BY <1>4, ResetKeepsInv
     DEF ConnectFails, ResponseTimesOut, ConnectionIsLost, FramingIsLost
<1> QED
  BY <1>1, <1>2, <1>3, <1>4 DEF LibmodbusReturns, ConnectReturns, ExchangeFails

LEMMA OthersKeepInv ==
  ASSUME ClientInv, TypeOK', Recreate \/ Environment \/ UNCHANGED clientVars
  PROVE  ClientInv'
<1> USE DEF ClientInv
<1>1. CASE Recreate
  <2>1. /\ connected' = FALSE /\ context' = FALSE /\ protocolHealthy' = FALSE
        /\ infoConnected' = FALSE /\ owed' = {}
    BY <1>1, ClosingEffects DEF Recreate
  <2>2. /\ phase' = "idle" /\ operation' = "none" /\ failures' = 0 /\ reconnectWait' = 0
        /\ sinceAttempt' = Second
    BY <1>1 DEF Recreate, CallInv
  <2>3. AlarmOnlyDuringOutage'
    BY <1>1, <2>1 DEF Recreate, AlarmOnlyDuringOutage
  <2>4. ContextAndBackoffConsistent' /\ SpacingInv'
    BY <2>1, <2>2 DEF ContextAndBackoffConsistent, SpacingInv
  <2> QED
    BY <2>1, <2>2, <2>3, <2>4 DEF ChannelShowsConnection, StreamUnambiguous, CallInv
<1>2. CASE PeerChanges \/ PeerCloses \/ UNCHANGED clientVars
  <2>1. UNCHANGED <<memberVars, callVars, outsideVars, owed, sinceAttempt>>
    BY <1>2 DEF PeerChanges, PeerCloses, clientVars, socketVars
  <2> QED
    BY <2>1 DEF ChannelShowsConnection, AlarmOnlyDuringOutage, StreamUnambiguous,
                ContextAndBackoffConsistent, CallInv, SpacingInv, memberVars, callVars,
                outsideVars
<1>3. CASE Tick
  <2>1. /\ UNCHANGED <<connected, context, protocolHealthy, failures, eventHeld, callVars,
                       outsideVars, owed>>
        /\ reconnectWait' = Elapse(reconnectWait)
        /\ sinceAttempt' = IF sinceAttempt < Second THEN sinceAttempt + 1 ELSE Second
    BY <1>3 DEF Tick, socketVars
  <2>2. reconnectWait \in Nat /\ sinceAttempt \in 0..Second /\ failures \in Nat
    BY DEF TypeOK
  <2>3. reconnectWait = 0 => reconnectWait' = 0
    BY <2>1, <2>2 DEF Elapse
  <2>4. reconnectWait' <= reconnectWait
    BY <2>1, <2>2 DEF Elapse
  <2>5. ContextAndBackoffConsistent'
    <3>1. failures > 0 => BackoffDelay(failures) \in Nat
      BY <2>2, BackoffBounds
    <3>2. reconnectWait' \in Nat
      BY <2>1, <2>2 DEF Elapse
    <3> QED
      BY <2>1, <2>2, <2>3, <2>4, <3>1, <3>2 DEF ContextAndBackoffConsistent, callVars
  <2>6. SpacingInv'
    BY <2>1, <2>2 DEF SpacingInv, Elapse
  <2> QED
    BY <2>1, <2>5, <2>6 DEF ChannelShowsConnection, AlarmOnlyDuringOutage, StreamUnambiguous,
                            CallInv, callVars, outsideVars
<1> QED
  BY <1>1, <1>2, <1>3 DEF Environment

\* The strengthened invariant holds of every reachable state.
THEOREM InvariantHolds == ClientSpec => []ClientInv
<1>1. ClientInit => ClientInv
  <2> SUFFICES ASSUME ClientInit, TypeOK PROVE ClientInv
    BY InitTypes
  <2>1. ContextAndBackoffConsistent /\ SpacingInv
    BY DEF ClientInit, ContextAndBackoffConsistent, SpacingInv
  <2> QED
    BY <2>1 DEF ClientInv, ClientInit, ChannelShowsConnection, AlarmOnlyDuringOutage,
                StreamUnambiguous, CallInv
<1>2. ClientInv /\ [ClientNext]_clientVars => ClientInv'
  <2> SUFFICES ASSUME ClientInv, [ClientNext]_clientVars PROVE ClientInv'
    OBVIOUS
  <2>1. TypeOK'
    BY OperationsKeepTypes, ReturnsKeepTypes, OthersKeepTypes DEF ClientNext, ClientInv
  <2> QED
    BY <2>1, OperationsKeepInv, ReturnsKeepInv, OthersKeepInv DEF ClientNext
<1> QED
  BY <1>1, <1>2, PTL DEF ClientSpec

\* RAPID shows the connection as it is.
THEOREM ChannelCorrect == ClientSpec => []ChannelShowsConnection
<1>1. ClientInv => ChannelShowsConnection
  BY DEF ClientInv
<1> QED
  BY <1>1, InvariantHolds, PTL

\* A connected client leaves no event of its own firing.
THEOREM AlarmCorrect == ClientSpec => []AlarmOnlyDuringOutage
<1>1. ClientInv => AlarmOnlyDuringOutage
  BY DEF ClientInv
<1> QED
  BY <1>1, InvariantHolds, PTL

\* No request is answered by the reply to an earlier one.
THEOREM StreamCorrect == ClientSpec => []StreamUnambiguous
<1>1. ClientInv => StreamUnambiguous
  BY DEF ClientInv
<1> QED
  BY <1>1, InvariantHolds, PTL

\* Context, connection flag and backoff agree.
THEOREM ContextCorrect == ClientSpec => []ContextAndBackoffConsistent
<1>1. ClientInv => ContextAndBackoffConsistent
  BY DEF ClientInv
<1> QED
  BY <1>1, InvariantHolds, PTL

-----------------------------------------------------------------------------
\* Calls of connect() keep a second between them: an attempt needs an expired
\* deadline, and then SpacingInv says that the second has passed.
THEOREM AttemptsAreSpaced == ClientSpec => AttemptsSpaced
<1>1. ClientInv /\ [ClientNext]_clientVars
        => [sinceAttempt' < sinceAttempt => sinceAttempt = Second]_clientVars
  <2> SUFFICES ASSUME ClientInv, ClientNext, sinceAttempt' < sinceAttempt
               PROVE  sinceAttempt = Second
    OBVIOUS
  <2>1. sinceAttempt \in 0..Second
    BY DEF ClientInv, TypeOK
  <2>2. ~(sinceAttempt' = sinceAttempt)
    BY <2>1
  <2>3. MayAttempt \/ Recreate \/ Tick
    BY <2>2 DEF ClientNext, EnsureConnected, MonitorConnection, Transact, TransactOversized,
         LibmodbusReturns, ConnectReturns, ExchangeFails, Environment, MayConnect,
         OpenConnection, RejectEndpoint,
         LackContext, EnsureWhileConnected, SendWhileConnected, RefuseOversized,
         MonitorWhileConnected, MonitorFindsPeerClosed, MonitorWhileCoolingDown,
         CallWhileCoolingDown, ConnectSucceeds, ConnectFails, ReplyCompletes,
         ReplyFallsShort, ReplyIsException, ResponseTimesOut, ConnectionIsLost,
         FramingIsLost, ResetConnection, PeerChanges, PeerCloses
  <2>4. CASE MayAttempt
    <3>1. ~connected /\ reconnectWait = 0
      BY <2>4 DEF MayAttempt, Usable, ClientInv, ContextAndBackoffConsistent
    <3> QED
      BY <2>1, <3>1 DEF ClientInv, SpacingInv
  <2>5. CASE Recreate
    BY <2>1, <2>5 DEF Recreate
  <2>6. CASE Tick
    BY <2>1, <2>6 DEF Tick
  <2> QED
    BY <2>3, <2>4, <2>5, <2>6
<1> QED
  BY <1>1, InvariantHolds, PTL DEF ClientSpec, AttemptsSpaced

-----------------------------------------------------------------------------
\* A step that neither touches the link nor the event is a stutter of the
\* abstract specification; the others are its actions.
LEMMA StepsImplementHealth ==
  ASSUME ClientInv, ClientInv', ClientNext
  PROVE  Health!Next \/ UNCHANGED Health!vars
<1> USE DEF Health!Next, Health!vars, AlarmOwner
<1>1. /\ infoConnected = connected /\ infoConnected' = connected'
      /\ connected \in BOOLEAN /\ connected' \in BOOLEAN
      /\ orphaned \in BOOLEAN /\ orphaned' \in BOOLEAN
      /\ connected => ~eventHeld
      /\ connected' => ~eventHeld'
      /\ eventHeld <=> (event = "firing" /\ ~orphaned)
      /\ eventHeld' <=> (event' = "firing" /\ ~orphaned')
  BY DEF ClientInv, ChannelShowsConnection, AlarmOnlyDuringOutage, TypeOK
<1>2. CASE ResetConnection
  <2>1. /\ connected' = FALSE
        /\ \/ UNCHANGED <<event, orphaned>>
           \/ event' = "firing" /\ orphaned' = FALSE
    BY <1>2 DEF ResetConnection, CloseContextAndSetDisconnected, PublishConnectionError
  <2>2. CASE connected
    BY <1>1, <2>1, <2>2 DEF Health!Lose
  <2>3. CASE ~connected
    BY <1>1, <2>1, <2>3 DEF Health!Raise
  <2> QED
    BY <2>2, <2>3
<1>3. CASE \E op \in Operations : MayConnect(op)
  <2>1. /\ connected = FALSE /\ connected' = FALSE
        /\ \/ UNCHANGED <<event, orphaned>>
           \/ event' = "firing" /\ orphaned' = FALSE
    BY <1>1, <1>3 DEF MayConnect, OpenConnection, RejectEndpoint, LackContext, MayAttempt, Usable,
         CloseContextAndSetDisconnected, PublishConnectionError, ClientInv,
         ContextAndBackoffConsistent
  <2> QED
    BY <1>1, <2>1 DEF Health!Raise
<1>4. CASE MonitorWhileCoolingDown
  <2>1. /\ connected = FALSE /\ connected' = FALSE
        /\ \/ UNCHANGED <<event, orphaned>>
           \/ event' = "firing" /\ orphaned' = FALSE
    BY <1>1, <1>4 DEF MonitorWhileCoolingDown, CoolingDown, Usable, PublishConnectionError,
         ClientInv, ContextAndBackoffConsistent
  <2> QED
    BY <1>1, <2>1 DEF Health!Raise
<1>5. CASE MarkProtocolResponsive /\ connected'
  <2>1. /\ orphaned' = orphaned /\ connected' = TRUE
        /\ event' = IF eventHeld THEN "resolved" ELSE event
    BY <1>1, <1>5 DEF MarkProtocolResponsive, ResolveConnectionError
  <2>2. CASE connected
    BY <1>1, <2>1, <2>2
  <2>3. CASE ~connected
    BY <1>1, <2>1, <2>3 DEF Health!Establish
  <2> QED
    BY <2>2, <2>3
<1>6. CASE Recreate
  <2>1. /\ connected' = FALSE /\ event' = event /\ orphaned' = (event = "firing")
    BY <1>6 DEF Recreate, CloseContextAndSetDisconnected
  <2> QED
    BY <1>1, <2>1 DEF Health!Replace
<1>7. CASE UNCHANGED <<infoConnected, event, orphaned>>
  BY <1>7
<1>8. \/ ResetConnection
      \/ \E op \in Operations : MayConnect(op)
      \/ MonitorWhileCoolingDown
      \/ MarkProtocolResponsive /\ connected'
      \/ Recreate
      \/ UNCHANGED <<infoConnected, event, orphaned>>
  <2>1. CASE EnsureConnected \/ MonitorConnection \/ Transact \/ TransactOversized
    <3>1. CASE EnsureWhileConnected \/ SendWhileConnected
      BY <3>1 DEF EnsureWhileConnected, SendWhileConnected, outsideVars
    <3>2. CASE RefuseOversized \/ MonitorWhileConnected
      <4>1. MarkProtocolResponsive /\ connected /\ connected' = connected
        BY <3>2 DEF RefuseOversized, MonitorWhileConnected, Usable
      <4> QED
        BY <4>1
    <3>3. CASE \E op \in Operations : CallWhileCoolingDown(op)
      BY <3>3 DEF CallWhileCoolingDown, outsideVars
    <3>4. CASE MonitorFindsPeerClosed
      BY <3>4 DEF MonitorFindsPeerClosed
    <3>5. CASE \E op \in Operations : MayConnect(op)
      BY <3>5
    <3>6. CASE MonitorWhileCoolingDown
      BY <3>6
    <3> QED
      BY <2>1, <3>1, <3>2, <3>3, <3>4, <3>5, <3>6
         DEF EnsureConnected, MonitorConnection, Transact, TransactOversized, Operations
  <2>2. CASE LibmodbusReturns
    BY <2>2 DEF LibmodbusReturns, ConnectReturns, ExchangeFails, ConnectSucceeds, ConnectFails, ReplyCompletes,
         ReplyFallsShort, ReplyIsException, ReplyArrives, ResponseTimesOut,
         ConnectionIsLost, FramingIsLost, outsideVars, ClientInv,
         ContextAndBackoffConsistent
  <2>3. CASE Recreate \/ Environment
    BY <2>3 DEF Environment, PeerChanges, PeerCloses, Tick, outsideVars
  <2> QED
    BY <2>1, <2>2, <2>3 DEF ClientNext
<1> QED
  BY <1>2, <1>3, <1>4, <1>5, <1>6, <1>7, <1>8

\* The client implements the safety part of ConnectionHealth.
THEOREM HealthImplemented == ClientSpec => ImplementsHealthSafety
<1>1. ClientInit => Health!Init
  BY DEF ClientInit, Health!Init, AlarmOwner
<1>2. ClientInv /\ ClientInv' /\ [ClientNext]_clientVars => [Health!Next]_(Health!vars)
  <2>1. CASE UNCHANGED clientVars
    BY <2>1 DEF clientVars, outsideVars, Health!vars, AlarmOwner
  <2> QED
    BY <2>1, StepsImplementHealth
<1> QED
  BY <1>1, <1>2, InvariantHolds, PTL DEF ClientSpec, ImplementsHealthSafety, Health!Safety

-----------------------------------------------------------------------------
(***************************************************************************)
(* The module.                                                             *)
(***************************************************************************)
USE MonitorAssumption, BlocksAssumption, ReadbackAssumption

\* Every step of a module is a step of its client or leaves the client alone.
LEMMA ModuleStepIsClientStep ==
  ASSUME [ModuleNext]_vars
  PROVE  [ClientNext]_clientVars
<1>1. CASE \E th \in Threads : Enter(th)
  BY <1>1 DEF Enter
<1>2. ASSUME NEW t \in Tasks, TaskStep(t)
      PROVE  [ClientNext]_clientVars
  BY <1>2 DEF TaskStep, CallEnsure, EnsureReturns, CallBlock, BlockReturns, BlocksDone,
              PublishDiagnostics, ClientNext
<1>3. CASE CallReadback \/ ReadbackReturns \/ ReadbackDone \/ CallMonitor \/ MonitorReturns
  BY <1>3 DEF CallReadback, ReadbackReturns, ReadbackDone, CallMonitor, MonitorReturns,
              ClientNext
<1>4. CASE CallReturns
  BY <1>4 DEF CallReturns, LibmodbusReturns, ClientNext
<1>5. CASE PeerActs
  BY <1>5 DEF PeerActs, Environment, ClientNext
<1>6. CASE TimePasses
  BY <1>6 DEF TimePasses, Environment, ClientNext
<1>7. CASE UNCHANGED vars
  BY <1>7 DEF vars
<1> QED
  BY <1>1, <1>2, <1>3, <1>4, <1>5, <1>6, <1>7 DEF ModuleNext, ThreadStep

\* A module implements the specification of its client.
THEOREM ModuleImplementsClient == ModuleSpec => ClientSpec
<1>1. ModuleInit => ClientInit
  BY DEF ModuleInit
<1>2. [ModuleNext]_vars => [ClientNext]_clientVars
  BY ModuleStepIsClientStep
<1> QED
  BY <1>1, <1>2, PTL DEF ModuleSpec, ClientSpec

\* Hence no transaction of a module is answered by the reply to an earlier one,
\* whichever threads made the two.
THEOREM ModuleStreamCorrect == ModuleSpec => []StreamUnambiguous
BY ModuleImplementsClient, StreamCorrect, PTL

-----------------------------------------------------------------------------
\* Who is in a turn holds the mutex, and is at a place of its own program.
LockInv ==
  /\ lock \in Threads \cup {"nobody"}
  /\ pc \in [Threads -> Places]
  /\ \A th \in Threads : pc[th] # "outside" => lock = th
  /\ pc["monitor"] \in {"outside", "entered", "monitoring"}
  /\ \A t \in Tasks : pc[t] # "monitoring"
  /\ pc["reader"] \notin {"readback", "readingBack"}

\* An operation is in progress only where its caller waits for it.
CallerInv ==
  /\ operation = "ensureConnected" => \E t \in Tasks : pc[t] = "ensuring"
  /\ operation = "monitorConnection" => pc["monitor"] = "monitoring"
  /\ operation \in {"transaction", "oversized"} =>
       pc["reader"] = "blocking" \/ pc["writer"] \in {"blocking", "readingBack"}

LEMMA LockKept ==
  ASSUME LockInv, [ModuleNext]_vars
  PROVE  LockInv'
<1> USE DEF LockInv, Goto, Threads, Tasks, Places
<1>1. ASSUME NEW th \in Threads, Enter(th)
      PROVE  LockInv'
  BY <1>1 DEF Enter
<1>2. ASSUME NEW t \in Tasks, CallEnsure(t) \/ EnsureReturns(t) \/ CallBlock(t) \/ BlockReturns(t)
      PROVE  LockInv'
  BY <1>2 DEF CallEnsure, EnsureReturns, CallBlock, BlockReturns
<1>3. ASSUME NEW t \in Tasks, BlocksDone(t)
      PROVE  LockInv'
  BY <1>3 DEF BlocksDone
<1>4. ASSUME NEW t \in Tasks, PublishDiagnostics(t)
      PROVE  LockInv'
  BY <1>4 DEF PublishDiagnostics, Leave
<1>5. CASE CallReadback \/ ReadbackReturns \/ ReadbackDone
  BY <1>5 DEF CallReadback, ReadbackReturns, ReadbackDone
<1>6. CASE CallMonitor \/ MonitorReturns
  BY <1>6 DEF CallMonitor, MonitorReturns, Leave
<1>7. CASE UNCHANGED <<lock, pc>>
  BY <1>7
<1> QED
  BY <1>1, <1>2, <1>3, <1>4, <1>5, <1>6, <1>7
     DEF ModuleNext, ThreadStep, TaskStep, CallReturns, PeerActs, TimePasses, moduleVars, vars

-----------------------------------------------------------------------------
\* The operation that a step of the client leaves in progress.
LEMMA OperationStarted ==
  ASSUME NEW op \in Operations, MayConnect(op) \/ CallWhileCoolingDown(op)
  PROVE  operation' \in {op, "none"}
BY DEF MayConnect, OpenConnection, RejectEndpoint, LackContext, CallWhileCoolingDown, Return

LEMMA EnsureOperation ==
  ASSUME EnsureConnected
  PROVE  operation' \in {"ensureConnected", "none"}
BY OperationStarted DEF EnsureConnected, EnsureWhileConnected, Return, Operations

LEMMA MonitorOperation ==
  ASSUME MonitorConnection
  PROVE  operation' \in {"monitorConnection", "none"}
BY OperationStarted DEF MonitorConnection, MonitorWhileConnected, MonitorFindsPeerClosed,
   MonitorWhileCoolingDown, ResetConnection, Return, Operations

LEMMA TransactOperation ==
  ASSUME Transact \/ TransactOversized
  PROVE  operation' \in {"transaction", "oversized", "none"}
BY OperationStarted DEF Transact, TransactOversized, SendWhileConnected, SendRequest,
   RefuseOversized, Return, Operations

LEMMA ReturningOperation ==
  ASSUME LibmodbusReturns
  PROVE  operation' \in {operation, "none"}
BY DEF LibmodbusReturns, ConnectReturns, ExchangeFails, ConnectSucceeds, ConnectFails,
   SendRequest, ReplyCompletes, ReplyFallsShort, ReplyIsException, ResponseTimesOut,
   ConnectionIsLost, FramingIsLost, ResetConnection, Return

LEMMA CallersKept ==
  ASSUME ClientInv, LockInv, CallerInv, [ModuleNext]_vars, LockInv'
  PROVE  CallerInv'
<1> USE DEF Goto, Threads, Tasks, Places
<1>0. phase = "idle" => operation = "none"
  BY DEF ClientInv, CallInv
<1>1. ASSUME NEW th \in Threads, Enter(th)
      PROVE  CallerInv'
  <2>1. operation' = operation /\ pc' = [pc EXCEPT ![th] = "entered"] /\ pc[th] = "outside"
    BY <1>1 DEF Enter, clientVars, callVars
  <2> QED
    BY <2>1 DEF CallerInv, LockInv
<1>2. ASSUME NEW t \in Tasks, CallEnsure(t)
      PROVE  CallerInv'
  BY <1>2, EnsureOperation DEF CallEnsure, CallerInv, LockInv
<1>3. ASSUME NEW t \in Tasks, CallBlock(t)
      PROVE  CallerInv'
  <2>1. operation' \in {"transaction", "oversized", "none"} /\ pc'[t] = "blocking"
    BY <1>3, TransactOperation DEF CallBlock, LockInv
  <2> QED
    BY <2>1 DEF CallerInv
<1>4. CASE CallReadback
  <2>1. operation' \in {"transaction", "oversized", "none"} /\ pc'["writer"] = "readingBack"
    BY <1>4, TransactOperation DEF CallReadback, LockInv
  <2> QED
    BY <2>1 DEF CallerInv
<1>5. CASE CallMonitor
  BY <1>5, MonitorOperation DEF CallMonitor, CallerInv, LockInv
<1>6. ASSUME NEW t \in Tasks, EnsureReturns(t) \/ BlockReturns(t)
      PROVE  CallerInv'
  <2>1. operation' = "none"
    BY <1>0, <1>6 DEF EnsureReturns, BlockReturns, clientVars, callVars
  <2> QED
    BY <2>1 DEF CallerInv
<1>7. ASSUME NEW t \in Tasks, BlocksDone(t) \/ PublishDiagnostics(t)
      PROVE  CallerInv'
  <2>1. /\ operation' = operation
        /\ pc[t] \in {"block", "publish"}
        /\ \A other \in Threads : other # t => pc[other] = "outside"
    BY <1>7 DEF BlocksDone, PublishDiagnostics, clientVars, callVars, LockInv
  <2>2. operation \in Operations \cup {"none"}
    BY DEF ClientInv, TypeOK
  <2>3. operation = "none"
    BY <2>1, <2>2 DEF CallerInv, Operations
  <2> QED
    BY <2>1, <2>3 DEF CallerInv
<1>8. CASE ReadbackReturns \/ MonitorReturns
  <2>1. operation' = "none"
    BY <1>0, <1>8 DEF ReadbackReturns, MonitorReturns, clientVars, callVars
  <2> QED
    BY <2>1 DEF CallerInv
<1>9. CASE ReadbackDone
  <2>1. /\ operation' = operation
        /\ pc["writer"] = "readback" /\ pc["reader"] = "outside" /\ pc["monitor"] = "outside"
    BY <1>9 DEF ReadbackDone, clientVars, callVars, LockInv
  <2>2. operation \in Operations \cup {"none"}
    BY DEF ClientInv, TypeOK
  <2>3. operation = "none"
    BY <2>1, <2>2 DEF CallerInv, Operations
  <2> QED
    BY <2>1, <2>3 DEF CallerInv
<1>10. CASE CallReturns
  <2>1. operation' \in {operation, "none"} /\ pc' = pc
    BY <1>10, ReturningOperation DEF CallReturns, LibmodbusReturns, moduleVars
  <2> QED
    BY <2>1 DEF CallerInv
<1>11. CASE PeerActs \/ TimePasses \/ UNCHANGED vars
  <2>1. operation' = operation /\ pc' = pc
    BY <1>11 DEF PeerActs, PeerChanges, PeerCloses, TimePasses, Tick, vars, clientVars,
                 callVars, moduleVars
  <2> QED
    BY <2>1 DEF CallerInv
<1> QED
  BY <1>1, <1>2, <1>3, <1>4, <1>5, <1>6, <1>7, <1>8, <1>9, <1>10, <1>11
     DEF ModuleNext, ThreadStep, TaskStep

\* One thread at a time, and the client works for the thread in the turn.
THEOREM TransactionsAreSerialized == ModuleSpec => []TransactionsSerialized
<1>1. ModuleInit => LockInv /\ CallerInv
  BY DEF ModuleInit, ClientInit, LockInv, CallerInv, Threads, Tasks, Places
<1>2. LockInv /\ [ModuleNext]_vars => LockInv'
  BY LockKept
<1>3. ClientInv /\ LockInv /\ CallerInv /\ LockInv' /\ [ModuleNext]_vars => CallerInv'
  BY CallersKept
<1>4. LockInv /\ CallerInv => TransactionsSerialized
  BY DEF LockInv, CallerInv, TransactionsSerialized
<1>5. ModuleSpec => []ClientInv
  BY ModuleImplementsClient, InvariantHolds, PTL
<1> QED
  BY <1>1, <1>2, <1>3, <1>4, <1>5, PTL DEF ModuleSpec

-----------------------------------------------------------------------------
(***************************************************************************)
(* The stale flag.  Within a turn the exchanges made so far are known from *)
(* the place and the block; `succeeded' says whether all of those were     *)
(* answered, and no other one was.                                         *)
(***************************************************************************)
Transfers(n) == {"transfer"} \X (1..n)
Readbacks(n) == {"readback"} \X (1..n)

AtBlocks(t) == pc[t] \in {"block", "blocking"}
AtReadback(t) == pc[t] \in {"readback", "readingBack"}
Waiting(t) == pc[t] \in {"blocking", "readingBack"}

\* The exchanges before the one at hand, and those of the whole cycle.
Made(t) == IF AtBlocks(t) THEN Transfers(block - 1) ELSE Transfers(WriteBlocks) \cup Readbacks(block - 1)
ToMake(t) ==
  IF AtBlocks(t) THEN Transfers(BlocksOf(t)) ELSE Transfers(WriteBlocks) \cup Readbacks(WriteBlocks)
AtHand(t) == IF AtBlocks(t) THEN <<"transfer", block>> ELSE <<"readback", block>>

CycleOf(t) ==
  /\ pc[t] \in {"entered", "ensuring"} => block = 1 /\ answered = {}
  /\ AtBlocks(t) \/ AtReadback(t) =>
       /\ block \in 1..(BlocksOf(t) + 1)
       /\ asked = ToMake(t)
       /\ succeeded <=> Made(t) \subseteq answered
       /\ answered \subseteq Made(t) \cup (IF Waiting(t) /\ phase = "idle" THEN {AtHand(t)} ELSE {})
  /\ Waiting(t) => block <= BlocksOf(t) /\ (phase = "idle" => (returned <=> AtHand(t) \in answered))
  /\ pc[t] = "publish" => (succeeded <=> asked # {} /\ answered = asked)

CycleInv == succeeded \in BOOLEAN /\ \A t \in Tasks : CycleOf(t)

\* Only a transaction waits for a reply.
AwaitInv == phase = "awaiting" => operation = "transaction"

-----------------------------------------------------------------------------
LEMMA NoneMade == Transfers(1 - 1) = {} /\ Readbacks(1 - 1) = {}
<1>1. 1..(1 - 1) = {}
  OBVIOUS
<1> QED
  BY <1>1 DEF Transfers, Readbacks

LEMMA MadeGrows ==
  ASSUME NEW n \in Nat \ {0}, NEW m \in Nat
  PROVE  /\ Transfers(n) = Transfers(n - 1) \cup {<<"transfer", n>>}
         /\ Readbacks(n) = Readbacks(n - 1) \cup {<<"readback", n>>}
         /\ <<"transfer", n>> \notin Transfers(n - 1)
         /\ <<"readback", n>> \notin Transfers(m) \cup Readbacks(n - 1)
<1>1. 1..n = (1..(n - 1)) \cup {n} /\ n \notin 1..(n - 1)
  OBVIOUS
<1> QED
  BY <1>1, "transfer" # "readback" DEF Transfers, Readbacks

\* One more exchange is made: whether all were answered.
LEMMA OneMore ==
  ASSUME NEW made, NEW x, NEW replies, NEW s \in BOOLEAN, NEW r \in BOOLEAN, x \notin made,
         s <=> made \subseteq replies, r <=> x \in replies, replies \subseteq made \cup {x}
  PROVE  /\ (s /\ r) \in BOOLEAN
         /\ (s /\ r) <=> made \cup {x} \subseteq replies
  OBVIOUS

LEMMA TransactOutcome ==
  ASSUME Transact \/ TransactOversized
  PROVE  phase' = "idle" => returned' = FALSE
BY DEF Transact, TransactOversized, SendWhileConnected, CallWhileCoolingDown, MayConnect,
   OpenConnection, RejectEndpoint, LackContext, RefuseOversized, SendRequest, Return

LEMMA ExchangeOutcome ==
  ASSUME ConnectReturns \/ ExchangeFails, operation \in {"transaction", "oversized"}
  PROVE  phase # "idle" /\ (phase' = "idle" => returned' = FALSE)
BY DEF ConnectReturns, ConnectSucceeds, ConnectFails, ExchangeFails, ReplyFallsShort,
   ReplyIsException, ResponseTimesOut, ConnectionIsLost, FramingIsLost, ReplyArrives,
   ResetConnection, SendRequest, Return

LEMMA CallsInProgress ==
  ASSUME LibmodbusReturns
  PROVE  phase # "idle"
BY DEF LibmodbusReturns, ConnectReturns, ConnectSucceeds, ConnectFails, ReplyCompletes,
   ExchangeFails, ReplyFallsShort, ReplyIsException, ResponseTimesOut, ConnectionIsLost,
   FramingIsLost, ReplyArrives

LEMMA AwaitKept ==
  ASSUME AwaitInv, [ClientNext]_clientVars
  PROVE  AwaitInv'
<1> USE DEF AwaitInv
<1>1. ASSUME NEW op \in Operations, MayConnect(op) \/ CallWhileCoolingDown(op)
      PROVE  phase' # "awaiting"
  BY <1>1 DEF MayConnect, OpenConnection, RejectEndpoint, LackContext, CallWhileCoolingDown, Return
<1>2. CASE EnsureConnected \/ MonitorConnection
  BY <1>1, <1>2 DEF EnsureConnected, EnsureWhileConnected, MonitorConnection, MonitorWhileConnected,
     MonitorFindsPeerClosed, MonitorWhileCoolingDown, ResetConnection, Return, Operations
<1>3. CASE Transact \/ TransactOversized
  BY <1>1, <1>3 DEF Transact, TransactOversized, SendWhileConnected, SendRequest, RefuseOversized,
     Return, Operations
<1>4. CASE LibmodbusReturns
  BY <1>4 DEF LibmodbusReturns, ConnectReturns, ConnectSucceeds, ConnectFails, ReplyCompletes,
     ExchangeFails, ReplyFallsShort, ReplyIsException, ResponseTimesOut, ConnectionIsLost,
     FramingIsLost, ResetConnection, SendRequest, Return
<1>5. CASE Recreate \/ Environment \/ UNCHANGED clientVars
  BY <1>5 DEF Recreate, Environment, PeerChanges, PeerCloses, Tick, clientVars, callVars
<1> QED
  BY <1>2, <1>3, <1>4, <1>5 DEF ClientNext

-----------------------------------------------------------------------------
\* A turn goes from place to place; the other task is outside.
LEMMA OthersOutside ==
  ASSUME LockInv, NEW t \in Tasks, pc[t] # "outside", NEW place \in Places, Goto(t, place)
  PROVE  pc'[t] = place /\ \A u \in Tasks \ {t} : pc'[u] = "outside"
BY DEF LockInv, Goto, Tasks, Threads

\* Outside of its turn nothing is said of a task.
LEMMA OutsideIsFine ==
  ASSUME NEW u \in Tasks, pc'[u] = "outside"
  PROVE  CycleOf(u)'
BY DEF CycleOf, AtBlocks, AtReadback, Waiting

LEMMA MadeTypes ==
  ASSUME LockInv, NEW t \in Tasks, CycleOf(t), AtBlocks(t) \/ AtReadback(t)
  PROVE  /\ BlocksOf(t) \in Nat \ {0} /\ WriteBlocks \in Nat \ {0}
         /\ block \in Nat \ {0}
         /\ AtReadback(t) => t = "writer" /\ BlocksOf(t) = WriteBlocks /\ ~AtBlocks(t)
         /\ AtHand(t) \notin Made(t)
<1>1. BlocksOf(t) \in Nat \ {0} /\ WriteBlocks \in Nat \ {0}
  BY DEF BlocksOf
<1>2. block \in Nat \ {0}
  BY <1>1 DEF CycleOf
<1>3. AtReadback(t) => t = "writer" /\ BlocksOf(t) = WriteBlocks /\ ~AtBlocks(t)
  BY DEF AtReadback, AtBlocks, LockInv, Tasks, BlocksOf
<1> QED
  BY <1>1, <1>2, <1>3, MadeGrows DEF Made, AtHand

\* An exchange has been made, and the turn goes on to the next one.
LEMMA AfterExchange ==
  ASSUME ClientInv, LockInv, CycleInv, NEW t \in Tasks, Waiting(t), phase = "idle"
  PROVE  LET made == Made(t) \cup {AtHand(t)}
         IN  /\ (succeeded /\ returned) \in BOOLEAN
             /\ (succeeded /\ returned) <=> made \subseteq answered
             /\ answered \subseteq made
             /\ AtBlocks(t) => made = Transfers((block + 1) - 1)
             /\ AtReadback(t) => made = Transfers(WriteBlocks) \cup Readbacks((block + 1) - 1)
             /\ block + 1 \in 1..(BlocksOf(t) + 1)
<1>1. CycleOf(t) /\ succeeded \in BOOLEAN
  BY DEF CycleInv
<1>2. returned \in BOOLEAN
  BY DEF ClientInv, TypeOK
<1>3. AtBlocks(t) \/ AtReadback(t)
  BY DEF Waiting, AtBlocks, AtReadback
<1>4. /\ succeeded <=> Made(t) \subseteq answered
      /\ answered \subseteq Made(t) \cup {AtHand(t)}
      /\ returned <=> AtHand(t) \in answered
      /\ block <= BlocksOf(t)
  BY <1>1, <1>3 DEF CycleOf
<1>5. AtHand(t) \notin Made(t) /\ block \in Nat \ {0} /\ BlocksOf(t) \in Nat /\ WriteBlocks \in Nat
        /\ (AtReadback(t) => ~AtBlocks(t))
  BY <1>1, <1>3, MadeTypes
<1>6. (succeeded /\ returned) \in BOOLEAN
        /\ ((succeeded /\ returned) <=> Made(t) \cup {AtHand(t)} \subseteq answered)
  BY <1>1, <1>2, <1>4, <1>5, OneMore
<1>7. AtBlocks(t) => Made(t) \cup {AtHand(t)} = Transfers(block)
  BY <1>5, MadeGrows DEF Made, AtHand
<1>8. AtReadback(t) => Made(t) \cup {AtHand(t)} = Transfers(WriteBlocks) \cup Readbacks(block)
  BY <1>5, MadeGrows DEF Made, AtHand
<1>9. (block + 1) - 1 = block /\ block + 1 \in 1..(BlocksOf(t) + 1)
  BY <1>4, <1>5
<1> QED
  BY <1>4, <1>6, <1>7, <1>8, <1>9

LEMMA TurnBegins ==
  ASSUME ClientInv, LockInv, CycleInv, NEW t \in Tasks, CallEnsure(t) \/ EnsureReturns(t)
  PROVE  CycleInv'
<1>1. CycleOf(t) /\ succeeded \in BOOLEAN /\ returned \in BOOLEAN
  BY DEF CycleInv, ClientInv, TypeOK
<1>2. block = 1 /\ answered = {}
  BY <1>1 DEF CycleOf, CallEnsure, EnsureReturns
<1>3. pc[t] # "outside"
  BY DEF CallEnsure, EnsureReturns
<1>4. CASE CallEnsure(t)
  <2>1. pc'[t] = "ensuring" /\ \A u \in Tasks \ {t} : pc'[u] = "outside"
    BY <1>3, <1>4, OthersOutside DEF CallEnsure, Places
  <2>2. CycleOf(t)'
    BY <1>2, <1>4, <2>1 DEF CallEnsure, CycleOf, AtBlocks, AtReadback, Waiting, turnVars
  <2> QED
    BY <1>1, <1>4, <2>1, <2>2, OutsideIsFine DEF CycleInv, CallEnsure, turnVars
<1>5. CASE EnsureReturns(t)
  <2> DEFINE place == IF returned THEN "block" ELSE "publish"
  <2>1. pc'[t] = place /\ \A u \in Tasks \ {t} : pc'[u] = "outside"
    BY <1>3, <1>5, OthersOutside DEF EnsureReturns, Places
  <2>2. succeeded' = returned /\ block' = 1 /\ answered' = {}
    BY <1>2, <1>5 DEF EnsureReturns
  <2>3. ASSUME returned PROVE CycleOf(t)'
    <3>1. pc'[t] = "block" /\ asked' = Transfers(BlocksOf(t))
      BY <1>5, <2>1, <2>3 DEF EnsureReturns, Transfers
    <3>2. BlocksOf(t) \in Nat \ {0} /\ Transfers(1 - 1) = {}
      BY NoneMade DEF BlocksOf
    <3>3. Made(t)' = {} /\ ToMake(t)' = Transfers(BlocksOf(t)) /\ ~Waiting(t)' /\ AtBlocks(t)'
      BY <2>2, <3>1, <3>2 DEF Made, ToMake, Waiting, AtBlocks, BlocksOf, Transfers
    <3>4. 1 \in 1..(BlocksOf(t) + 1)
      BY <3>2
    <3> QED
      BY <2>2, <2>3, <3>1, <3>3, <3>4 DEF CycleOf, BlocksOf
  <2>4. ASSUME ~returned PROVE CycleOf(t)'
    <3>1. pc'[t] = "publish" /\ asked' = {}
      BY <1>5, <2>1, <2>4 DEF EnsureReturns
    <3> QED
      BY <2>2, <2>4, <3>1 DEF CycleOf, AtBlocks, AtReadback, Waiting
  <2> QED
    BY <1>1, <2>1, <2>2, <2>3, <2>4, OutsideIsFine DEF CycleInv
<1> QED
  BY <1>4, <1>5

LEMMA ExchangeBegins ==
  ASSUME LockInv, CycleInv, NEW t \in Tasks, CallBlock(t) \/ (t = "writer" /\ CallReadback)
  PROVE  CycleInv'
<1> DEFINE place == IF pc[t] = "block" THEN "blocking" ELSE "readingBack"
<1>1. CycleOf(t) /\ succeeded \in BOOLEAN
  BY DEF CycleInv
<1>2. /\ pc[t] \in {"block", "readback"} /\ block <= BlocksOf(t)
      /\ Goto(t, place)
      /\ Transact \/ TransactOversized
      /\ UNCHANGED <<block, succeeded, asked, answered>>
  BY DEF CallBlock, CallReadback, turnVars, BlocksOf
<1>3. pc'[t] = place /\ \A u \in Tasks \ {t} : pc'[u] = "outside"
  BY <1>2, OthersOutside DEF Places
<1>4. phase' = "idle" => returned' = FALSE
  BY <1>2, TransactOutcome
<1>5. AtBlocks(t)' = AtBlocks(t) /\ AtReadback(t)' = AtReadback(t) /\ Waiting(t)' /\ ~Waiting(t)
        /\ (AtBlocks(t) \/ AtReadback(t))
  BY <1>2, <1>3 DEF AtBlocks, AtReadback, Waiting
<1>6. Made(t)' = Made(t) /\ ToMake(t)' = ToMake(t) /\ AtHand(t)' = AtHand(t)
  BY <1>2, <1>5 DEF Made, ToMake, AtHand, BlocksOf, Transfers, Readbacks
<1>7. AtHand(t) \notin Made(t)
  BY <1>1, <1>5, MadeTypes
<1>8. /\ block \in 1..(BlocksOf(t) + 1)
      /\ asked = ToMake(t)
      /\ succeeded <=> Made(t) \subseteq answered
      /\ answered \subseteq Made(t)
  BY <1>1, <1>5 DEF CycleOf
<1>9. CycleOf(t)'
  BY <1>2, <1>3, <1>4, <1>5, <1>6, <1>7, <1>8 DEF CycleOf, BlocksOf
<1> QED
  BY <1>1, <1>2, <1>3, <1>9, OutsideIsFine DEF CycleInv

LEMMA ExchangeEnds ==
  ASSUME ClientInv, LockInv, CycleInv, NEW t \in Tasks,
         BlockReturns(t) \/ (t = "writer" /\ ReadbackReturns)
  PROVE  CycleInv'
<1> DEFINE place == IF pc[t] = "blocking" THEN "block" ELSE "readback"
<1>1. CycleOf(t)
  BY DEF CycleInv
<1>2. /\ pc[t] \in {"blocking", "readingBack"} /\ phase = "idle"
      /\ Goto(t, place)
      /\ succeeded' = (succeeded /\ returned) /\ block' = block + 1
      /\ UNCHANGED <<asked, answered>>
  BY DEF BlockReturns, ReadbackReturns
<1>3. pc'[t] = place /\ \A u \in Tasks \ {t} : pc'[u] = "outside"
  BY <1>2, OthersOutside DEF Places
<1>4. Waiting(t) /\ (AtBlocks(t) \/ AtReadback(t)) /\ AtBlocks(t)' = AtBlocks(t)
        /\ AtReadback(t)' = AtReadback(t) /\ ~Waiting(t)' /\ (AtReadback(t) => ~AtBlocks(t))
  BY <1>2, <1>3 DEF AtBlocks, AtReadback, Waiting
<1> DEFINE made == Made(t) \cup {AtHand(t)}
<1>5. /\ (succeeded /\ returned) \in BOOLEAN
      /\ (succeeded /\ returned) <=> made \subseteq answered
      /\ answered \subseteq made
      /\ block + 1 \in 1..(BlocksOf(t) + 1)
  BY <1>2, <1>4, AfterExchange
<1>6. Made(t)' = made
  <2>1. AtBlocks(t) => made = Transfers((block + 1) - 1)
    BY <1>2, <1>4, AfterExchange
  <2>2. AtReadback(t) => made = Transfers(WriteBlocks) \cup Readbacks((block + 1) - 1)
    BY <1>2, <1>4, AfterExchange
  <2> QED
    BY <1>2, <1>4, <2>1, <2>2 DEF Made, Transfers, Readbacks
<1>7. asked' = ToMake(t)'
  BY <1>1, <1>2, <1>4 DEF CycleOf, ToMake, BlocksOf, Transfers, Readbacks
<1>8. pc'[t] \notin {"entered", "ensuring", "publish"}
  BY <1>3
<1> HIDE DEF made, place
<1>9. CycleOf(t)'
  BY <1>2, <1>4, <1>5, <1>6, <1>7, <1>8 DEF CycleOf, BlocksOf
<1> QED
  BY <1>2, <1>3, <1>5, <1>9, OutsideIsFine DEF CycleInv

\* The blocks are done: all that was asked has been made.
LEMMA BlocksEnd ==
  ASSUME LockInv, CycleInv, NEW t \in Tasks, BlocksDone(t) \/ (t = "writer" /\ ReadbackDone)
  PROVE  CycleInv'
<1>1. CycleOf(t) /\ succeeded \in BOOLEAN
  BY DEF CycleInv
<1>2. /\ pc[t] \in {"block", "readback"} /\ block > BlocksOf(t)
      /\ succeeded' = succeeded /\ answered' = answered
  BY DEF BlocksDone, ReadbackDone, turnVars, BlocksOf
<1>3. (AtBlocks(t) \/ AtReadback(t)) /\ ~Waiting(t) /\ (pc[t] = "block" <=> AtBlocks(t))
  BY <1>2 DEF AtBlocks, AtReadback, Waiting
<1>4. BlocksOf(t) \in Nat \ {0} /\ WriteBlocks \in Nat \ {0}
        /\ (AtReadback(t) => t = "writer" /\ BlocksOf(t) = WriteBlocks /\ ~AtBlocks(t))
  BY <1>1, <1>3, MadeTypes
<1>5. /\ block \in 1..(BlocksOf(t) + 1) /\ asked = ToMake(t)
      /\ succeeded <=> Made(t) \subseteq answered
      /\ answered \subseteq Made(t)
  BY <1>1, <1>3 DEF CycleOf
<1>6. block - 1 = BlocksOf(t)
  BY <1>2, <1>4, <1>5
<1>7. Made(t) = ToMake(t)
  BY <1>3, <1>4, <1>6 DEF Made, ToMake
<1>8. <<"transfer", 1>> \in asked
  BY <1>4, <1>5 DEF ToMake, Transfers
<1>9. ASSUME pc'[t] = "publish", asked' = asked
      PROVE  CycleOf(t)'
  <2>1. succeeded' <=> asked' # {} /\ answered' = asked'
    BY <1>2, <1>5, <1>7, <1>8, <1>9
  <2> QED
    BY <1>9, <2>1 DEF CycleOf, AtBlocks, AtReadback, Waiting
<1>10. CASE ReadbackDone /\ t = "writer"
  <2>1. pc'[t] = "publish" /\ \A u \in Tasks \ {t} : pc'[u] = "outside"
    BY <1>2, <1>10, OthersOutside DEF ReadbackDone, Places
  <2>2. asked' = asked
    BY <1>10 DEF ReadbackDone, turnVars
  <2> QED
    BY <1>1, <1>2, <1>9, <2>1, <2>2, OutsideIsFine DEF CycleInv
<1>11. CASE BlocksDone(t)
  <2> DEFINE due == t = "writer" /\ ReadbackInterval > 0 /\ readbackWait = 0
  <2> DEFINE place == IF due THEN "readback" ELSE "publish"
  <2>1. Goto(t, place)
    BY <1>11 DEF BlocksDone
  <2>2. pc'[t] = place /\ \A u \in Tasks \ {t} : pc'[u] = "outside"
    BY <1>2, <2>1, OthersOutside DEF Places
  <2>3. ASSUME ~due PROVE CycleOf(t)'
    BY <1>9, <1>11, <2>2, <2>3 DEF BlocksDone
  <2>4. ASSUME due PROVE CycleOf(t)'
    <3>1. /\ pc'[t] = "readback" /\ block' = 1 /\ t = "writer"
          /\ asked' = asked \cup Readbacks(WriteBlocks)
      BY <1>11, <2>2, <2>4 DEF BlocksDone, Readbacks
    <3>2. AtReadback(t)' /\ ~AtBlocks(t)' /\ ~Waiting(t)'
      BY <3>1 DEF AtReadback, AtBlocks, Waiting
    <3>3. BlocksOf(t) = WriteBlocks /\ AtBlocks(t)
      BY <1>3, <1>11, <3>1 DEF BlocksOf, BlocksDone
    <3>4. ToMake(t) = Transfers(WriteBlocks) /\ Made(t) = Transfers(WriteBlocks)
      BY <1>7, <3>3 DEF ToMake
    <3>5. Made(t)' = Transfers(WriteBlocks)
      <4>1. Made(t)' = Transfers(WriteBlocks) \cup Readbacks(1 - 1)
        BY <3>1, <3>2 DEF Made, Transfers, Readbacks
      <4>2. Readbacks(1 - 1) = {}
        BY NoneMade
      <4> QED
        BY <4>1, <4>2
    <3>6. ToMake(t)' = asked'
      BY <1>5, <3>1, <3>2, <3>4 DEF ToMake, Transfers, Readbacks
    <3>7. 1 \in 1..(BlocksOf(t) + 1)
      BY <1>4
    <3> QED
      BY <1>2, <1>5, <3>1, <3>2, <3>4, <3>5, <3>6, <3>7 DEF CycleOf, BlocksOf
  <2>5. CycleOf(t)'
    BY <2>3, <2>4
  <2> QED
    BY <1>1, <1>2, <2>2, <2>5, OutsideIsFine DEF CycleInv
<1> QED
  BY <1>10, <1>11

\* libmodbus returns: a complete reply answers the exchange at hand, and anything
\* else answers none.
LEMMA RepliesCount ==
  ASSUME ClientInv, AwaitInv, LockInv, CallerInv, CycleInv, CallReturns
  PROVE  CycleInv'
<1>1. pc' = pc /\ block' = block /\ succeeded' = succeeded /\ asked' = asked
  BY DEF CallReturns, moduleVars, turnVars
<1>2. phase # "idle"
  BY CallsInProgress DEF CallReturns, LibmodbusReturns
<1> SUFFICES ASSUME NEW t \in Tasks PROVE CycleOf(t)'
  BY <1>1 DEF CycleInv
<1>3. CycleOf(t)
  BY DEF CycleInv
<1>4. CASE pc[t] = "outside"
  BY <1>1, <1>4, OutsideIsFine
<1>5. CASE pc[t] # "outside"
  <2>1. \A th \in Threads : th # t => pc[th] = "outside"
    BY <1>5 DEF LockInv, Threads
  <2>2. AtBlocks(t)' = AtBlocks(t) /\ AtReadback(t)' = AtReadback(t) /\ Waiting(t)' = Waiting(t)
    BY <1>1 DEF AtBlocks, AtReadback, Waiting
  <2>3. Made(t)' = Made(t) /\ ToMake(t)' = ToMake(t) /\ AtHand(t)' = AtHand(t)
    BY <1>1, <2>2 DEF Made, ToMake, AtHand, BlocksOf, Transfers, Readbacks
  <2>4. operation \in {"transaction", "oversized"} => Waiting(t)
    BY <2>1 DEF CallerInv, Waiting, Threads, Tasks
  <2>5. CASE ~Waiting(t)
    <3>1. answered' = answered
      BY <2>4, <2>5 DEF CallReturns, ReplyCompletes, ReplyArrives, AwaitInv, moduleVars, turnVars
    <3> QED
      BY <1>1, <1>3, <2>2, <2>3, <2>5, <3>1 DEF CycleOf, BlocksOf
  <2>6. CASE Waiting(t)
    <3>1. (AtBlocks(t) \/ AtReadback(t)) /\ pc[t] \notin {"entered", "ensuring", "publish"}
      BY <2>6 DEF Waiting, AtBlocks, AtReadback
    <3>2. /\ block \in 1..(BlocksOf(t) + 1)
          /\ asked = ToMake(t)
          /\ succeeded <=> Made(t) \subseteq answered
          /\ answered \subseteq Made(t)
          /\ block <= BlocksOf(t)
      BY <1>2, <1>3, <2>6, <3>1 DEF CycleOf
    <3>3. AtHand(t) \notin Made(t) /\ (AtReadback(t) => t = "writer" /\ ~AtBlocks(t))
      BY <1>3, <3>1, MadeTypes
    <3>4. operation \in {"transaction", "oversized"}
      <4>1. operation \in Operations \cup {"none"} /\ operation # "none"
        BY <1>2 DEF ClientInv, TypeOK, CallInv
      <4>2. operation \notin {"ensureConnected", "monitorConnection"}
        BY <2>1, <2>6 DEF CallerInv, Waiting, Threads, Tasks
      <4> QED
        BY <4>1, <4>2 DEF Operations
    <3>5. CASE ReplyCompletes /\ answered' = answered \cup {Exchange}
      <4>1. phase' = "idle" /\ returned' = TRUE
        BY <3>5 DEF ReplyCompletes, Return
      <4>2. Exchange = AtHand(t)
        <5>1. CASE AtBlocks(t)
          <6>1. pc["writer"] # "readingBack"
            BY <2>1, <5>1 DEF AtBlocks, Threads, Tasks
          <6> QED
            BY <5>1, <6>1 DEF Exchange, AtHand
        <5>2. CASE ~AtBlocks(t)
          <6>1. pc["writer"] = "readingBack"
            BY <2>6, <3>1, <3>3, <5>2 DEF Waiting, AtBlocks
          <6> QED
            BY <5>2, <6>1 DEF Exchange, AtHand
        <5> QED
          BY <5>1, <5>2
      <4>3. answered' = answered \cup {AtHand(t)}
        BY <3>5, <4>2
      <4>4. Made(t) \subseteq answered' <=> Made(t) \subseteq answered
        BY <3>3, <4>3
      <4> QED
        BY <1>1, <2>2, <2>3, <2>6, <3>1, <3>2, <4>1, <4>3, <4>4 DEF CycleOf, BlocksOf
    <3>6. CASE (ConnectReturns \/ ExchangeFails) /\ UNCHANGED moduleVars
      <4>1. phase' = "idle" => returned' = FALSE
        BY <3>4, <3>6, ExchangeOutcome
      <4>2. answered' = answered
        BY <3>6 DEF moduleVars, turnVars
      <4>3. AtHand(t) \notin answered'
        BY <3>2, <3>3, <4>2
      <4> QED
        BY <1>1, <2>2, <2>3, <2>6, <3>1, <3>2, <4>1, <4>2, <4>3 DEF CycleOf, BlocksOf
    <3> QED
      BY <3>5, <3>6 DEF CallReturns
  <2> QED
    BY <2>5, <2>6
<1> QED
  BY <1>4, <1>5

LEMMA CycleKept ==
  ASSUME ClientInv, AwaitInv, LockInv, CallerInv, CycleInv, [ModuleNext]_vars
  PROVE  CycleInv'
<1>1. ASSUME NEW th \in Threads, Enter(th)
      PROVE  CycleInv'
  <2>1. block' = 1 /\ answered' = {} /\ succeeded' = FALSE
    BY <1>1 DEF Enter
  <2>2. \A u \in Tasks : pc'[u] \in {"outside", "entered"}
    BY <1>1 DEF Enter, Goto, LockInv, Tasks, Threads
  <2> QED
    BY <2>1, <2>2 DEF CycleInv, CycleOf, AtBlocks, AtReadback, Waiting
<1>2. ASSUME NEW t \in Tasks, TaskStep(t)
      PROVE  CycleInv'
  <2>1. CASE PublishDiagnostics(t)
    <3>1. \A u \in Tasks : pc'[u] = "outside"
      BY <2>1, OthersOutside DEF PublishDiagnostics, Leave, Places
    <3> QED
      BY <2>1, <3>1, OutsideIsFine DEF PublishDiagnostics, CycleInv, turnVars
  <2> QED
    BY <1>2, <2>1, TurnBegins, ExchangeBegins, ExchangeEnds, BlocksEnd DEF TaskStep
<1>3. CASE CallReadback \/ ReadbackReturns \/ ReadbackDone
  BY <1>3, ExchangeBegins, ExchangeEnds, BlocksEnd DEF Tasks
<1>4. CASE CallMonitor \/ MonitorReturns
  <2>1. succeeded' = succeeded /\ \A u \in Tasks : pc[u] = "outside" /\ pc'[u] = pc[u]
    BY <1>4 DEF CallMonitor, MonitorReturns, Leave, Goto, LockInv, Tasks, Threads, turnVars
  <2> QED
    BY <2>1, OutsideIsFine DEF CycleInv
<1>5. CASE CallReturns
  BY <1>5, RepliesCount
<1>6. CASE PeerActs \/ TimePasses \/ UNCHANGED vars
  <2>1. pc' = pc /\ UNCHANGED turnVars /\ phase' = phase /\ returned' = returned
    BY <1>6 DEF PeerActs, PeerChanges, PeerCloses, TimePasses, Tick, vars, clientVars, callVars,
                moduleVars
  <2> QED
    BY <2>1 DEF CycleInv, CycleOf, AtBlocks, AtReadback, Waiting, Made, ToMake, AtHand, BlocksOf,
                Transfers, Readbacks, turnVars
<1> QED
  BY <1>1, <1>2, <1>3, <1>4, <1>5, <1>6 DEF ModuleNext, ThreadStep

\* What a task publishes as stale or fresh is true of its whole cycle, for any
\* number of blocks and whatever the peer does in between.
THEOREM StaleCorrect == ModuleSpec => []StaleTellsTheCycle
<1>1. ModuleInit => LockInv /\ CallerInv /\ AwaitInv /\ CycleInv
  BY DEF ModuleInit, ClientInit, LockInv, CallerInv, AwaitInv, CycleInv, CycleOf, AtBlocks, AtReadback,
     Waiting, Threads, Tasks, Places
<1>2. LockInv /\ [ModuleNext]_vars => LockInv'
  BY LockKept
<1>3. ClientInv /\ LockInv /\ CallerInv /\ LockInv' /\ [ModuleNext]_vars => CallerInv'
  BY CallersKept
<1>4. AwaitInv /\ [ModuleNext]_vars => AwaitInv'
  BY AwaitKept, ModuleStepIsClientStep
<1>5. ClientInv /\ AwaitInv /\ LockInv /\ CallerInv /\ CycleInv /\ [ModuleNext]_vars => CycleInv'
  BY CycleKept
<1>6. CycleInv => StaleTellsTheCycle
  BY DEF CycleInv, CycleOf, StaleTellsTheCycle
<1>7. ModuleSpec => []ClientInv
  BY ModuleImplementsClient, InvariantHolds, PTL
<1> QED
  BY <1>1, <1>2, <1>3, <1>4, <1>5, <1>6, <1>7, PTL DEF ModuleSpec
=============================================================================
