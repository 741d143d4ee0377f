---------------------------- MODULE ModbusModule ----------------------------
(***************************************************************************)
(* A module instance: one client shared by its monitor thread, one read    *)
(* task and one write task (class ModbusTCPClientModule and the on_task    *)
(* functions in engine/src/modbus_tcp_client_module.cpp).                  *)
(*                                                                         *)
(* A thread takes connection_mutex_ for a whole turn: the monitor for one  *)
(* monitorConnection(), a task for a cycle, which connects, transfers its  *)
(* blocks one by one and publishes whether all of them went through.  The  *)
(* actions of ModbusTCPClient happen inside the turns; its environment     *)
(* (the peer and time) goes on in between.                                 *)
(***************************************************************************)
EXTENDS ModbusTCPClient

CONSTANTS MonitorEnabled,    \* parameter connection_monitor_enabled
          ReadBlocks,        \* number of blocks of the read task
          WriteBlocks,       \* number of blocks of the write task
          Oversized,         \* the read blocks longer than a Modbus request
          ReadbackInterval   \* ticks of readback_interval_seconds, 0 for never

\* createRuntime() refuses to start a task without blocks.
ASSUME MonitorAssumption == MonitorEnabled \in BOOLEAN
ASSUME BlocksAssumption ==
  /\ ReadBlocks \in Nat \ {0}
  /\ WriteBlocks \in Nat \ {0}
  /\ Oversized \subseteq 1..ReadBlocks
ASSUME ReadbackAssumption == ReadbackInterval \in Nat

VARIABLES
  lock,          \* the thread that holds connection_mutex_, or "nobody"
  pc,            \* where each thread is
  block,         \* the block the turn has come to
  succeeded,     \* the local of that name in on_task
  asked,         \* the exchanges this turn has set out to make (history)
  answered,      \* those the server has answered in full (history)
  readbackWait,  \* ticks until the write task's next_readback
  stale          \* RAPID channel <task>.modbus.stale

turnVars == <<block, succeeded, asked, answered>>
moduleVars == <<lock, pc, turnVars, readbackWait, stale>>
vars == <<clientVars, moduleVars>>

Tasks == {"reader", "writer"}
Threads == Tasks \cup {"monitor"}
MaxBlocks == IF ReadBlocks > WriteBlocks THEN ReadBlocks ELSE WriteBlocks

\* An exchange transfers a block, or reads a written one back.
Exchanges == {"transfer", "readback"} \X (1..MaxBlocks)

Places == {"outside", "entered", "ensuring", "block", "blocking", "readback",
           "readingBack", "publish", "monitoring"}

ModuleTypeOK ==
  /\ lock \in Threads \cup {"nobody"}
  /\ pc \in [Threads -> Places]
  /\ block \in 1..(MaxBlocks + 1)
  /\ succeeded \in BOOLEAN
  /\ asked \subseteq Exchanges
  /\ answered \subseteq Exchanges
  /\ readbackWait \in 0..ReadbackInterval
  /\ stale \in [Tasks -> BOOLEAN]

\* configureTask() has created the stale channels with 1.0.
ModuleInit ==
  /\ ClientInit
  /\ lock = "nobody"
  /\ pc = [th \in Threads |-> "outside"]
  /\ block = 1
  /\ succeeded = FALSE
  /\ asked = {}
  /\ answered = {}
  /\ readbackWait = 0
  /\ stale = [t \in Tasks |-> TRUE]

BlocksOf(t) == IF t = "reader" THEN ReadBlocks ELSE WriteBlocks

Goto(th, place) == pc' = [pc EXCEPT ![th] = place]

-----------------------------------------------------------------------------
\* Bug: the monitor does not take the mutex.
EntersUnlocked(th) ==
  /\ pc[th] = "outside"
  /\ th = "monitor" => MonitorEnabled
  /\ th # "monitor" => lock = "nobody"
  /\ lock' = IF th = "monitor" THEN lock ELSE th
  /\ Goto(th, "entered")
  /\ block' = 1 /\ succeeded' = FALSE /\ asked' = {} /\ answered' = {}
  /\ UNCHANGED <<clientVars, readbackWait, stale>>

\* A thread gets the mutex and begins its turn.
Enter(th) ==
  /\ pc[th] = "outside" /\ lock = "nobody"
  /\ th = "monitor" => MonitorEnabled
  /\ lock' = th
  /\ Goto(th, "entered")
  /\ block' = 1 /\ succeeded' = FALSE /\ asked' = {} /\ answered' = {}
  /\ UNCHANGED <<clientVars, readbackWait, stale>>

Leave(th) == lock' = "nobody" /\ Goto(th, "outside")

CallMonitor ==
  /\ pc["monitor"] = "entered"
  /\ MonitorConnection
  /\ Goto("monitor", "monitoring")
  /\ UNCHANGED <<lock, turnVars, readbackWait, stale>>

MonitorReturns ==
  /\ pc["monitor"] = "monitoring" /\ phase = "idle"
  /\ Leave("monitor")
  /\ UNCHANGED <<clientVars, turnVars, readbackWait, stale>>

CallEnsure(t) ==
  /\ pc[t] = "entered"
  /\ EnsureConnected
  /\ Goto(t, "ensuring")
  /\ UNCHANGED <<lock, turnVars, readbackWait, stale>>

EnsureReturns(t) ==
  /\ pc[t] = "ensuring" /\ phase = "idle"
  /\ succeeded' = returned
  /\ asked' = IF returned THEN {"transfer"} \X (1..BlocksOf(t)) ELSE {}
  /\ Goto(t, IF returned THEN "block" ELSE "publish")
  /\ UNCHANGED <<clientVars, lock, block, answered, readbackWait, stale>>

\* The body of the block loop up to the transaction. Publishing a block that was
\* read and querying the channels of one to be written touch none of the
\* variables.
CallBlock(t) ==
  /\ pc[t] = "block" /\ block <= BlocksOf(t)
  /\ IF t = "reader" /\ block \in Oversized THEN TransactOversized ELSE Transact
  /\ Goto(t, "blocking")
  /\ UNCHANGED <<lock, turnVars, readbackWait, stale>>

\* Bug: a block that goes through makes up for one that failed.
LastBlockDecides(t) ==
  /\ pc[t] = "blocking" /\ phase = "idle"
  /\ succeeded' = returned
  /\ block' = block + 1
  /\ Goto(t, "block")
  /\ UNCHANGED <<clientVars, lock, asked, answered, readbackWait, stale>>

\* Bug: a failed block is tried again in the same turn.
RetriesBlock(t) ==
  /\ pc[t] = "blocking" /\ phase = "idle"
  /\ succeeded' = (succeeded /\ returned)
  /\ block' = IF returned THEN block + 1 ELSE block
  /\ Goto(t, "block")
  /\ UNCHANGED <<clientVars, lock, asked, answered, readbackWait, stale>>

BlockReturns(t) ==
  /\ pc[t] = "blocking" /\ phase = "idle"
  /\ succeeded' = (succeeded /\ returned)
  /\ block' = block + 1
  /\ Goto(t, "block")
  /\ UNCHANGED <<clientVars, lock, asked, answered, readbackWait, stale>>

\* After the loop. The write task reads its blocks back when that is due, and
\* puts the next time off whatever becomes of it.
BlocksDone(t) ==
  /\ pc[t] = "block" /\ block > BlocksOf(t)
  /\ IF t = "writer" /\ ReadbackInterval > 0 /\ readbackWait = 0
       THEN /\ readbackWait' = ReadbackInterval
            /\ block' = 1
            /\ asked' = asked \cup ({"readback"} \X (1..WriteBlocks))
            /\ Goto(t, "readback")
       ELSE /\ Goto(t, "publish")
            /\ UNCHANGED <<readbackWait, block, asked>>
  /\ UNCHANGED <<clientVars, lock, succeeded, answered, stale>>

CallReadback ==
  /\ pc["writer"] = "readback" /\ block <= WriteBlocks
  /\ Transact
  /\ Goto("writer", "readingBack")
  /\ UNCHANGED <<lock, turnVars, readbackWait, stale>>

ReadbackReturns ==
  /\ pc["writer"] = "readingBack" /\ phase = "idle"
  /\ succeeded' = (succeeded /\ returned)
  /\ block' = block + 1
  /\ Goto("writer", "readback")
  /\ UNCHANGED <<clientVars, lock, asked, answered, readbackWait, stale>>

ReadbackDone ==
  /\ pc["writer"] = "readback" /\ block > WriteBlocks
  /\ Goto("writer", "publish")
  /\ UNCHANGED <<clientVars, lock, turnVars, readbackWait, stale>>

\* Bug: a cycle that failed publishes nothing.
PublishesSuccessOnly(t) ==
  /\ pc[t] = "publish"
  /\ stale' = IF succeeded THEN [stale EXCEPT ![t] = FALSE] ELSE stale
  /\ Leave(t)
  /\ UNCHANGED <<clientVars, turnVars, readbackWait>>

\* publishDiagnostics(), and the mutex is released.
PublishDiagnostics(t) ==
  /\ pc[t] = "publish"
  /\ stale' = [stale EXCEPT ![t] = ~succeeded]
  /\ Leave(t)
  /\ UNCHANGED <<clientVars, turnVars, readbackWait>>

-----------------------------------------------------------------------------
TaskStep(t) ==
  \/ CallEnsure(t)
  \/ EnsureReturns(t)
  \/ CallBlock(t)
  \/ BlockReturns(t)
  \/ BlocksDone(t)
  \/ PublishDiagnostics(t)

ThreadStep ==
  \/ \E t \in Tasks : TaskStep(t)
  \/ CallReadback
  \/ ReadbackReturns
  \/ ReadbackDone
  \/ CallMonitor
  \/ MonitorReturns

Exchange == <<IF pc["writer"] = "readingBack" THEN "readback" ELSE "transfer", block>>

CallReturns ==
  \/ /\ ReplyCompletes
     /\ answered' = answered \cup {Exchange}
     /\ UNCHANGED <<lock, pc, block, succeeded, asked, readbackWait, stale>>
  \/ /\ ConnectReturns \/ ExchangeFails
     /\ UNCHANGED moduleVars

PeerActs == (PeerChanges \/ PeerCloses) /\ UNCHANGED moduleVars

\* Time passes for the client and for the readback deadline at once.
TimePasses ==
  /\ IF TimersRunning THEN Tick ELSE readbackWait > 0 /\ UNCHANGED clientVars
  /\ readbackWait' = Elapse(readbackWait)
  /\ UNCHANGED <<lock, pc, turnVars, stale>>

ModuleNext ==
  \/ \E th \in Threads : Enter(th)
  \/ ThreadStep
  \/ CallReturns
  \/ PeerActs
  \/ TimePasses

ModuleSpec == ModuleInit /\ [][ModuleNext]_vars

\* Threads run, calls return and time passes; a thread that keeps finding the
\* mutex free gets it (the others sleep between their turns).
ModuleFairness ==
  /\ WF_vars(ThreadStep)
  /\ WF_vars(CallReturns)
  /\ WF_vars(TimePasses)
  /\ \A th \in Threads : SF_vars(Enter(th))

FairModuleSpec == ModuleSpec /\ ModuleFairness

-----------------------------------------------------------------------------
\* One thread at a time is in a turn, and the operation the client executes is
\* the one that thread called: the module serializes all protocol transactions
\* (modbus_tcp_client.h:13-14, module.cpp:334-337, 377, 412).
TransactionsSerialized ==
  /\ \A th, other \in Threads : pc[th] # "outside" /\ pc[other] # "outside" => th = other
  /\ operation = "ensureConnected" => \E t \in Tasks : pc[t] = "ensuring"
  /\ operation = "monitorConnection" => pc["monitor"] = "monitoring"
  /\ operation \in {"transaction", "oversized"} =>
       pc["reader"] = "blocking" \/ pc["writer"] \in {"blocking", "readingBack"}

\* What a cycle is about to publish is true of the whole cycle: not stale exactly
\* when it was connected and the server answered every exchange it set out to
\* make, each one within this cycle (module.cpp:379-388, 414-439).
StaleTellsTheCycle ==
  \A t \in Tasks :
    pc[t] = "publish" => (succeeded <=> asked # {} /\ answered = asked)

\* Every turn ends, so that the mutex is free again and again.
TurnsEnd == \A th \in Threads : pc[th] # "outside" ~> pc[th] = "outside"

\* With a server that keeps answering, every task comes to publish fresh data
\* again and again, whatever happened before.
FreshAgain ==
  <>[](peer = "answering" /\ ~peerClosed) /\ Oversized = {} =>
    \A t \in Tasks : []<>~stale[t]

\* With a server that has gone silent the tasks become stale for good.
SilenceTurnsStale ==
  <>[](peer = "mute") => \A t \in Tasks : <>[]stale[t]
=============================================================================
