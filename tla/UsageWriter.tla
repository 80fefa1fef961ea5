---------------------------- MODULE UsageWriter ----------------------------
(***************************************************************************)
(* The usage channel, the goroutine that writes it to usage_logs, the      *)
(* cap-hit recorder's goroutines, and the shutdown of main                 *)
(* (cmd/proxy/main.go, internal/creditrequest).  Handlers run until they   *)
(* have logged a usage entry or recorded a cap hit; a handler that streams *)
(* longer than Shutdown waits is still there while main takes the rest     *)
(* apart.                                                                  *)
(*                                                                         *)
(* The specification is WriterSpec, so that it can stand beside Startup's. *)
(***************************************************************************)
EXTENDS Naturals, Sequences, FiniteSets

CONSTANTS
    Handlers,               \* requests, each with at most one usage entry
    usageChannelCapacity,   \* capacity of usageCh
    Deliveries              \* capacity of Recorder.sem

ASSUME CapacityAssumption ==
    /\ usageChannelCapacity \in Nat \ {0}
    /\ Deliveries \in Nat \ {0}

VARIABLES
    handler,     \* idle, serving, or done
    usageCh,     \* the buffered entries, named by their request
    closed,      \* close(usageCh) was called
    writerCtx,   \* writerCancel() was called
    writer,      \* where the writer goroutine is
    entry,       \* the entry in its hands, if any
    written,     \* entries inserted into usage_logs
    failed,      \* entries whose insert failed
    dropped,     \* entries dropped because the channel was full
    panicked,    \* requests that sent on the closed channel
    recorder,    \* the recording goroutine of each request
    main,        \* where main is
    late         \* requests still being served when Shutdown returned

usageVars == <<handler, usageCh, closed, writerCtx, writer, entry, written,
               failed, dropped, panicked, recorder, main, late>>

entryVars == <<written, failed, dropped, panicked>>

writerVars == <<writer, entry, written, failed>>

mainVars == <<closed, writerCtx, main, late>>

\* select: the outer select.  log and drainLog: in LogUsage.  drain: the inner
\* select.  done: writerDone is closed.
WriterStates == {"select", "log", "drain", "drainLog", "done"}

RecorderStates == {"none", "filing", "filed", "posting", "done"}

\* serving: before the signal.  stopping: in srv.Shutdown.  cancel, close, join:
\* about to call writerCancel, close, and to receive from writerDone.  wait: in
\* capHits.Wait.  exited: main returned and the pool is closed.
MainStates == {"serving", "stopping", "cancel", "close", "join", "wait", "exited"}

InService == {h \in Handlers : handler[h] = "serving"}

Recording == {h \in Handlers : recorder[h] \in {"filing", "filed", "posting"}}

Up == main # "exited"

WriterInit ==
    /\ handler = [h \in Handlers |-> "idle"]
    /\ usageCh = <<>>
    /\ closed = FALSE
    /\ writerCtx = FALSE
    /\ writer = "select"
    /\ entry = {}
    /\ written = {}
    /\ failed = {}
    /\ dropped = {}
    /\ panicked = {}
    /\ recorder = [h \in Handlers |-> "none"]
    /\ main = "serving"
    /\ late = {}

----------------------------------------------------------------------------
(***************************************************************************)
(* Handlers                                                                *)
(***************************************************************************)

\* The server starts a handler; connections accepted before Shutdown closed the
\* listeners still get one.
Serve(h) ==
    /\ main \in {"serving", "stopping"}
    /\ handler[h] = "idle"
    /\ handler' = [handler EXCEPT ![h] = "serving"]
    /\ UNCHANGED <<usageCh, recorder, dropped, panicked, writerVars, mainVars>>

\* Mutant of logUsage: the send does not look at the buffer.
logUsageUnbounded(h) ==
    /\ Up
    /\ handler[h] = "serving"
    /\ handler' = [handler EXCEPT ![h] = "done"]
    /\ usageCh' = IF closed THEN usageCh ELSE Append(usageCh, h)
    /\ panicked' = IF closed THEN panicked \cup {h} ELSE panicked
    /\ UNCHANGED <<recorder, dropped, writerVars, mainVars>>

\* logUsage at the end of a handler: a send that never blocks.  On a closed
\* channel it panics, and the server recovers.
logUsage(h) ==
    /\ Up
    /\ handler[h] = "serving"
    /\ handler' = [handler EXCEPT ![h] = "done"]
    /\ LET full == Len(usageCh) = usageChannelCapacity
       IN  /\ usageCh' = IF closed \/ full THEN usageCh ELSE Append(usageCh, h)
           /\ panicked' = IF closed THEN panicked \cup {h} ELSE panicked
           /\ dropped' = IF ~closed /\ full THEN dropped \cup {h} ELSE dropped
    /\ UNCHANGED <<recorder, writerVars, mainVars>>

\* A handler that answers 402 to an end user starts a recording instead.
RecordCapHit(h) ==
    /\ Up
    /\ handler[h] = "serving"
    /\ handler' = [handler EXCEPT ![h] = "done"]
    /\ recorder' = [recorder EXCEPT ![h] = "filing"]
    /\ UNCHANGED <<usageCh, dropped, panicked, writerVars, mainVars>>

----------------------------------------------------------------------------
(***************************************************************************)
(* The writer goroutine                                                    *)
(***************************************************************************)

\* Mutant of Receive: the drain loop forgets to write what it receives.
ReceiveDiscarding ==
    /\ Up
    /\ writer \in {"select", "drain"}
    /\ usageCh # <<>>
    /\ entry' = IF writer = "select" THEN {Head(usageCh)} ELSE {}
    /\ usageCh' = Tail(usageCh)
    /\ writer' = IF writer = "select" THEN "log" ELSE "drain"
    /\ UNCHANGED <<handler, recorder, entryVars, mainVars>>

\* A receive in the outer or the inner select.
Receive ==
    /\ Up
    /\ writer \in {"select", "drain"}
    /\ usageCh # <<>>
    /\ entry' = {Head(usageCh)}
    /\ usageCh' = Tail(usageCh)
    /\ writer' = IF writer = "select" THEN "log" ELSE "drainLog"
    /\ UNCHANGED <<handler, recorder, entryVars, mainVars>>

\* db.LogUsage; a failure is only logged.
LogUsage(ok) ==
    /\ Up
    /\ writer \in {"log", "drainLog"}
    /\ written' = IF ok THEN written \cup entry ELSE written
    /\ failed' = IF ok THEN failed ELSE failed \cup entry
    /\ entry' = {}
    /\ writer' = IF writer = "log" THEN "select" ELSE "drain"
    /\ UNCHANGED <<handler, usageCh, dropped, panicked, recorder, mainVars>>

\* Mutant of CtxDone: the writer returns without draining.
CtxDoneReturns ==
    /\ Up
    /\ writer = "select"
    /\ writerCtx
    /\ writer' = "done"
    /\ UNCHANGED <<handler, usageCh, entry, entryVars, recorder, mainVars>>

\* The outer select takes writerCtx.Done, which it may also do while entries
\* are waiting.
CtxDone ==
    /\ Up
    /\ writer = "select"
    /\ writerCtx
    /\ writer' = "drain"
    /\ UNCHANGED <<handler, usageCh, entry, entryVars, recorder, mainVars>>

\* The channel is closed and empty, or the drain finds it empty.
WriterReturns ==
    /\ Up
    /\ usageCh = <<>>
    /\ writer = "drain" \/ (writer = "select" /\ closed)
    /\ writer' = "done"
    /\ UNCHANGED <<handler, usageCh, entry, entryVars, recorder, mainVars>>

----------------------------------------------------------------------------
(***************************************************************************)
(* The recorder's goroutines                                               *)
(***************************************************************************)

\* The filing: a winner goes on to notify the webhook, everybody else (a loser,
\* an error, no webhook) is done.
FileCreditRequest(h, wins) ==
    /\ Up
    /\ recorder[h] = "filing"
    /\ recorder' = [recorder EXCEPT ![h] = IF wins THEN "filed" ELSE "done"]
    /\ UNCHANGED <<handler, usageCh, entry, writer, entryVars, mainVars>>

\* The blocking acquire of the delivery semaphore.
AcquireDelivery(h) ==
    /\ Up
    /\ recorder[h] = "filed"
    /\ Cardinality({g \in Handlers : recorder[g] = "posting"}) < Deliveries
    /\ recorder' = [recorder EXCEPT ![h] = "posting"]
    /\ UNCHANGED <<handler, usageCh, entry, writer, entryVars, mainVars>>

\* Mutant of deliver: without the client's timeout a silent webhook keeps it.
DeliverWithoutTimeout(h) ==
    /\ Up
    /\ recorder[h] = "posting"
    /\ UNCHANGED usageVars

\* deliver returns, after two attempts of five seconds at most; the slot is
\* freed and the wait group counted down.
deliver(h) ==
    /\ Up
    /\ recorder[h] = "posting"
    /\ recorder' = [recorder EXCEPT ![h] = "done"]
    /\ UNCHANGED <<handler, usageCh, entry, writer, entryVars, mainVars>>

----------------------------------------------------------------------------
(***************************************************************************)
(* Shutdown of main                                                        *)
(***************************************************************************)

Signal ==
    /\ main = "serving"
    /\ main' = "stopping"
    /\ UNCHANGED <<handler, usageCh, writerVars, dropped, panicked, recorder,
                   closed, writerCtx, late>>

\* srv.Shutdown returns: nobody is being served, or its ten seconds are over.
ShutdownReturns ==
    /\ main = "stopping"
    /\ main' = "cancel"
    /\ late' = InService
    /\ UNCHANGED <<handler, usageCh, writerVars, dropped, panicked, recorder,
                   closed, writerCtx>>

writerCancel ==
    /\ main = "cancel"
    /\ writerCtx' = TRUE
    /\ main' = "close"
    /\ UNCHANGED <<handler, usageCh, writerVars, dropped, panicked, recorder,
                   closed, late>>

closeUsageCh ==
    /\ main = "close"
    /\ closed' = TRUE
    /\ main' = "join"
    /\ UNCHANGED <<handler, usageCh, writerVars, dropped, panicked, recorder,
                   writerCtx, late>>

writerDone ==
    /\ main = "join"
    /\ writer = "done"
    /\ main' = "wait"
    /\ UNCHANGED <<handler, usageCh, writerVars, dropped, panicked, recorder,
                   closed, writerCtx, late>>

\* capHits.Wait returns, main returns and closes the pool.
Wait ==
    /\ main = "wait"
    /\ Recording = {}
    /\ main' = "exited"
    /\ UNCHANGED <<handler, usageCh, writerVars, dropped, panicked, recorder,
                   closed, writerCtx, late>>

WriterStep == Receive \/ (\E ok \in BOOLEAN : LogUsage(ok)) \/ CtxDone \/ WriterReturns

RecorderStep(h) ==
    \/ \E wins \in BOOLEAN : FileCreditRequest(h, wins)
    \/ AcquireDelivery(h)
    \/ deliver(h)

MainStep == ShutdownReturns \/ writerCancel \/ closeUsageCh \/ writerDone \/ Wait

WriterNext ==
    \/ \E h \in Handlers : Serve(h) \/ logUsage(h) \/ RecordCapHit(h)
    \/ WriterStep
    \/ \E h \in Handlers : RecorderStep(h)
    \/ Signal
    \/ MainStep

\* Goroutines that can run do; Shutdown has a timer.  Nothing makes a handler
\* finish or a signal come.  A recording waiting for a delivery slot gets one:
\* blocked channel sends are served in order.
Fairness ==
    /\ WF_usageVars(WriterStep)
    /\ WF_usageVars(MainStep)
    /\ \A h \in Handlers : SF_usageVars(RecorderStep(h))

WriterSpec == WriterInit /\ [][WriterNext]_usageVars /\ Fairness

----------------------------------------------------------------------------
(***************************************************************************)
(* Properties                                                              *)
(***************************************************************************)

Buffered == {usageCh[i] : i \in DOMAIN usageCh}

\* The state is well typed and the channel keeps to its capacity.
TypeOK ==
    /\ handler \in [Handlers -> {"idle", "serving", "done"}]
    /\ usageCh \in Seq(Handlers)
    /\ Len(usageCh) <= usageChannelCapacity
    /\ closed \in BOOLEAN
    /\ writerCtx \in BOOLEAN
    /\ writer \in WriterStates
    /\ entry \cup written \cup failed \cup dropped \cup panicked \subseteq Handlers
    /\ recorder \in [Handlers -> RecorderStates]
    /\ main \in MainStates
    /\ late \subseteq Handlers

\* Where a request's entry can be; the last are those that record a cap hit.
Outcomes == <<Buffered, entry, written, failed, dropped, panicked,
              {h \in Handlers : recorder[h] # "none"}>>

\* No entry vanishes and none is written twice: from the end of its request on,
\* each is in exactly one place, through every race of the two selects with the
\* cancellation and the close.
OneOutcome ==
    \A h \in Handlers : handler[h] = "done" =>
        \E i \in DOMAIN Outcomes : \A j \in DOMAIN Outcomes :
            h \in Outcomes[j] <=> j = i

\* A clean shutdown loses nothing: if nobody was being served when Shutdown
\* returned, then at exit every entry the channel accepted was handed to the
\* database, nobody sent on the closed channel, and no recording was cut off.
CleanShutdownDrains ==
    main = "exited" /\ late = {} =>
        /\ Buffered = {} /\ entry = {}
        /\ panicked = {}
        /\ Recording = {}

\* Shutdown ends: after the signal the process exits, however long handlers
\* stream, whatever the select chooses and whatever the webhook does.
ShutdownEnds == main = "stopping" ~> main = "exited"
=============================================================================
