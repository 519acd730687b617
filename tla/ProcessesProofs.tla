-------------------------- MODULE ProcessesProofs ---------------------------
(***************************************************************************)
(* Theorems about the processes beside an index run, McpServer, Telemetry  *)
(* and AnalyzerClient: any set of calls, any number of slots and units, any *)
(* queue and clock, responses of any length.                               *)
(***************************************************************************)
EXTENDS McpServer, Telemetry, AnalyzerClient, FiniteSetTheorems, WellFoundedInduction,
        TLAPS

-----------------------------------------------------------------------------
(* McpServer: worker threads exclude each other, no runtime is closed in   *)
(* use, none is left open.                                                 *)

Handled(c) == at[c] \in {"running", "cleanup"}

\* The lock belongs to the call that is handled, and a poisoned server, the
\* only one with an unverified worker, handles none.
LockInv ==
  /\ \A c \in Calls : Handled(c) <=> holder = c
  /\ poisoned => holder = NoOne
  /\ unverified # NoOne => poisoned

\* A thread runs for the call that is handled, or is the unverified one, whose
\* event is set.
WorkerInv == \A c \in Calls :
  /\ at[c] \in {"idle", "queued"} => worker[c] = "none"
  /\ Active(c) => Handled(c) \/ unverified = c
  /\ Active(c) /\ ~(at[c] = "running") => stop[c]

\* Who uses a runtime, uses the current one or the one left to the daemon thread.
UseInv == \A c \in Calls :
  /\ using[c] # NoOne <=> worker[c] = "using"
  /\ using[c] # NoOne => using[c] \in {runtime, leaving}
  /\ worker[c] = "using" => tool[c] # "index"

\* A built runtime belongs to its call until that publishes or closes it.
BuiltInv == \A c \in Calls :
  /\ worker[c] \in {"built", "responded"} => c \in replacement
  /\ c \in replacement => worker[c] \in {"built", "responded", "returned"}
  /\ worker[c] \in {"building", "built", "responded"} => tool[c] = "index"
  /\ /\ Handled(c)
     /\ worker[c] \in {"built", "responded"} \/ (worker[c] = "returned" /\ tool[c] = "index")
     => c \in replacement \cap open
  /\ c \in {runtime, leaving} => c \notin replacement /\ worker[c] = "returned"

\* What is open is current, left to the daemon thread, or owned by a call that
\* is handled or whose thread runs.
OpenInv ==
  /\ {runtime, leaving} \ {NoOne} \subseteq open
  /\ \A r \in open \ {runtime, leaving} :
       r \in Calls /\ r \in replacement /\ (Handled(r) \/ Active(r))

\* The server ends after its calls.
ServerInv ==
  /\ server = "up" => leaving = NoOne
  /\ server # "up" => runtime = NoOne /\ \A c \in Calls : at[c] \in {"idle", "ended"}
  /\ server = "draining" => unverified # NoOne
  /\ server = "down" => leaving = NoOne

McpInv ==
  McpTypes /\ LockInv /\ WorkerInv /\ UseInv /\ BuiltInv /\ OpenInv /\ ServerInv

-----------------------------------------------------------------------------
(* Every action keeps the invariant, conjunct by conjunct.                 *)

\* A request of a client comes in.
LEMMA ArriveKeeps == ASSUME McpInv, NEW c \in Calls, Arrive(c) PROVE McpInv'
<1>1. McpTypes'
  BY DEF McpInv, Arrive, McpTypes
<1>2. LockInv'
  BY DEF McpInv, Arrive, LockInv, Handled
<1>3. WorkerInv'
  BY DEF McpInv, Arrive, WorkerInv, Handled, Active
<1>4. UseInv'
  BY DEF McpInv, Arrive, UseInv, WorkerInv
<1>5. BuiltInv'
  BY DEF McpInv, Arrive, BuiltInv, WorkerInv, Handled
<1>6. OpenInv'
  BY DEF McpInv, Arrive, OpenInv, Handled, Active
<1>7. ServerInv'
  BY DEF McpInv, Arrive, ServerInv
<1>8. QED BY <1>1, <1>2, <1>3, <1>4, <1>5, <1>6, <1>7 DEF McpInv

\* A client gives up before its call has the lock.
LEMMA LeaveQueueKeeps == ASSUME McpInv, NEW c \in Calls, LeaveQueue(c) PROVE McpInv'
<1>1. McpTypes'
  BY DEF McpInv, LeaveQueue, McpTypes
<1>2. LockInv'
  BY DEF McpInv, LeaveQueue, LockInv, Handled
<1>3. WorkerInv'
  BY DEF McpInv, LeaveQueue, WorkerInv, Handled, Active
<1>4. UseInv'
  BY DEF McpInv, LeaveQueue, UseInv
<1>5. BuiltInv'
  BY DEF McpInv, LeaveQueue, BuiltInv, Handled
<1>6. OpenInv'
  BY DEF McpInv, LeaveQueue, OpenInv, Handled, Active
<1>7. ServerInv'
  BY DEF McpInv, LeaveQueue, ServerInv
<1>8. QED BY <1>1, <1>2, <1>3, <1>4, <1>5, <1>6, <1>7 DEF McpInv

\* The lock stays with the call; only the event of its thread is set.
LEMMA CancelCallKeeps == ASSUME McpInv, NEW c \in Calls, CancelCall(c) PROVE McpInv'
<1>1. McpTypes'
  BY DEF McpInv, CancelCall, McpTypes
<1>2. LockInv'
  BY DEF McpInv, CancelCall, LockInv, Handled
<1>3. WorkerInv'
  BY DEF McpInv, CancelCall, WorkerInv, McpTypes, Handled, Active
<1>4. UseInv'
  BY DEF McpInv, CancelCall, UseInv
<1>5. BuiltInv'
  BY DEF McpInv, CancelCall, BuiltInv, Handled
<1>6. OpenInv'
  BY McpAssumption DEF McpInv, CancelCall, OpenInv, LockInv, WorkerInv, Handled
<1>7. ServerInv'
  BY DEF McpInv, CancelCall, ServerInv
<1>8. QED BY <1>1, <1>2, <1>3, <1>4, <1>5, <1>6, <1>7 DEF McpInv

\* The lock was free and the server healthy, so no thread runs.
LEMMA AcquireKeeps == ASSUME McpInv, NEW c \in Calls, Acquire(c) PROVE McpInv'
<1>1. McpTypes'
  BY DEF McpInv, Acquire, McpTypes
<1>2. LockInv'
  BY McpAssumption DEF McpInv, Acquire, Healthy, LockInv, McpTypes, Handled
<1>3. WorkerInv'
  BY McpAssumption DEF McpInv, Acquire, WorkerInv, LockInv, McpTypes, Active
<1>4. UseInv'
  BY DEF McpInv, Acquire, UseInv
<1>5. BuiltInv'
  BY DEF McpInv, Acquire, BuiltInv, WorkerInv, McpTypes, Handled
<1>6. OpenInv'
  BY McpAssumption DEF McpInv, Acquire, OpenInv, LockInv, Active
<1>7. ServerInv'
  BY DEF McpInv, Acquire, ServerInv
<1>8. QED BY <1>1, <1>2, <1>3, <1>4, <1>5, <1>6, <1>7 DEF McpInv

\* The thread is over, so nothing uses the runtime that is exchanged.
LEMMA AnswerKeeps == ASSUME McpInv, NEW c \in Calls, Answer(c) PROVE McpInv'
<1>1. McpTypes'
  BY DEF McpInv, Answer, End, McpTypes, Runtimes
<1>2. LockInv'
  BY McpAssumption DEF McpInv, Answer, End, LockInv, McpTypes, Handled
<1>3. WorkerInv'
  BY DEF McpInv, Answer, End, Stopped, WorkerInv, Handled, Active
<1>4. UseInv'
  BY McpAssumption DEF McpInv, Answer, UseInv, LockInv, WorkerInv, Handled, Active
<1>5. BuiltInv'
  BY DEF McpInv, Answer, End, Unpublished, BuiltInv, McpTypes, Handled
<1>6. OpenInv'
  BY McpAssumption DEF McpInv, Answer, Unpublished, OpenInv, LockInv, WorkerInv, BuiltInv,
    ServerInv, Handled
<1>7. ServerInv'
  BY DEF McpInv, Answer, ServerInv
<1>8. QED BY <1>1, <1>2, <1>3, <1>4, <1>5, <1>6, <1>7 DEF McpInv

\* The thread is over; what it built and did not close is closed.
LEMMA CleanedUpKeeps == ASSUME McpInv, NEW c \in Calls, CleanedUp(c) PROVE McpInv'
<1>1. McpTypes'
  BY DEF McpInv, CleanedUp, End, McpTypes
<1>2. LockInv'
  BY McpAssumption DEF McpInv, CleanedUp, End, LockInv, McpTypes, Handled
<1>3. WorkerInv'
  BY DEF McpInv, CleanedUp, End, Stopped, WorkerInv, Handled, Active
<1>4. UseInv'
  BY DEF McpInv, CleanedUp, UseInv
<1>5. BuiltInv'
  BY DEF McpInv, CleanedUp, End, Unpublished, BuiltInv, McpTypes, Handled
<1>6. OpenInv'
  BY McpAssumption DEF McpInv, CleanedUp, Unpublished, OpenInv, LockInv, WorkerInv, BuiltInv,
    Handled
<1>7. ServerInv'
  BY DEF McpInv, CleanedUp, ServerInv
<1>8. QED BY <1>1, <1>2, <1>3, <1>4, <1>5, <1>6, <1>7 DEF McpInv

\* The thread may go on; from now on the server is poisoned.
LEMMA CleanupTimesOutKeeps == ASSUME McpInv, NEW c \in Calls, CleanupTimesOut(c) PROVE McpInv'
<1>1. McpTypes'
  BY DEF McpInv, CleanupTimesOut, End, McpTypes
<1>2. LockInv'
  BY McpAssumption DEF McpInv, CleanupTimesOut, End, LockInv, McpTypes, Handled
<1>3. WorkerInv'
  BY McpAssumption DEF McpInv, CleanupTimesOut, End, WorkerInv, LockInv, Handled, Active
<1>4. UseInv'
  BY DEF McpInv, CleanupTimesOut, UseInv
<1>5. BuiltInv'
  BY DEF McpInv, CleanupTimesOut, End, Unpublished, BuiltInv, McpTypes, Handled
<1>6. OpenInv'
  BY McpAssumption DEF McpInv, CleanupTimesOut, Unpublished, OpenInv, LockInv, WorkerInv,
    BuiltInv, Handled
<1>7. ServerInv'
  BY DEF McpInv, CleanupTimesOut, ServerInv
<1>8. QED BY <1>1, <1>2, <1>3, <1>4, <1>5, <1>6, <1>7 DEF McpInv

\* The call is handled, so no other thread runs.
LEMMA StartWorkerKeeps == ASSUME McpInv, NEW c \in Calls, StartWorker(c) PROVE McpInv'
<1>1. McpTypes'
  BY DEF McpInv, StartWorker, Place, McpTypes
<1>2. LockInv'
  BY DEF McpInv, StartWorker, LockInv, Handled
<1>3. WorkerInv'
  BY DEF McpInv, StartWorker, Place, WorkerInv, Handled, Active
<1>4. UseInv'
  BY DEF McpInv, StartWorker, Place, UseInv
<1>5. BuiltInv'
  BY DEF McpInv, StartWorker, Place, BuiltInv, Handled
<1>6. OpenInv'
  BY McpAssumption DEF McpInv, StartWorker, OpenInv, LockInv, WorkerInv, Handled
<1>7. ServerInv'
  BY DEF McpInv, StartWorker, ServerInv
<1>8. QED BY <1>1, <1>2, <1>3, <1>4, <1>5, <1>6, <1>7 DEF McpInv

\* The current runtime is open.
LEMMA UseRuntimeKeeps == ASSUME McpInv, NEW c \in Calls, UseRuntime(c) PROVE McpInv'
<1>1. McpTypes'
  BY DEF McpInv, UseRuntime, Place, McpTypes
<1>2. LockInv'
  BY DEF McpInv, UseRuntime, LockInv, Handled
<1>3. WorkerInv'
  BY DEF McpInv, UseRuntime, Place, WorkerInv, McpTypes, Handled, Active
<1>4. UseInv'
  BY DEF McpInv, UseRuntime, Place, UseInv, McpTypes
<1>5. BuiltInv'
  BY DEF McpInv, UseRuntime, Place, BuiltInv, McpTypes, Handled
<1>6. OpenInv'
  BY McpAssumption DEF McpInv, UseRuntime, OpenInv, LockInv, WorkerInv, BuiltInv, Active
<1>7. ServerInv'
  BY DEF McpInv, UseRuntime, ServerInv
<1>8. QED BY <1>1, <1>2, <1>3, <1>4, <1>5, <1>6, <1>7 DEF McpInv

\* The thread gives its runtime back.
LEMMA FinishKeeps == ASSUME McpInv, NEW c \in Calls, Finish(c) PROVE McpInv'
<1>1. McpTypes'
  BY DEF McpInv, Finish, Place, McpTypes
<1>2. LockInv'
  BY DEF McpInv, Finish, LockInv, Handled
<1>3. WorkerInv'
  BY McpAssumption DEF McpInv, Finish, Place, WorkerInv, LockInv, McpTypes, Active
<1>4. UseInv'
  BY DEF McpInv, Finish, Place, UseInv, McpTypes
<1>5. BuiltInv'
  BY DEF McpInv, Finish, Place, BuiltInv, UseInv, Handled
<1>6. OpenInv'
  BY McpAssumption DEF McpInv, Finish, OpenInv, LockInv, WorkerInv, BuiltInv, Active
<1>7. ServerInv'
  BY DEF McpInv, Finish, ServerInv
<1>8. QED BY <1>1, <1>2, <1>3, <1>4, <1>5, <1>6, <1>7 DEF McpInv

\* The thread of a build goes on only if its event is not set.
LEMMA IndexEndsKeeps == ASSUME McpInv, NEW c \in Calls, IndexEnds(c) PROVE McpInv'
<1>1. McpTypes'
  BY DEF McpInv, IndexEnds, Place, McpTypes
<1>2. LockInv'
  BY DEF McpInv, IndexEnds, LockInv, Handled
<1>3. WorkerInv'
  BY DEF McpInv, IndexEnds, Place, WorkerInv, Handled, Active
<1>4. UseInv'
  BY DEF McpInv, IndexEnds, Place, UseInv
<1>5. BuiltInv'
  BY DEF McpInv, IndexEnds, Place, BuiltInv, Handled
<1>6. OpenInv'
  BY McpAssumption DEF McpInv, IndexEnds, OpenInv, LockInv, WorkerInv, BuiltInv, Active
<1>7. ServerInv'
  BY DEF McpInv, IndexEnds, ServerInv
<1>8. QED BY <1>1, <1>2, <1>3, <1>4, <1>5, <1>6, <1>7 DEF McpInv

\* The new runtime is its call's: nobody else knows it.
LEMMA BuildRuntimeKeeps == ASSUME McpInv, NEW c \in Calls, BuildRuntime(c) PROVE McpInv'
<1>1. McpTypes'
  BY DEF McpInv, BuildRuntime, Place, McpTypes, Runtimes
<1>2. LockInv'
  BY DEF McpInv, BuildRuntime, LockInv, Handled
<1>3. WorkerInv'
  BY DEF McpInv, BuildRuntime, Place, WorkerInv, McpTypes, Handled, Active
<1>4. UseInv'
  BY DEF McpInv, BuildRuntime, Place, UseInv, McpTypes
<1>5. BuiltInv'
  BY DEF McpInv, BuildRuntime, Place, BuiltInv, McpTypes, Handled
<1>6. OpenInv'
  BY McpAssumption DEF McpInv, BuildRuntime, Place, OpenInv, LockInv, WorkerInv, BuiltInv,
    McpTypes, Active
<1>7. ServerInv'
  BY DEF McpInv, BuildRuntime, ServerInv
<1>8. QED BY <1>1, <1>2, <1>3, <1>4, <1>5, <1>6, <1>7 DEF McpInv

\* A thread whose event is set closes what it built, which nobody uses.
LEMMA CheckStopKeeps == ASSUME McpInv, NEW c \in Calls, CheckStop(c) PROVE McpInv'
<1>1. McpTypes'
  BY DEF McpInv, CheckStop, Place, McpTypes
<1>2. LockInv'
  BY DEF McpInv, CheckStop, LockInv, Handled
<1>3. WorkerInv'
  BY DEF McpInv, CheckStop, Place, WorkerInv, McpTypes, Handled, Active
<1>4. UseInv'
  BY DEF McpInv, CheckStop, Place, UseInv, McpTypes
<1>5. BuiltInv'
  BY DEF McpInv, CheckStop, Place, BuiltInv, McpTypes, Handled
<1>6. OpenInv'
  BY McpAssumption DEF McpInv, CheckStop, OpenInv, LockInv, WorkerInv, BuiltInv, Handled, Active
<1>7. ServerInv'
  BY DEF McpInv, CheckStop, ServerInv
<1>8. QED BY <1>1, <1>2, <1>3, <1>4, <1>5, <1>6, <1>7 DEF McpInv

\* No call is handled: a thread that runs is the unverified one, and keeps the runtime.
LEMMA CloseServerKeeps == ASSUME McpInv, CloseServer PROVE McpInv'
<1>1. McpTypes'
  BY DEF McpInv, CloseServer, callVars, McpTypes
<1>2. LockInv'
  BY DEF McpInv, CloseServer, callVars, LockInv, Handled
<1>3. WorkerInv'
  BY DEF McpInv, CloseServer, callVars, WorkerInv, Handled, Active
<1>4. UseInv'
  BY McpAssumption DEF McpInv, CloseServer, CleanupPending, Stopped, callVars, WorkerInv,
    UseInv, ServerInv, Handled, Active
<1>5. BuiltInv'
  BY McpAssumption DEF McpInv, CloseServer, callVars, BuiltInv, Handled
<1>6. OpenInv'
  BY DEF McpInv, CloseServer, callVars, OpenInv, ServerInv, Handled, Active
<1>7. ServerInv'
  BY DEF McpInv, CloseServer, CleanupPending, callVars, ServerInv
<1>8. QED BY <1>1, <1>2, <1>3, <1>4, <1>5, <1>6, <1>7 DEF McpInv

\* The unverified thread is over, and with it the last use of the runtime.
LEMMA DrainedKeeps == ASSUME McpInv, Drained PROVE McpInv'
<1>1. McpTypes'
  BY DEF McpInv, Drained, callVars, McpTypes
<1>2. LockInv'
  BY DEF McpInv, Drained, callVars, LockInv, Handled
<1>3. WorkerInv'
  BY McpAssumption DEF McpInv, Drained, callVars, LockInv, WorkerInv, ServerInv, Active
<1>4. UseInv'
  BY McpAssumption DEF McpInv, Drained, Stopped, callVars, LockInv, WorkerInv, UseInv,
    ServerInv, Active
<1>5. BuiltInv'
  BY McpAssumption DEF McpInv, Drained, callVars, BuiltInv, Handled
<1>6. OpenInv'
  BY DEF McpInv, Drained, callVars, LockInv, OpenInv, ServerInv, Active
<1>7. ServerInv'
  BY DEF McpInv, Drained, callVars, ServerInv
<1>8. QED BY <1>1, <1>2, <1>3, <1>4, <1>5, <1>6, <1>7 DEF McpInv
-----------------------------------------------------------------------------

\* The server starts with one open runtime or none, and no call.
LEMMA McpInvInitially == McpInit => McpInv
<1> SUFFICES ASSUME McpInit PROVE McpInv
  OBVIOUS
<1>1. McpTypes
  BY McpAssumption DEF McpInit, McpTypes, Tools, Runtimes
<1>2. LockInv /\ WorkerInv /\ UseInv /\ ServerInv
  BY McpAssumption DEF McpInit, LockInv, WorkerInv, UseInv, ServerInv, Handled, Active
<1>3. BuiltInv /\ OpenInv
  BY McpAssumption DEF McpInit, BuiltInv, OpenInv, Handled, Active
<1>4. QED BY <1>1, <1>2, <1>3 DEF McpInv

\* Every step keeps the invariant.
LEMMA McpInvKept == McpInv /\ [McpNext]_mcpVars => McpInv'
<1> SUFFICES ASSUME McpInv, [McpNext]_mcpVars PROVE McpInv'
  OBVIOUS
<1>1. ASSUME NEW c \in Calls, Arrive(c) \/ LeaveQueue(c) \/ CancelCall(c) PROVE McpInv'
  BY <1>1, ArriveKeeps, LeaveQueueKeeps, CancelCallKeeps
<1>2. ASSUME NEW c \in Calls, LoopStep(c) PROVE McpInv'
  BY <1>2, AcquireKeeps, AnswerKeeps, CleanedUpKeeps, CleanupTimesOutKeeps DEF LoopStep
<1>3. ASSUME NEW c \in Calls, WorkerRuns(c) PROVE McpInv'
  BY <1>3, StartWorkerKeeps, UseRuntimeKeeps, FinishKeeps, IndexEndsKeeps, BuildRuntimeKeeps,
     CheckStopKeeps DEF WorkerRuns
<1>4. CASE CloseServer \/ Drained
  BY <1>4, CloseServerKeeps, DrainedKeeps
<1>5. CASE UNCHANGED mcpVars
  BY <1>5 DEF mcpVars, callVars, McpInv, McpTypes, LockInv, WorkerInv, UseInv, BuiltInv, OpenInv,
     ServerInv, Handled, Active
<1>6. QED BY <1>1, <1>2, <1>3, <1>4, <1>5 DEF McpNext

\* The invariant holds in every behavior of the server, whatever is cancelled.
THEOREM McpInvariant == McpSpec => []McpInv
<1>1. QED BY McpInvInitially, McpInvKept, PTL DEF McpSpec

\* Worker threads never overlap, an abandoned one included: one call is handled
\* at a time, and after an abandoned one none is (_require_healthy, server.py:258).
THEOREM OneWorkerAtATime == McpSpec => []WorkersExclude
<1>1. McpInv => WorkersExclude
  BY McpAssumption DEF McpInv, LockInv, WorkerInv, Handled, WorkersExclude
<1>2. QED BY <1>1, McpInvariant, PTL

\* No runtime is closed under its user: neither the exchange after a build, nor
\* the call that closes an unpublished one, nor the end of the server does it.
THEOREM NoUseAfterClose == McpSpec => []RuntimesInUse
<1>1. McpInv => RuntimesInUse
  BY McpAssumption DEF McpInv, UseInv, OpenInv, RuntimesInUse
<1>2. QED BY <1>1, McpInvariant, PTL

\* A runtime built for a call that failed or was cancelled is closed, whoever
\* of the call and its thread comes last.
THEOREM EveryRuntimeIsClosed == McpSpec => []NothingOpenLeft
<1>1. McpInv => NothingOpenLeft
  BY McpAssumption DEF McpInv, McpTypes, Runtimes, OpenInv, Handled, NothingOpenLeft
<1>2. QED BY <1>1, McpInvariant, PTL

-----------------------------------------------------------------------------
(* Telemetry: no event is lost silently, no long idle slot is missed.      *)

\* How many events the dispatcher has in hand.
InHand == IF dispatcher = "deciding" THEN 1 ELSE 0

\* Without a failure the events are those the observer has seen, the one in hand
\* and those in the queue, in order.
OrderInv ==
  /\ seen \in Seq(Nat) /\ queue \in Seq(Nat)
  /\ ~failed =>
       /\ sequence = Len(seen) + InHand + Len(queue)
       /\ \A i \in 1 .. Len(seen) : seen[i] = i
       /\ dispatcher = "deciding" => inHand = Len(seen) + 1
       /\ \A i \in 1 .. Len(queue) : queue[i] = Len(seen) + InHand + i

\* The dispatcher leaves an empty queue that nobody fills.
CloseInv ==
  /\ stopAsked <=> closing # "open"
  /\ dispatcher = "gone" => stopAsked /\ queue = <<>>
  /\ closing = "closed" /\ ~failed => dispatcher = "gone"

\* The gate measures what there is to measure, and the coordinator looks at it
\* once in every unit of time.
GateInv ==
  ChecksEnabled /\ ~failed =>
    \A s \in Slots :
      /\ idleFor[s] <= MaxIdle + 1
      /\ IF slot[s] # "active" /\ unscheduled > 0 /\ held < Held
         THEN /\ idleSince[s] \in Nat /\ idleFor[s] = now - idleSince[s]
              /\ polled => idleFor[s] <= MaxIdle
         ELSE idleSince[s] = NotIdle /\ idleFor[s] = 0

TelemetryInv == TelemetryTypes /\ OrderInv /\ CloseInv /\ GateInv

-----------------------------------------------------------------------------
(* Producers.                                                              *)

\* An event is queued in its order, or the failure shows.
LEMMA ProduceKeepsOrder ==
  ASSUME TelemetryInv, Produce
  PROVE  OrderInv' /\ CloseInv'
<1>1. CASE failed
  BY <1>1 DEF TelemetryInv, OrderInv, CloseInv, Produce, Enqueue, gateVars, dispatcherVars
<1>2. CASE ~failed
  <2>1. queue' = queue \/ queue' = Append(queue, sequence + 1)
    BY <1>2 DEF Produce, Enqueue
  <2>2. ~failed' => queue' = Append(queue, sequence + 1) /\ sequence' = sequence + 1
    BY <1>2 DEF Produce, Enqueue
  <2>3. UNCHANGED <<seen, dispatcher, inHand, stopAsked, closing>> /\ closing = "open"
    BY DEF Produce, dispatcherVars
  <2>4. seen \in Seq(Nat) /\ queue \in Seq(Nat) /\ sequence \in Nat
    BY DEF TelemetryInv, TelemetryTypes, OrderInv
  <2>5. queue' \in Seq(Nat)
    <3>1. CASE queue' = queue
      BY <2>4, <3>1
    <3>2. CASE queue' = Append(queue, sequence + 1)
      <4>1. sequence + 1 \in Nat
        BY <2>4
      <4>2. QED BY <2>4, <3>2, <4>1
    <3>3. QED BY <2>1, <3>1, <3>2
  <2>6. ASSUME ~failed'
        PROVE  /\ sequence' = Len(seen) + InHand + Len(queue')
               /\ \A i \in 1 .. Len(queue') : queue'[i] = Len(seen) + InHand + i
    <3>1. queue' = Append(queue, sequence + 1) /\ sequence' = sequence + 1
      BY <2>2, <2>6
    <3>2. /\ sequence = Len(seen) + InHand + Len(queue)
          /\ \A i \in 1 .. Len(queue) : queue[i] = Len(seen) + InHand + i
      BY <1>2 DEF TelemetryInv, OrderInv
    <3>3. InHand \in Nat
      BY DEF InHand
    <3>4. QED BY <2>4, <3>1, <3>2, <3>3
  <2>7. OrderInv'
    BY <1>2, <2>3, <2>4, <2>5, <2>6 DEF TelemetryInv, OrderInv, InHand
  <2>8. CloseInv'
    BY <2>3 DEF TelemetryInv, CloseInv
  <2>9. QED BY <2>7, <2>8
<1>3. QED BY <1>1, <1>2

\* The gate's interval starts, goes on and ends with the idleness of the slot.
LEMMA ProduceKeepsGate ==
  ASSUME TelemetryInv, Produce,
         slot' \in [Slots -> {"free", "assigned", "active"}]
  PROVE  GateInv'
<1> SUFFICES ASSUME ChecksEnabled', ~failed', NEW s \in Slots
    PROVE  /\ idleFor'[s] <= MaxIdle + 1
           /\ IF slot'[s] # "active" /\ unscheduled' > 0 /\ held' < Held
              THEN /\ idleSince'[s] \in Nat /\ idleFor'[s] = now' - idleSince'[s]
                   /\ polled' => idleFor'[s] <= MaxIdle
              ELSE idleSince'[s] = NotIdle /\ idleFor'[s] = 0
  BY DEF GateInv
<1>1. ChecksEnabled /\ ~failed /\ now' = now /\ polled' = polled
  <2>1. ChecksEnabled /\ now' = now /\ polled' = polled
    BY DEF Produce, ChecksEnabled
  <2>2. ~failed
    BY DEF Produce, Enqueue, gateVars
  <2>3. QED BY <2>1, <2>2
<1>2. idleSince' = [t \in Slots |-> ApplyIdle(t)]
  <2>1. ~IdleTooLong
    BY <1>1 DEF Produce, Enqueue
  <2>2. QED BY <1>1, <2>1 DEF Produce, Enqueue
<1>3. idleFor'[s] = IF slot'[s] = "active" \/ ~Actionable THEN 0 ELSE idleFor[s]
  BY DEF Produce, KeepIdleFor
<1>4. CASE slot'[s] = "active" \/ ~Actionable
  BY <1>2, <1>3, <1>4, TelemetryAssumption DEF ApplyIdle, Actionable
<1>5. CASE ~(slot'[s] = "active" \/ ~Actionable)
  <2>1. idleSince'[s] = IF idleSince[s] = NotIdle THEN now ELSE idleSince[s]
    BY <1>2, <1>5 DEF ApplyIdle
  <2>2. /\ idleFor[s] <= MaxIdle + 1
        /\ IF slot[s] # "active" /\ unscheduled > 0 /\ held < Held
           THEN /\ idleSince[s] \in Nat /\ idleFor[s] = now - idleSince[s]
                /\ polled => idleFor[s] <= MaxIdle
           ELSE idleSince[s] = NotIdle /\ idleFor[s] = 0
    BY <1>1 DEF TelemetryInv, GateInv
  <2>3. now \in Nat
    BY DEF TelemetryInv, TelemetryTypes
  <2>4. QED
    BY <1>1, <1>3, <1>5, <2>1, <2>2, <2>3, TelemetryAssumption DEF Actionable, NotIdle
<1>6. QED BY <1>4, <1>5

\* The types of what an event changes.
LEMMA ProduceKeepsTypes ==
  ASSUME TelemetryInv, Produce, unscheduled' \in Nat, held' \in 0 .. Held,
         slot' \in [Slots -> {"free", "assigned", "active"}]
  PROVE  TelemetryTypes'
<1>1. sequence' \in Nat /\ failed' \in BOOLEAN /\ Len(queue') <= QueueLimit
  <2>1. CASE failed
    BY <2>1 DEF TelemetryInv, TelemetryTypes, Produce, Enqueue, gateVars
  <2>2. CASE ~failed
    <3>1. sequence' = sequence + 1 /\ sequence \in Nat /\ queue \in Seq(Nat)
      BY <2>2 DEF TelemetryInv, TelemetryTypes, OrderInv, Produce, Enqueue
    <3>2. failed' \in BOOLEAN
      BY <2>2 DEF Produce, Enqueue
    <3>3. \/ queue' = queue
          \/ queue' = Append(queue, sequence') /\ ~(Len(queue) >= QueueLimit)
      BY <2>2 DEF Produce, Enqueue
    <3>4. Len(queue') <= QueueLimit
      BY <3>1, <3>3, TelemetryAssumption DEF TelemetryInv, TelemetryTypes
    <3>5. QED BY <3>1, <3>2, <3>4
  <2>3. QED BY <2>1, <2>2
<1>2. idleSince' \in [Slots -> Int]
  <2>1. now \in Nat /\ idleSince \in [Slots -> Int]
    BY DEF TelemetryInv, TelemetryTypes
  <2>2. idleSince' = idleSince \/ idleSince' = [s \in Slots |-> ApplyIdle(s)]
    BY DEF Produce, Enqueue, gateVars
  <2>3. \A s \in Slots : ApplyIdle(s) \in Int
    BY <2>1 DEF ApplyIdle, NotIdle
  <2>4. QED BY <2>1, <2>2, <2>3
<1>3. idleFor' \in [Slots -> Nat]
  BY DEF TelemetryInv, TelemetryTypes, Produce, KeepIdleFor
<1>4. QED
  BY <1>1, <1>2, <1>3, TelemetryAssumption
     DEF TelemetryInv, TelemetryTypes, Produce, dispatcherVars

\* Every event of a producer keeps the invariant.
LEMMA ProducersKeep == ASSUME TelemetryInv, ProducerStep PROVE TelemetryInv'
<1>1. Produce
  BY DEF ProducerStep, Schedule, SlotStarts, SlotFinishes, ReleaseRegistry
<1>2. slot' \in [Slots -> {"free", "assigned", "active"}]
  BY DEF TelemetryInv, TelemetryTypes, ProducerStep, Schedule, SlotStarts, SlotFinishes,
         ReleaseRegistry
<1>3. unscheduled' \in Nat /\ held' \in 0 .. Held
  <2>1. unscheduled \in Nat /\ held \in 0 .. Held /\ Held \in Nat
    BY TelemetryAssumption DEF TelemetryInv, TelemetryTypes
  <2>2. ASSUME NEW s \in Slots, Schedule(s) \/ SlotStarts(s) \/ SlotFinishes(s)
        PROVE  unscheduled' \in Nat /\ held' \in 0 .. Held
    BY <2>1, <2>2 DEF Schedule, SlotStarts, SlotFinishes
  <2>3. CASE ReleaseRegistry
    <3> DEFINE Taken == {s \in Slots : slot[s] # "free"}
    <3>1. IsFiniteSet(Taken)
      BY TelemetryAssumption, FS_Subset
    <3>2. Cardinality(Taken) \in Nat
      BY <3>1, FS_CardinalityType
    <3>3. held > Cardinality(Taken) /\ held' = held - 1 /\ unscheduled' = unscheduled
      BY <2>3 DEF ReleaseRegistry
    <3> HIDE DEF Taken
    <3>4. QED BY <2>1, <3>2, <3>3
  <2>4. QED BY <2>2, <2>3 DEF ProducerStep
<1>4. QED
  BY <1>1, <1>2, <1>3, ProduceKeepsOrder, ProduceKeepsGate, ProduceKeepsTypes DEF TelemetryInv

-----------------------------------------------------------------------------
(* The coordinator's look, cancellation and time.                          *)

\* A look that finds no failure has found every interval short enough.
LEMMA ReadFailureKeeps == ASSUME TelemetryInv, ReadFailure PROVE TelemetryInv'
<1>1. TelemetryTypes'
  BY DEF TelemetryInv, TelemetryTypes, ReadFailure, FailureRead, schedulerVars, dispatcherVars
<1>2. OrderInv' /\ CloseInv'
  BY DEF TelemetryInv, OrderInv, CloseInv, InHand, ReadFailure, FailureRead, dispatcherVars
<1>3. GateInv'
  <2> SUFFICES ASSUME ChecksEnabled', ~failed', NEW s \in Slots
      PROVE  /\ idleFor[s] <= MaxIdle + 1
             /\ IF slot[s] # "active" /\ unscheduled > 0 /\ held < Held
                THEN /\ idleSince[s] \in Nat /\ idleFor[s] = now - idleSince[s]
                     /\ idleFor[s] <= MaxIdle
                ELSE idleSince[s] = NotIdle /\ idleFor[s] = 0
    BY DEF GateInv, ReadFailure, schedulerVars
  <2>1. ChecksEnabled
    BY DEF ReadFailure, ChecksEnabled
  <2>2. ~failed /\ ~IdleTooLong
    BY <2>1 DEF ReadFailure, FailureRead
  <2>3. idleSince[s] \in Nat => now - idleSince[s] <= MaxIdle
    <3>1. now \in Nat /\ MaxIdle \in Nat
      BY TelemetryAssumption DEF TelemetryInv, TelemetryTypes
    <3>2. idleSince[s] = NotIdle \/ ~(now - idleSince[s] > MaxIdle)
      BY <2>2 DEF IdleTooLong
    <3>3. QED BY <3>1, <3>2 DEF NotIdle
  <2>4. QED BY <2>1, <2>2, <2>3 DEF TelemetryInv, GateInv
<1>4. QED BY <1>1, <1>2, <1>3 DEF TelemetryInv

\* After a cancellation the gate is off.
LEMMA CancelKeeps == ASSUME TelemetryInv, CancelPipeline PROVE TelemetryInv'
<1>1. TelemetryTypes'
  BY DEF TelemetryInv, TelemetryTypes, CancelPipeline, schedulerVars, gateVars, dispatcherVars
<1>2. OrderInv' /\ CloseInv' /\ GateInv'
  BY DEF TelemetryInv, OrderInv, CloseInv, GateInv, ChecksEnabled, InHand, CancelPipeline,
         gateVars, dispatcherVars
<1>3. QED BY <1>1, <1>2 DEF TelemetryInv

\* A unit of time passes after a look, so no interval was too long.
LEMMA TickKeeps == ASSUME TelemetryInv, Tick PROVE TelemetryInv'
<1>1. TelemetryTypes'
  <2>1. now' \in Nat /\ polled' \in BOOLEAN /\ idleFor' \in [Slots -> Nat]
    <3>1. now \in Nat /\ idleFor \in [Slots -> Nat]
      BY DEF TelemetryInv, TelemetryTypes
    <3>2. now' \in Nat
      BY <3>1 DEF Tick
    <3>3. polled' \in BOOLEAN
      BY Zenon DEF Tick
    <3>4. idleFor' \in [Slots -> Nat]
      BY <3>1 DEF Tick
    <3>5. QED BY <3>2, <3>3, <3>4
  <2>2. UNCHANGED <<unscheduled, held, slot, cancelFlag, sequence, queue, failed, idleSince,
                    stopAsked, dispatcher, inHand, closing>>
    BY DEF Tick, schedulerVars, gateVars, dispatcherVars
  <2>3. QED BY <2>1, <2>2 DEF TelemetryInv, TelemetryTypes
<1>2. OrderInv' /\ CloseInv'
  BY DEF TelemetryInv, OrderInv, CloseInv, InHand, Tick, gateVars, dispatcherVars
<1>3. GateInv'
  <2>1. /\ UNCHANGED <<unscheduled, held, slot, cancelFlag, stopAsked, failed, idleSince, closing>>
        /\ now' = now + 1 /\ polled' = FALSE /\ (polled \/ closing # "open")
    BY DEF Tick, schedulerVars, gateVars
  <2>2. idleFor' = [s \in Slots |->
           IF slot[s] # "active" /\ unscheduled > 0 /\ held < Held THEN idleFor[s] + 1 ELSE 0]
    BY DEF Tick
  <2> SUFFICES ASSUME ChecksEnabled', ~failed', NEW s \in Slots
      PROVE  /\ idleFor'[s] <= MaxIdle + 1
             /\ IF slot[s] # "active" /\ unscheduled > 0 /\ held < Held
                THEN idleSince[s] \in Nat /\ idleFor'[s] = now' - idleSince[s]
                ELSE idleSince[s] = NotIdle /\ idleFor'[s] = 0
    BY <2>1 DEF GateInv
  <2>3. ChecksEnabled /\ ~failed /\ polled
    BY <2>1 DEF ChecksEnabled, TelemetryInv, CloseInv
  <2>4. now \in Nat /\ MaxIdle \in Nat
    BY TelemetryAssumption DEF TelemetryInv, TelemetryTypes
  <2>5. /\ idleFor[s] <= MaxIdle + 1
        /\ IF slot[s] # "active" /\ unscheduled > 0 /\ held < Held
           THEN /\ idleSince[s] \in Nat /\ idleFor[s] = now - idleSince[s]
                /\ idleFor[s] <= MaxIdle
           ELSE idleSince[s] = NotIdle /\ idleFor[s] = 0
    BY <2>3 DEF TelemetryInv, GateInv
  <2>6. CASE slot[s] # "active" /\ unscheduled > 0 /\ held < Held
    BY <2>1, <2>2, <2>4, <2>5, <2>6
  <2>7. CASE ~(slot[s] # "active" /\ unscheduled > 0 /\ held < Held)
    BY <2>2, <2>4, <2>5, <2>7
  <2>8. QED BY <2>6, <2>7
<1>4. QED BY <1>1, <1>2, <1>3 DEF TelemetryInv

-----------------------------------------------------------------------------
(* The dispatcher, and close.                                              *)

\* These steps leave the scheduler, the clock and the gate alone.
LEMMA GateKept ==
  ASSUME TelemetryInv, UNCHANGED <<now, schedulerVars, polled, idleSince, idleFor>>,
         failed => failed', ChecksEnabled' => ChecksEnabled
  PROVE  GateInv'
BY DEF TelemetryInv, GateInv, schedulerVars

\* Nobody fills the queue once the dispatcher may leave.
LEMMA LeavesKeeps == ASSUME TelemetryInv, DispatcherLeaves PROVE TelemetryInv'
<1>1. TelemetryTypes' /\ OrderInv' /\ CloseInv'
  BY DEF TelemetryInv, TelemetryTypes, OrderInv, CloseInv, InHand, DispatcherLeaves, MayLeave,
         schedulerVars, gateVars
<1>2. GateInv'
  BY GateKept DEF DispatcherLeaves, gateVars, ChecksEnabled
<1>3. QED BY <1>1, <1>2 DEF TelemetryInv

\* The first event of the queue is the next one.
LEMMA TakeKeeps == ASSUME TelemetryInv, Take PROVE TelemetryInv'
<1>1. queue \in Seq(Nat) /\ queue # <<>>
  BY DEF TelemetryInv, OrderInv, Take
<1>2. TelemetryTypes'
  <2>1. inHand' \in Nat /\ Len(queue') <= QueueLimit
    <3>1. inHand' = Head(queue) /\ queue' = Tail(queue)
      BY DEF Take
    <3>2. Head(queue) \in Nat /\ Len(Tail(queue)) = Len(queue) - 1 /\ Len(queue) \in Nat
      BY <1>1
    <3>3. Len(queue) <= QueueLimit /\ QueueLimit \in Nat
      BY TelemetryAssumption DEF TelemetryAssumption, TelemetryInv, TelemetryTypes
    <3>4. QED BY <3>1, <3>2, <3>3
  <2>2. /\ dispatcher' = "deciding"
        /\ UNCHANGED <<now, unscheduled, held, slot, cancelFlag, polled, sequence, failed,
                       stopAsked, idleSince, closing, idleFor>>
    BY DEF Take, schedulerVars
  <2>3. QED BY <2>1, <2>2 DEF TelemetryInv, TelemetryTypes
<1>3. OrderInv' /\ CloseInv'
  BY <1>1 DEF TelemetryInv, TelemetryTypes, OrderInv, CloseInv, InHand, Take
<1>4. GateInv'
  BY GateKept DEF Take, ChecksEnabled
<1>5. QED BY <1>2, <1>3, <1>4 DEF TelemetryInv

\* The dispatcher looks at the gate while the queue is empty.
LEMMA TimeOutKeeps == ASSUME TelemetryInv, TakeTimesOut PROVE TelemetryInv'
<1>1. TelemetryTypes' /\ OrderInv' /\ CloseInv'
  BY DEF TelemetryInv, TelemetryTypes, OrderInv, CloseInv, InHand, TakeTimesOut, FailureRead,
         schedulerVars, dispatcherVars
<1>2. GateInv'
  BY GateKept DEF TakeTimesOut, FailureRead, ChecksEnabled
<1>3. QED BY <1>1, <1>2 DEF TelemetryInv

\* The observer sees the event in hand next, or there is a failure.
LEMMA DecideKeeps == ASSUME TelemetryInv, Decide PROVE TelemetryInv'
<1>1. TelemetryTypes'
  BY DEF TelemetryInv, TelemetryTypes, Decide, FailureRead, schedulerVars
<1>2. OrderInv' /\ CloseInv'
  <2>1. seen \in Seq(Nat) /\ inHand \in Nat /\ failed \in BOOLEAN
    BY DEF TelemetryInv, TelemetryTypes, OrderInv
  <2>2. CASE FailureRead
    BY <2>2 DEF TelemetryInv, OrderInv, CloseInv, Decide
  <2>3. CASE ~FailureRead
    <3>1. /\ ~failed /\ dispatcher = "deciding" /\ dispatcher' = "observing"
          /\ seen' = Append(seen, inHand)
      BY <2>3 DEF Decide, FailureRead
    <3>2. UNCHANGED <<sequence, queue, stopAsked, closing>>
      BY DEF Decide
    <3>3. inHand = Len(seen) + 1 /\ sequence = Len(seen) + 1 + Len(queue)
      BY <3>1 DEF TelemetryInv, OrderInv, InHand
    <3>4. \A i \in 1 .. Len(seen') : seen'[i] = i
      BY <2>1, <3>1, <3>3 DEF TelemetryInv, OrderInv
    <3>5. \A i \in 1 .. Len(queue') : queue'[i] = Len(seen') + i
      BY <2>1, <3>1, <3>2 DEF TelemetryInv, OrderInv, InHand
    <3>6. OrderInv'
      BY <2>1, <3>1, <3>2, <3>3, <3>4, <3>5 DEF TelemetryInv, OrderInv, InHand
    <3>7. CloseInv'
      BY <3>1, <3>2 DEF TelemetryInv, CloseInv
    <3>8. QED BY <3>6, <3>7
  <2>4. QED BY <2>2, <2>3
<1>3. GateInv'
  BY GateKept DEF Decide, FailureRead, ChecksEnabled
<1>4. QED BY <1>1, <1>2, <1>3 DEF TelemetryInv

\* The observer returns or raises.
LEMMA ObservedKeeps == ASSUME TelemetryInv, Observed PROVE TelemetryInv'
<1>1. TelemetryTypes' /\ OrderInv' /\ CloseInv'
  BY DEF TelemetryInv, TelemetryTypes, OrderInv, CloseInv, InHand, Observed, schedulerVars
<1>2. GateInv'
  BY GateKept DEF Observed, ChecksEnabled
<1>3. QED BY <1>1, <1>2 DEF TelemetryInv

\* From close on there is no producer, and the gate is off.
LEMMA CloseKeeps == ASSUME TelemetryInv, CloseTelemetry \/ DispatcherJoined PROVE TelemetryInv'
<1>1. TelemetryTypes'
  BY DEF TelemetryInv, TelemetryTypes, CloseTelemetry, DispatcherJoined, schedulerVars, gateVars,
         dispatcherVars
<1>2. OrderInv' /\ CloseInv'
  BY DEF TelemetryInv, TelemetryTypes, OrderInv, CloseInv, InHand, CloseTelemetry,
         DispatcherJoined, gateVars, dispatcherVars
<1>3. GateInv'
  <2>1. CASE CloseTelemetry
    BY <2>1, GateKept DEF CloseTelemetry, gateVars, ChecksEnabled
  <2>2. CASE DispatcherJoined
    <3>1. failed => failed'
      BY <2>2 DEF DispatcherJoined
    <3>2. UNCHANGED <<now, schedulerVars, polled, idleSince, idleFor, stopAsked, cancelFlag>>
      BY <2>2 DEF DispatcherJoined
    <3>3. QED BY <3>1, <3>2, GateKept DEF ChecksEnabled
  <2>3. QED BY <2>1, <2>2
<1>4. QED BY <1>1, <1>2, <1>3 DEF TelemetryInv

-----------------------------------------------------------------------------

\* The constructor's event is the first.
LEMMA TelemetryInvInitially == TelemetryInit => TelemetryInv
<1> SUFFICES ASSUME TelemetryInit PROVE TelemetryInv
  OBVIOUS
<1>1. TelemetryTypes
  <2>1. {now, unscheduled, held, sequence, inHand} \subseteq Nat /\ held <= Held
    BY TelemetryAssumption DEF TelemetryInit
  <2>2. Len(queue) <= QueueLimit
    BY TelemetryAssumption DEF TelemetryInit
  <2>3. /\ slot \in [Slots -> {"free", "assigned", "active"}]
        /\ idleSince \in [Slots -> Int] /\ idleFor \in [Slots -> Nat]
    BY DEF TelemetryInit
  <2>4. {cancelFlag, polled, failed, stopAsked} \subseteq BOOLEAN
    BY DEF TelemetryInit
  <2>5. QED BY <2>1, <2>2, <2>3, <2>4 DEF TelemetryInit, TelemetryTypes
<1>2. OrderInv /\ CloseInv
  BY DEF TelemetryInit, OrderInv, CloseInv, InHand
<1>3. GateInv
  BY TelemetryAssumption DEF TelemetryInit, GateInv
<1>4. QED BY <1>1, <1>2, <1>3 DEF TelemetryInv

\* Every step keeps the invariant.
LEMMA TelemetryInvKept == TelemetryInv /\ [TelemetryNext]_telemetryVars => TelemetryInv'
<1> SUFFICES ASSUME TelemetryInv, [TelemetryNext]_telemetryVars PROVE TelemetryInv'
  OBVIOUS
<1>1. CASE TelemetryNext
  BY <1>1, ProducersKeep, ReadFailureKeeps, CancelKeeps, TickKeeps, LeavesKeeps, TakeKeeps,
     TimeOutKeeps, DecideKeeps, ObservedKeeps, CloseKeeps DEF TelemetryNext
<1>2. CASE UNCHANGED telemetryVars
  BY <1>2 DEF telemetryVars, TelemetryInv, TelemetryTypes, OrderInv, CloseInv, GateInv, InHand,
     ChecksEnabled
<1>3. QED BY <1>1, <1>2

\* The invariant holds in every behavior of the dispatcher and its producers.
THEOREM TelemetryInvariant == TelemetrySpec => []TelemetryInv
<1>1. QED BY TelemetryInvInitially, TelemetryInvKept, PTL DEF TelemetrySpec

\* Telemetry that closes without a failure has handed every event to the observer,
\* once and in order (_TelemetryDispatcher.close, native.py:1076).
THEOREM EventsAreDelivered == TelemetrySpec => []DeliveredWhole
<1>1. TelemetryInv => DeliveredWhole
  <2> SUFFICES ASSUME TelemetryInv, closing = "closed", ~failed
      PROVE  seen = [i \in 1 .. sequence |-> i]
    BY DEF TelemetryInv, DeliveredWhole
  <2>1. dispatcher = "gone" /\ queue = <<>>
    BY DEF TelemetryInv, CloseInv
  <2>2. seen \in Seq(Nat) /\ sequence = Len(seen) /\ \A i \in 1 .. Len(seen) : seen[i] = i
    BY <2>1 DEF TelemetryInv, OrderInv, InHand
  <2>3. QED BY <2>2
<1>2. QED BY <1>1, TelemetryInvariant, PTL

\* While the gate is on, no slot is idle for more than one look beyond the limit
\* although a unit waits and a registry is free (_measure_idle, telemetry.py:263).
THEOREM IdleSlotsAreNoticed == TelemetrySpec => []LongIdleIsNoticed
<1>1. TelemetryInv => LongIdleIsNoticed
  BY DEF TelemetryInv, GateInv, LongIdleIsNoticed
<1>2. QED BY <1>1, TelemetryInvariant, PTL

-----------------------------------------------------------------------------
(* AnalyzerClient: what a run that succeeds has read and handed on, and    *)
(* what a run leaves behind.                                               *)

\* Before the process there is nothing, and a caller that waits has a process.
StartInv ==
  /\ caller = "starting" => process = "none"
  /\ caller \in {"polling", "reaping", "joining"} => process # "none"
  /\ process = "none" => descendant = "none" /\ written = <<>> /\ ThreadsDone

\* The signal at the end of the reaping leaves no process of the group, and an
\* unfinished thread is told.
EndInv ==
  /\ caller \in {"joining", "ended"} => process # "running" /\ descendant # "grouped"
  /\ caller = "ended" => ThreadsDone \/ outcome \in {"cleanup", "interrupted"}

\* A reader that ends without a complaint has read everything there will be.
ReadInv ==
  process # "none" /\ readerDone /\ failures = <<>> =>
    process = "exited" /\ consumed = Len(written)

\* What the response has accepted: the records read so far, the facts among them
\* handed on in order.  Body is the place of the last of them.
Body == IF response = "complete" THEN consumed - 1 ELSE consumed

OpenedInv ==
  /\ response = "hello" => consumed = 0 /\ delivered = <<>>
  /\ response = "begin" => consumed = 1 /\ delivered = <<>> /\ written[1] = "hello"
  /\ response \in {"facts", "chunk", "complete"} =>
       consumed >= 2 /\ Body >= 2 /\ written[1] = "hello" /\ written[2] = "begin"

BodyInv ==
  response \in {"facts", "chunk", "complete"} =>
    /\ \A i \in 3 .. Body : written[i] \in {"fact", "symbol", "chunk"}
    /\ \A i \in 3 .. Body - 1 : written[i] = "symbol" <=> written[i + 1] = "chunk"
    /\ response = "chunk" <=> written[Body] = "symbol"
    /\ response = "complete" => written[consumed] = "complete"
    /\ Len(delivered) = Body - 2
    /\ \A i \in 1 .. Len(delivered) : delivered[i] = written[i + 2]

ResponseInv == failures = <<>> => OpenedInv /\ BodyInv

\* What is told last is what the caller saw.
ToldInv ==
  outcome = "success" =>
    /\ caller = "ended" /\ ThreadsDone /\ failures = <<>> /\ exitCode = 0
    /\ response = "complete" /\ process = "exited"

ClientInv == ClientTypes /\ StartInv /\ EndInv /\ ReadInv /\ ResponseInv /\ ToldInv

-----------------------------------------------------------------------------
(* Types, and what the helpers of the model return.                        *)

States == {"hello", "begin", "facts", "chunk", "complete"}
Outcomes == {"none", "success", "cancelled", "timeout", "interrupted", "cleanup", "limit",
             "protocol", "unavailable"}

\* The record that a state accepts, and the state it leads to (_analyze_stream, accept).
LEMMA AcceptedCases ==
  ASSUME NEW state \in States, NEW record \in Records, Accepted(state, record) # "error"
  PROVE  \/ state = "hello" /\ record = "hello" /\ Accepted(state, record) = "begin"
         \/ state = "begin" /\ record = "begin" /\ Accepted(state, record) = "facts"
         \/ state = "facts" /\ record = "fact" /\ Accepted(state, record) = "facts"
         \/ state = "facts" /\ record = "symbol" /\ Accepted(state, record) = "chunk"
         \/ state = "chunk" /\ record = "chunk" /\ Accepted(state, record) = "facts"
         \/ state = "facts" /\ record = "complete" /\ Accepted(state, record) = "complete"
BY DEF States, Records, Accepted

\* What the caller can be told, and when it is told of success.
LEMMA JudgedCases ==
  ASSUME ClientTypes
  PROVE  /\ Judged \in Outcomes
         /\ Judged = "success" =>
              ThreadsDone /\ failures = <<>> /\ exitCode = 0 /\ response = "complete"
         /\ ~ThreadsDone => Judged \in {"cleanup", "interrupted"}
<1>1. whyStopped \in {"none", "cancelled", "timeout", "interrupted"}
  BY DEF ClientTypes
<1>2. CASE whyStopped = "interrupted"
  BY <1>2 DEF Judged, Outcomes
<1>3. CASE whyStopped # "interrupted" /\ ~ThreadsDone
  BY <1>3 DEF Judged, Outcomes
<1>4. CASE whyStopped \in {"cancelled", "timeout"} /\ ThreadsDone
  BY <1>4 DEF Judged, Outcomes
<1>5. CASE whyStopped = "none" /\ ThreadsDone /\ failures # <<>>
  BY <1>5 DEF Judged, Outcomes
<1>6. CASE whyStopped = "none" /\ ThreadsDone /\ failures = <<>>
  BY <1>6 DEF Judged, Outcomes
<1>7. QED BY <1>1, <1>2, <1>3, <1>4, <1>5, <1>6

\* The types that are flags.
Flags ==
  /\ writerDone \in BOOLEAN /\ readerDone \in BOOLEAN /\ diagnosticsDone \in BOOLEAN
  /\ cancelAsked \in BOOLEAN /\ late \in BOOLEAN /\ cleanupOver \in BOOLEAN

LEMMA FlagTypes ==
  Flags <=> {writerDone, readerDone, diagnosticsDone, cancelAsked, late, cleanupOver}
              \subseteq BOOLEAN
BY Zenon DEF Flags

\* The signal, and what a reader's failure adds.
LEMMA KillTypes ==
  ASSUME ClientTypes, Kill
  PROVE  /\ process' \in {"none", "running", "dying", "exited"} /\ process' # "running"
         /\ descendant' \in {"none", "grouped", "detached"} /\ descendant' # "grouped"
         /\ process' = "none" <=> process = "none"
         /\ process' = "exited" <=> process = "exited"
         /\ descendant = "none" => descendant' = "none"
BY DEF ClientTypes, Kill

LEMMA FailTypes ==
  ASSUME ClientTypes, NEW error \in {"limit", "protocol"}, Fail(error)
  PROVE  failures' \in Seq({"limit", "protocol"}) /\ failures' # <<>> /\ Kill
BY DEF ClientTypes, Fail

\* What a step of a reading or writing thread may change.
LEMMA ReadRecordCases ==
  ASSUME ClientTypes, ReadRecord
  PROVE  /\ consumed < Len(written) /\ consumed' = consumed + 1 /\ written' = written
         /\ written[consumed'] \in Records /\ ~readerDone
         /\ \/ /\ readerDone' = TRUE /\ Kill
               /\ failures' \in Seq({"limit", "protocol"}) /\ failures' # <<>>
               /\ UNCHANGED <<response, delivered>>
            \/ /\ Accepted(response, written[consumed']) # "error"
               /\ response' = Accepted(response, written[consumed'])
               /\ delivered' = IF written[consumed'] \in {"fact", "symbol", "chunk"}
                               THEN Append(delivered, written[consumed']) ELSE delivered
               /\ UNCHANGED <<process, descendant, readerDone, failures>>
<1>1. /\ consumed < Len(written) /\ consumed' = consumed + 1 /\ written' = written /\ ~readerDone
  BY DEF ReadRecord
<1>2. written[consumed'] \in Records
  BY <1>1 DEF ClientTypes
<1> DEFINE record == written[consumed']
<1>3. CASE Accepted(response, record) = "error"
  <2>1. /\ readerDone' = TRUE /\ UNCHANGED <<response, delivered>>
        /\ Fail("limit") \/ Fail("protocol")
    BY <1>3 DEF ReadRecord
  <2>2. QED BY <1>1, <1>2, <2>1, FailTypes
<1>4. CASE Accepted(response, record) # "error"
  BY <1>1, <1>2, <1>4 DEF ReadRecord
<1>5. QED BY <1>3, <1>4

LEMMA InitTypes == ClientInit => ClientTypes
<1> SUFFICES ASSUME ClientInit PROVE ClientTypes
  OBVIOUS
<1>1. Flags
  BY Zenon DEF ClientInit, Flags
<1>2. {writerDone, readerDone, diagnosticsDone, cancelAsked, late, cleanupOver} \subseteq BOOLEAN
  BY <1>1, FlagTypes
<1>3. /\ written \in Seq(Records) /\ delivered \in Seq(Records)
      /\ failures \in Seq({"limit", "protocol"}) /\ consumed \in 0 .. Len(written)
  BY DEF ClientInit
<1>4. QED BY <1>2, <1>3 DEF ClientInit, ClientTypes

LEMMA NextTypes == ClientTypes /\ [ClientNext]_clientVars => ClientTypes'
<1> SUFFICES ASSUME ClientTypes, [ClientNext]_clientVars PROVE ClientTypes'
  OBVIOUS
<1>0. Flags
  BY FlagTypes DEF ClientTypes
<1>1. Flags'
  <2>1. CASE CallerStep
    BY <1>0, <2>1, Zenon DEF Flags, CallerStep, CannotStart, StartProcess, PollEnds, Reap,
       JoinThreads, threadVars, clockVars
  <2>2. CASE ThreadsStep
    BY <1>0, <2>2, Zenon DEF Flags, ThreadsStep, ReadRecord, ReadEnd, ReadDiagnostics, WriteEnds,
       clockVars
  <2>3. CASE WriteRecord \/ Fork \/ Exit \/ DescendantEnds \/ UNCHANGED clientVars
    BY <1>0, <2>3, Zenon DEF Flags, WriteRecord, Fork, Exit, DescendantEnds, clientVars, threadVars,
       clockVars
  <2>4. CASE AskCancel \/ DeadlinePasses \/ CleanupTimePasses
    BY <1>0, <2>4, Zenon DEF Flags, AskCancel, DeadlinePasses, CleanupTimePasses, threadVars
  <2>5. QED BY <2>1, <2>2, <2>3, <2>4 DEF ClientNext
<1>2. {writerDone, readerDone, diagnosticsDone, cancelAsked, late, cleanupOver}' \subseteq BOOLEAN
  <2>1. {writerDone', readerDone', diagnosticsDone', cancelAsked', late', cleanupOver'} \subseteq BOOLEAN
    BY <1>1, Zenon DEF Flags
  <2>2. QED BY <2>1
<1>3. CASE WriteRecord
  <2>1. /\ written' \in Seq(Records) /\ Len(written') = Len(written) + 1
        /\ UNCHANGED <<process, exitCode, descendant, threadVars, caller, whyStopped, outcome>>
    BY <1>3 DEF ClientTypes, WriteRecord
  <2>2. QED BY <1>2, <2>1 DEF ClientTypes, threadVars
<1>4. CASE Fork \/ Exit \/ DescendantEnds
  BY <1>2, <1>4 DEF ClientTypes, Fork, Exit, DescendantEnds, threadVars
<1>5. CASE ReadRecord
  <2>1. consumed' \in 0 .. Len(written) /\ written' = written
    <3>1. written \in Seq(Records) /\ consumed \in 0 .. Len(written)
      BY DEF ClientTypes
    <3>2. Len(written) \in Nat
      BY <3>1
    <3>3. consumed < Len(written) /\ consumed' = consumed + 1 /\ written' = written
      BY <1>5, ReadRecordCases
    <3>4. QED BY <3>1, <3>2, <3>3
  <2>2. /\ process' \in {"none", "running", "dying", "exited"}
        /\ descendant' \in {"none", "grouped", "detached"}
        /\ failures' \in Seq({"limit", "protocol"}) /\ response' \in States
        /\ delivered' \in Seq(Records)
    <3>1. CASE /\ Kill /\ failures' \in Seq({"limit", "protocol"})
               /\ UNCHANGED <<response, delivered>>
      BY <3>1, KillTypes DEF ClientTypes, States
    <3>2. CASE /\ Accepted(response, written[consumed']) # "error"
               /\ response' = Accepted(response, written[consumed'])
               /\ delivered' = IF written[consumed'] \in {"fact", "symbol", "chunk"}
                               THEN Append(delivered, written[consumed']) ELSE delivered
               /\ UNCHANGED <<process, descendant, readerDone, failures>>
      <4>1. response \in States /\ written[consumed'] \in Records
        BY <1>5, ReadRecordCases DEF ClientTypes, States
      <4>2. Accepted(response, written[consumed']) \in States
        BY <3>2, <4>1, AcceptedCases DEF States
      <4>3. delivered' \in Seq(Records)
        BY <3>2, <4>1 DEF ClientTypes
      <4>4. QED BY <3>2, <4>2, <4>3 DEF ClientTypes
    <3>3. QED BY <1>5, <3>1, <3>2, ReadRecordCases
  <2>3. UNCHANGED <<exitCode, caller, whyStopped, outcome>>
    BY <1>5 DEF ReadRecord
  <2>4. QED BY <1>2, <2>1, <2>2, <2>3 DEF ClientTypes, States
<1>6. CASE ReadEnd \/ ReadDiagnostics
  <2>1. /\ UNCHANGED <<exitCode, written, consumed, response, delivered, caller, whyStopped, outcome>>
        /\ \/ UNCHANGED <<failures, process, descendant>>
           \/ Fail("protocol") \/ Fail("limit")
    BY <1>6 DEF ReadEnd, ReadDiagnostics
  <2>2. QED BY <1>2, <2>1, FailTypes, KillTypes DEF ClientTypes
<1>7. CASE WriteEnds \/ AskCancel \/ DeadlinePasses \/ CleanupTimePasses \/ UNCHANGED clientVars
  BY <1>2, <1>7 DEF ClientTypes, WriteEnds, AskCancel, DeadlinePasses, CleanupTimePasses, clientVars,
     processVars, threadVars
<1>8. CASE CannotStart
  BY <1>2, <1>8 DEF ClientTypes, CannotStart, ReturnWith, processVars, threadVars
<1>9. CASE StartProcess
  BY <1>2, <1>9 DEF ClientTypes, StartProcess
<1>10. CASE PollEnds
  <2>1. /\ caller' = "reaping" /\ UNCHANGED <<exitCode, written, threadVars, outcome>>
        /\ whyStopped' \in {"none", "cancelled", "timeout", "interrupted"}
        /\ UNCHANGED <<process, descendant>> \/ Kill
    BY <1>10 DEF ClientTypes, PollEnds
  <2>2. QED BY <1>2, <2>1, KillTypes DEF ClientTypes, threadVars
<1>11. CASE Reap
  <2>1. caller' = "joining" /\ Kill /\ UNCHANGED <<exitCode, written, threadVars, whyStopped, outcome>>
    BY <1>11 DEF Reap
  <2>2. QED BY <1>2, <2>1, KillTypes DEF ClientTypes, threadVars
<1>12. CASE JoinThreads
  <2>1. /\ caller' = "ended" /\ outcome' = Judged
        /\ UNCHANGED <<exitCode, written, threadVars, whyStopped>>
        /\ UNCHANGED <<process, descendant>> \/ Kill
    BY <1>12 DEF JoinThreads, ReturnWith
  <2>2. QED BY <1>2, <2>1, KillTypes, JudgedCases DEF ClientTypes, threadVars, Outcomes
<1>13. QED BY <1>3, <1>4, <1>5, <1>6, <1>7, <1>8, <1>9, <1>10, <1>11, <1>12
       DEF ClientNext, ThreadsStep, CallerStep

-----------------------------------------------------------------------------
(* The invariant, conjunct by conjunct.                                    *)

LEMMA InitClient == ClientInit => ClientInv
<1> SUFFICES ASSUME ClientInit PROVE ClientInv
  OBVIOUS
<1>1. ClientTypes
  BY InitTypes
<1>2. StartInv /\ EndInv /\ ReadInv /\ ToldInv
  BY DEF ClientInit, StartInv, EndInv, ReadInv, ToldInv, ThreadsDone
<1>3. OpenedInv /\ BodyInv
  BY DEF ClientInit, OpenedInv, BodyInv
<1>4. QED BY <1>1, <1>2, <1>3 DEF ClientInv, ResponseInv

\* What any step does to the process, its descendants and its output.
LEMMA ProcessSteps ==
  ASSUME ClientTypes, StartInv, [ClientNext]_clientVars
  PROVE  /\ process' = "none" => process = "none"
         /\ process = "exited" => process' = "exited" /\ written' = written /\ exitCode' = exitCode
         /\ process # "running" /\ process # "none" => process' # "running" /\ written' = written
         /\ process = "none" => written' = written /\ descendant' = descendant
         /\ process # "running" /\ descendant # "grouped" => descendant' # "grouped"
         /\ process = "none" /\ process' # "none" => StartProcess
<1>1. CASE WriteRecord \/ Fork \/ Exit \/ DescendantEnds
  BY <1>1 DEF StartInv, WriteRecord, Fork, Exit, DescendantEnds
<1>2. CASE ReadRecord \/ ReadEnd \/ ReadDiagnostics
  <2>1. /\ UNCHANGED <<exitCode, written>>
        /\ UNCHANGED <<process, descendant>> \/ Kill
    BY <1>2 DEF ReadRecord, ReadEnd, ReadDiagnostics, Fail
  <2>2. CASE UNCHANGED <<process, descendant>>
    BY <2>1, <2>2
  <2>3. CASE Kill
    BY <2>1, <2>3, KillTypes DEF StartInv
  <2>4. QED BY <2>1, <2>2, <2>3
<1>3. CASE WriteEnds \/ AskCancel \/ DeadlinePasses \/ CleanupTimePasses \/ UNCHANGED clientVars
  BY <1>3 DEF WriteEnds, AskCancel, DeadlinePasses, CleanupTimePasses, clientVars, processVars
<1>4. CASE CannotStart \/ StartProcess
  BY <1>4 DEF StartInv, ClientTypes, CannotStart, StartProcess, processVars
<1>5. CASE PollEnds \/ Reap \/ JoinThreads
  <2>1. /\ UNCHANGED <<exitCode, written>>
        /\ UNCHANGED <<process, descendant>> \/ Kill
    BY <1>5 DEF PollEnds, Reap, JoinThreads
  <2>2. CASE UNCHANGED <<process, descendant>>
    BY <2>1, <2>2
  <2>3. CASE Kill
    BY <2>1, <2>3, KillTypes DEF StartInv
  <2>4. QED BY <2>1, <2>2, <2>3
<1>6. QED BY <1>1, <1>2, <1>3, <1>4, <1>5 DEF ClientNext, ThreadsStep, CallerStep

\* Who moves the caller, and what else is fixed by it.
LEMMA CallerSteps ==
  ASSUME [ClientNext]_clientVars, ~CallerStep
  PROVE  UNCHANGED <<caller, whyStopped, outcome>>
<1>1. CASE WriteRecord \/ Fork \/ Exit \/ DescendantEnds
  BY <1>1 DEF WriteRecord, Fork, Exit, DescendantEnds
<1>2. CASE ThreadsStep
  BY <1>2 DEF ThreadsStep, ReadRecord, ReadEnd, ReadDiagnostics, WriteEnds
<1>3. CASE AskCancel \/ DeadlinePasses \/ CleanupTimePasses \/ UNCHANGED clientVars
  BY <1>3 DEF AskCancel, DeadlinePasses, CleanupTimePasses, clientVars
<1>4. QED BY <1>1, <1>2, <1>3 DEF ClientNext

\* Only the start of a process starts threads; done, a thread stays so, and the
\* response and the failures with it.
LEMMA ThreadSteps ==
  ASSUME [ClientNext]_clientVars, ~StartProcess
  PROVE  ThreadsDone => ThreadsDone' /\ UNCHANGED threadVars
<1>0. ASSUME ThreadsDone PROVE UNCHANGED threadVars
  <2>1. CASE WriteRecord \/ Fork \/ Exit \/ DescendantEnds
    BY <2>1 DEF WriteRecord, Fork, Exit, DescendantEnds
  <2>2. ~ThreadsStep
    BY <1>0, Zenon DEF ThreadsDone, ThreadsStep, ReadRecord, ReadEnd, ReadDiagnostics, WriteEnds
  <2>3. CASE AskCancel \/ DeadlinePasses \/ CleanupTimePasses \/ UNCHANGED clientVars
    BY <2>3 DEF AskCancel, DeadlinePasses, CleanupTimePasses, clientVars
  <2>4. CASE CallerStep
    BY <2>4 DEF CallerStep, CannotStart, PollEnds, Reap, JoinThreads
  <2>5. QED BY <2>1, <2>2, <2>3, <2>4 DEF ClientNext
<1>1. ASSUME UNCHANGED threadVars PROVE ThreadsDone' <=> ThreadsDone
  <2>1. UNCHANGED <<writerDone, readerDone, diagnosticsDone>>
    BY <1>1 DEF threadVars
  <2>2. QED BY <2>1, Zenon DEF ThreadsDone
<1>2. QED BY <1>0, <1>1

LEMMA StartStep ==
  ASSUME ClientTypes, StartInv, [ClientNext]_clientVars PROVE StartInv'
<1>1. CASE StartProcess
  BY <1>1 DEF StartProcess, StartInv
<1>2. CASE ~StartProcess /\ CallerStep
  <2>1. CASE CannotStart
    BY <2>1 DEF StartInv, CannotStart, processVars, threadVars, ThreadsDone, ReturnWith
  <2>2. CASE PollEnds \/ Reap \/ JoinThreads
    <3>1. /\ caller' \in {"reaping", "joining", "ended"} /\ UNCHANGED <<written, threadVars>>
          /\ process # "none"
          /\ UNCHANGED <<process, descendant>> \/ Kill
      BY <2>2 DEF StartInv, PollEnds, Reap, JoinThreads, ReturnWith
    <3>2. QED BY <3>1, KillTypes DEF StartInv
  <2>3. QED BY <1>2, <2>1, <2>2 DEF CallerStep
<1>3. CASE ~CallerStep
  <2>1. UNCHANGED caller /\ ~StartProcess
    BY <1>3, CallerSteps DEF CallerStep
  <2>2. process' = "none" => process = "none" /\ descendant' = descendant /\ written' = written
    BY ProcessSteps
  <2>3. (process = "none") <=> (process' = "none")
    BY <2>1, ProcessSteps
  <2>4. process' = "none" => ThreadsDone'
    BY <2>1, <2>2, ThreadSteps DEF StartInv
  <2>5. QED BY <2>1, <2>2, <2>3, <2>4 DEF StartInv
<1>4. QED BY <1>1, <1>2, <1>3

LEMMA EndStep ==
  ASSUME ClientTypes, StartInv, EndInv, [ClientNext]_clientVars PROVE EndInv'
<1>1. CASE StartProcess \/ PollEnds
  BY <1>1 DEF StartProcess, PollEnds, EndInv
<1>2. CASE CannotStart
  BY <1>2 DEF StartInv, EndInv, CannotStart, processVars, threadVars, ThreadsDone, ReturnWith
<1>3. CASE Reap
  <2>1. caller' = "joining" /\ Kill
    BY <1>3 DEF Reap
  <2>2. QED BY <2>1, KillTypes DEF EndInv
<1>4. CASE JoinThreads
  <2>1. /\ caller = "joining" /\ caller' = "ended" /\ outcome' = Judged
        /\ UNCHANGED threadVars
        /\ UNCHANGED <<process, descendant>> \/ Kill
    BY <1>4 DEF JoinThreads, ReturnWith
  <2>2. process' # "running" /\ descendant' # "grouped"
    BY <2>1, KillTypes DEF EndInv
  <2>3. ThreadsDone' <=> ThreadsDone
    BY <2>1, Zenon DEF ThreadsDone, threadVars
  <2>4. ThreadsDone' \/ outcome' \in {"cleanup", "interrupted"}
    BY <2>1, <2>3, JudgedCases
  <2>5. QED BY <2>1, <2>2, <2>4 DEF EndInv
<1>5. CASE ~CallerStep
  <2>1. UNCHANGED <<caller, outcome>> /\ ~StartProcess
    BY <1>5, CallerSteps DEF CallerStep
  <2>2. caller' \in {"joining", "ended"} => process' # "running" /\ descendant' # "grouped"
    BY <2>1, ProcessSteps DEF EndInv
  <2>3. caller' = "ended" => ThreadsDone' \/ outcome' \in {"cleanup", "interrupted"}
    BY <2>1, ThreadSteps DEF EndInv
  <2>4. QED BY <2>2, <2>3 DEF EndInv
<1>6. QED BY <1>1, <1>2, <1>3, <1>4, <1>5 DEF CallerStep

\* Only a thread that complains changes the failures, and it kills; only the
\* reader changes what is read.
LEMMA FailureSteps ==
  ASSUME ClientTypes, [ClientNext]_clientVars
  PROVE  failures' = <<>> => failures = <<>>
<1>1. CASE ReadRecord
  BY <1>1, ReadRecordCases
<1>2. CASE ReadEnd \/ ReadDiagnostics
  <2>1. failures' = failures \/ Fail("protocol") \/ Fail("limit")
    BY <1>2 DEF ReadEnd, ReadDiagnostics
  <2>2. QED BY <2>1, FailTypes
<1>3. CASE ~(ReadRecord \/ ReadEnd \/ ReadDiagnostics)
  <2>1. CASE CallerStep
    BY <2>1 DEF CallerStep, CannotStart, StartProcess, PollEnds, Reap, JoinThreads, threadVars
  <2>2. CASE WriteRecord \/ Fork \/ Exit \/ DescendantEnds \/ WriteEnds
    BY <2>2 DEF WriteRecord, Fork, Exit, DescendantEnds, WriteEnds, threadVars
  <2>3. CASE AskCancel \/ DeadlinePasses \/ CleanupTimePasses \/ UNCHANGED clientVars
    BY <2>3 DEF AskCancel, DeadlinePasses, CleanupTimePasses, clientVars, threadVars
  <2>4. QED BY <1>3, <2>1, <2>2, <2>3 DEF ClientNext, ThreadsStep
<1>4. QED BY <1>1, <1>2, <1>3

LEMMA OtherSteps ==
  ASSUME ClientTypes, [ClientNext]_clientVars, ~ReadRecord
  PROVE  /\ UNCHANGED <<consumed, response, delivered>>
         /\ Len(written') >= Len(written)
         /\ \A i \in 1 .. Len(written) : written'[i] = written[i]
<1>1. CASE WriteRecord
  BY <1>1 DEF ClientTypes, WriteRecord, threadVars
<1>2. CASE ~WriteRecord
  <2>0. Len(written) \in Nat
    BY DEF ClientTypes
  <2> SUFFICES UNCHANGED <<consumed, response, delivered, written>>
    BY <2>0
  <2>1. CASE CallerStep
    BY <2>1 DEF CallerStep, CannotStart, StartProcess, PollEnds, Reap, JoinThreads, threadVars, processVars
  <2>2. CASE Fork \/ Exit \/ DescendantEnds
    BY <2>2 DEF Fork, Exit, DescendantEnds, threadVars
  <2>3. CASE ReadEnd \/ ReadDiagnostics \/ WriteEnds
    BY <2>3 DEF ReadEnd, ReadDiagnostics, WriteEnds, processVars
  <2>4. CASE AskCancel \/ DeadlinePasses \/ CleanupTimePasses \/ UNCHANGED clientVars
    BY <2>4 DEF AskCancel, DeadlinePasses, CleanupTimePasses, clientVars, threadVars, processVars
  <2>5. QED BY <1>2, <2>1, <2>2, <2>3, <2>4 DEF ClientNext, ThreadsStep
<1>3. QED BY <1>1, <1>2

LEMMA ReadStep ==
  ASSUME ClientTypes, StartInv, ReadInv, [ClientNext]_clientVars PROVE ReadInv'
<1> SUFFICES ASSUME process' # "none", readerDone', failures' = <<>>
             PROVE  process' = "exited" /\ consumed' = Len(written')
  BY DEF ReadInv
<1>1. ~StartProcess
  BY DEF StartProcess
<1>2. process # "none" /\ failures = <<>>
  BY <1>1, ProcessSteps, FailureSteps
<1>3. CASE ReadRecord
  BY <1>3, ReadRecordCases
<1>4. CASE ReadEnd
  <2>1. /\ consumed = Len(written) /\ PipesClosed /\ UNCHANGED <<written, consumed>>
        /\ process' = process \/ Fail("protocol")
    BY <1>4 DEF ReadEnd
  <2>2. ~Fail("protocol")
    BY FailTypes
  <2>3. QED BY <2>1, <2>2 DEF PipesClosed
<1>5. CASE ~ReadRecord /\ ~ReadEnd
  <2>1. readerDone' = readerDone
    <3>1. CASE CallerStep
      BY <1>1, <3>1 DEF CallerStep, CannotStart, PollEnds, Reap, JoinThreads, threadVars
    <3>2. CASE WriteRecord \/ Fork \/ Exit \/ DescendantEnds
      BY <3>2 DEF WriteRecord, Fork, Exit, DescendantEnds, threadVars
    <3>3. CASE ReadDiagnostics \/ WriteEnds
      BY <3>3 DEF ReadDiagnostics, WriteEnds
    <3>4. CASE AskCancel \/ DeadlinePasses \/ CleanupTimePasses \/ UNCHANGED clientVars
      BY <3>4 DEF AskCancel, DeadlinePasses, CleanupTimePasses, clientVars, threadVars
    <3>5. QED BY <1>5, <3>1, <3>2, <3>3, <3>4 DEF ClientNext, ThreadsStep
  <2>2. process = "exited" /\ consumed = Len(written)
    BY <1>2, <2>1 DEF ReadInv
  <2>3. process' = "exited" /\ written' = written /\ consumed' = consumed
    BY <1>5, <2>2, ProcessSteps, OtherSteps
  <2>4. QED BY <2>2, <2>3
<1>6. QED BY <1>3, <1>4, <1>5

LEMMA ToldStep ==
  ASSUME ClientTypes, StartInv, ReadInv, ToldInv, [ClientNext]_clientVars PROVE ToldInv'
<1> SUFFICES ASSUME outcome' = "success"
             PROVE  /\ caller' = "ended" /\ ThreadsDone' /\ failures' = <<>> /\ exitCode' = 0
                    /\ response' = "complete" /\ process' = "exited"
  BY DEF ToldInv
<1>1. CASE JoinThreads
  <2>1. /\ caller = "joining" /\ caller' = "ended" /\ Judged = "success"
        /\ UNCHANGED <<exitCode, written, threadVars>>
        /\ ThreadsDone => UNCHANGED process
    BY <1>1 DEF JoinThreads, ReturnWith
  <2>2. ThreadsDone /\ failures = <<>> /\ exitCode = 0 /\ response = "complete"
    BY <2>1, JudgedCases
  <2>3. readerDone
    BY <2>2, Zenon DEF ThreadsDone
  <2>4. process = "exited"
    BY <2>1, <2>2, <2>3 DEF StartInv, ReadInv
  <2>5. ~StartProcess
    BY <2>1 DEF StartProcess
  <2>6. ThreadsDone'
    BY <2>2, <2>5, ThreadSteps
  <2>7. QED BY <2>1, <2>2, <2>4, <2>6 DEF threadVars
<1>2. CASE ~JoinThreads
  <2>1. outcome = "success"
    <3>1. CASE CallerStep
      BY <1>2, <3>1 DEF CallerStep, CannotStart, StartProcess, PollEnds, Reap, ReturnWith
    <3>2. CASE ~CallerStep
      BY <3>2, CallerSteps
    <3>3. QED BY <3>1, <3>2
  <2>2. /\ caller = "ended" /\ ThreadsDone /\ failures = <<>> /\ exitCode = 0
        /\ response = "complete" /\ process = "exited"
    BY <2>1 DEF ToldInv
  <2>3. ~CallerStep /\ ~StartProcess
    BY <2>2 DEF CallerStep, CannotStart, StartProcess, PollEnds, Reap, JoinThreads
  <2>4. caller' = "ended" /\ process' = "exited" /\ exitCode' = 0
    BY <2>2, <2>3, CallerSteps, ProcessSteps
  <2>5. ThreadsDone' /\ UNCHANGED threadVars
    BY <2>2, <2>3, ThreadSteps
  <2>6. QED BY <2>2, <2>4, <2>5 DEF threadVars
<1>3. QED BY <1>1, <1>2

\* A record that the reader takes fits the response so far.
LEMMA AcceptStep ==
  ASSUME ClientTypes, ReadRecord, OpenedInv, BodyInv, failures' = <<>>
  PROVE  OpenedInv' /\ BodyInv'
<1> DEFINE c == consumed
           record == written[consumed']
<1>1. /\ c \in Nat /\ Len(written) \in Nat /\ c < Len(written) /\ consumed' = c + 1
      /\ written' = written /\ record = written[c + 1]
      /\ delivered \in Seq(Records) /\ record \in Records /\ response \in States
  BY ReadRecordCases DEF ClientTypes, States
<1>2. /\ Accepted(response, record) # "error"
      /\ response' = Accepted(response, record)
      /\ delivered' = IF record \in {"fact", "symbol", "chunk"}
                      THEN Append(delivered, record) ELSE delivered
  BY ReadRecordCases
<1>3. CASE response = "hello"
  <2>1. record = "hello" /\ response' = "begin" /\ delivered' = <<>> /\ c = 0
    BY <1>1, <1>2, <1>3, AcceptedCases DEF OpenedInv
  <2>2. QED BY <1>1, <2>1 DEF OpenedInv, BodyInv
<1>4. CASE response = "begin"
  <2>1. /\ record = "begin" /\ response' = "facts" /\ delivered' = <<>> /\ c = 1
        /\ written[1] = "hello" /\ written'[2] = "begin"
    BY <1>1, <1>2, <1>4, AcceptedCases DEF OpenedInv
  <2>2. Body' = 2
    BY <1>1, <2>1 DEF Body
  <2>3. QED BY <1>1, <2>1, <2>2 DEF OpenedInv, BodyInv
<1>5. CASE response \in {"facts", "chunk"} /\ record # "complete"
  <2>1. /\ record \in {"fact", "symbol", "chunk"} /\ response' \in {"facts", "chunk"}
        /\ response' = "chunk" <=> record = "symbol"
        /\ response = "chunk" <=> record = "chunk"
        /\ delivered' = Append(delivered, record)
    BY <1>1, <1>2, <1>5, AcceptedCases
  <2>2. Body = c /\ Body' = c + 1
    BY <1>1, <1>5, <2>1 DEF Body
  <2>3. c >= 2 /\ written[1] = "hello" /\ written[2] = "begin"
    BY <1>5 DEF OpenedInv
  <2>4. OpenedInv'
    BY <1>1, <2>1, <2>2, <2>3 DEF OpenedInv
  <2>5. /\ \A i \in 3 .. c : written[i] \in {"fact", "symbol", "chunk"}
        /\ \A i \in 3 .. c - 1 : written[i] = "symbol" <=> written[i + 1] = "chunk"
        /\ response = "chunk" <=> written[c] = "symbol"
        /\ Len(delivered) = c - 2
        /\ \A i \in 1 .. Len(delivered) : delivered[i] = written[i + 2]
    BY <1>5, <2>2 DEF BodyInv
  <2>6. \A i \in 3 .. c + 1 : written'[i] \in {"fact", "symbol", "chunk"}
    BY <1>1, <2>1, <2>5
  <2>7. \A i \in 3 .. c : written'[i] = "symbol" <=> written'[i + 1] = "chunk"
    BY <1>1, <2>1, <2>5
  <2>8. Len(delivered') = c - 1
    BY <1>1, <2>1, <2>5
  <2>9. \A i \in 1 .. Len(delivered') : delivered'[i] = written'[i + 2]
    BY <1>1, <2>1, <2>3, <2>5, <2>8
  <2>10. QED BY <1>1, <2>1, <2>2, <2>4, <2>6, <2>7, <2>8, <2>9 DEF BodyInv
<1>6. CASE response \in {"facts", "chunk"} /\ record = "complete"
  <2>1. response = "facts" /\ response' = "complete" /\ delivered' = delivered
    BY <1>1, <1>2, <1>6, AcceptedCases
  <2>2. Body = c /\ Body' = c
    BY <1>1, <2>1 DEF Body
  <2>3. OpenedInv'
    BY <1>1, <2>1, <2>2 DEF OpenedInv
  <2>4. QED BY <1>1, <1>6, <2>1, <2>2, <2>3 DEF BodyInv, OpenedInv
<1>7. response # "complete"
  BY <1>1, <1>2, AcceptedCases
<1>8. QED BY <1>1, <1>3, <1>4, <1>5, <1>6, <1>7 DEF States

LEMMA ResponseStep ==
  ASSUME ClientTypes, ResponseInv, [ClientNext]_clientVars PROVE ResponseInv'
<1> SUFFICES ASSUME failures' = <<>> PROVE OpenedInv' /\ BodyInv'
  BY DEF ResponseInv
<1>1. OpenedInv /\ BodyInv
  BY FailureSteps DEF ResponseInv
<1>2. CASE ReadRecord
  BY <1>1, <1>2, AcceptStep
<1>3. CASE ~ReadRecord
  <2>1. /\ UNCHANGED <<consumed, response, delivered>>
        /\ \A i \in 1 .. Len(written) : written'[i] = written[i]
    BY <1>3, OtherSteps
  <2>2. Body' = Body
    BY <2>1 DEF Body
  <2>3. consumed \in Nat /\ Len(written) \in Nat /\ consumed =< Len(written) /\ Body =< consumed
    BY DEF ClientTypes, Body
  <2>4. \A i \in 1 .. consumed : written'[i] = written[i]
    BY <2>1, <2>3
  <2>5. OpenedInv'
    BY <1>1, <2>1, <2>2, <2>3, <2>4 DEF OpenedInv
  <2>6. CASE response \notin {"facts", "chunk", "complete"}
    BY <2>1, <2>5, <2>6 DEF BodyInv
  <2>7. CASE response \in {"facts", "chunk", "complete"}
    <3>1. Body \in Nat /\ Body >= 2 /\ consumed >= 2
      BY <1>1, <2>3, <2>7 DEF OpenedInv, Body
    <3>2. /\ \A i \in 3 .. Body : written'[i] \in {"fact", "symbol", "chunk"}
          /\ response = "chunk" <=> written'[Body] = "symbol"
          /\ response = "complete" => written'[consumed] = "complete"
      BY <1>1, <2>3, <2>4, <2>7, <3>1 DEF BodyInv
    <3>3. \A i \in 3 .. Body - 1 : written'[i] = "symbol" <=> written'[i + 1] = "chunk"
      BY <1>1, <2>3, <2>4, <2>7, <3>1 DEF BodyInv
    <3>4. /\ Len(delivered) = Body - 2
          /\ \A i \in 1 .. Len(delivered) : delivered[i] = written'[i + 2]
      BY <1>1, <2>3, <2>4, <2>7, <3>1 DEF BodyInv
    <3>5. QED BY <2>1, <2>2, <2>5, <2>7, <3>2, <3>3, <3>4 DEF BodyInv
  <2>8. QED BY <2>6, <2>7
<1>4. QED BY <1>2, <1>3

-----------------------------------------------------------------------------
(* The theorems.                                                           *)

\* What every state of a run has in common (NativeAnalyzerClient._invoke).
THEOREM ClientInvariant == ClientSpec => []ClientInv
<1>1. ClientInit => ClientInv
  BY InitClient
<1>2. ClientInv /\ [ClientNext]_clientVars => ClientInv'
  BY NextTypes, StartStep, EndStep, ReadStep, ResponseStep, ToldStep DEF ClientInv
<1>3. QED BY <1>1, <1>2, PTL DEF ClientSpec

\* A run that ends in success: the process ended by itself and well, it wrote one
\* whole response, and all facts of it were handed on in their order, whatever
\* cancellations, deadlines, signals and failures met on the way.
THEOREM SuccessTellsTheWhole == ClientSpec => []SuccessIsWhole
<1>1. ClientInv => SuccessIsWhole
  <2> SUFFICES ASSUME ClientInv, outcome = "success"
               PROVE  /\ process = "exited" /\ exitCode = 0 /\ WholeResponse(written)
                      /\ delivered = SubSeq(written, 3, Len(written) - 1)
    BY DEF ClientInv, SuccessIsWhole
  <2> DEFINE n == Len(written)
  <2>1. /\ process = "exited" /\ exitCode = 0 /\ failures = <<>> /\ response = "complete"
        /\ ThreadsDone
    BY DEF ClientInv, ToldInv
  <2>2. readerDone
    BY <2>1, Zenon DEF ThreadsDone
  <2>3. consumed = n
    BY <2>1, <2>2 DEF ClientInv, ReadInv
  <2>4. /\ n \in Nat /\ written \in Seq(Records) /\ delivered \in Seq(Records) /\ Body = n - 1
    BY <2>1, <2>3 DEF ClientInv, ClientTypes, Body
  <2>5. n >= 3 /\ written[1] = "hello" /\ written[2] = "begin" /\ written[n] = "complete"
    BY <2>1, <2>3, <2>4 DEF ClientInv, ResponseInv, OpenedInv, BodyInv
  <2>6. /\ \A i \in 3 .. n - 1 : written[i] \in {"fact", "symbol", "chunk"}
        /\ \A i \in 3 .. n - 2 : written[i] = "symbol" <=> written[i + 1] = "chunk"
        /\ written[n - 1] # "symbol"
        /\ Len(delivered) = n - 3
        /\ \A i \in 1 .. Len(delivered) : delivered[i] = written[i + 2]
    BY <2>1, <2>4 DEF ClientInv, ResponseInv, BodyInv
  <2>7. \A i \in 3 .. n - 1 : written[i] = "symbol" <=> written[i + 1] = "chunk"
    BY <2>4, <2>5, <2>6
  <2>8. WholeResponse(written)
    BY <2>5, <2>6, <2>7 DEF WholeResponse
  <2>9. delivered = SubSeq(written, 3, n - 1)
    BY <2>4, <2>5, <2>6
  <2>10. QED BY <2>1, <2>8, <2>9
<1>2. QED BY <1>1, ClientInvariant, PTL

\* However a run ends, the signal has reached the whole process group, and a
\* thread that is still there is told of (stop_process, the joins with a limit).
THEOREM RunsLeaveNothing == ClientSpec => []NothingLeftBehind
<1>1. ClientInv => NothingLeftBehind
  BY DEF ClientInv, EndInv, NothingLeftBehind
<1>2. QED BY <1>1, ClientInvariant, PTL

-----------------------------------------------------------------------------
(* The states of a response.  Induction is over sets, by least             *)
(* counterexample.                                                         *)

\* The strict order of the naturals as a set of pairs.
Before == {ss \in Nat \X Nat : ss[1] < ss[2]}

LEMMA UpTo ==
  ASSUME NEW n \in Nat, NEW G, 0 \in G, \A k \in 0 .. n - 1 : k \in G => k + 1 \in G
  PROVE  \A k \in 0 .. n : k \in G
<1> DEFINE Bad == {k \in 0 .. n : k \notin G}
<1> SUFFICES ASSUME NEW k \in 0 .. n, k \notin G PROVE FALSE
  OBVIOUS
<1>1. Bad \subseteq Nat /\ Bad # {}
  OBVIOUS
<1>2. IsWellFoundedOn(Before, Nat)
  BY NatLessThanWellFounded DEF OpToRel, Before
<1>3. PICK m \in Bad : \A j \in Bad : ~(<<j, m>> \in Before)
  BY <1>1, <1>2, WFMin
<1>4. m \in 0 .. n /\ m \notin G /\ m # 0
  BY <1>3
<1>5. m - 1 \in 0 .. n - 1 /\ m - 1 \in Nat /\ m \in Nat
  BY <1>4
<1>6. m - 1 \in Bad => <<m - 1, m>> \in Before
  BY <1>5 DEF Before
<1>7. m - 1 \in G
  BY <1>3, <1>5, <1>6
<1>8. QED BY <1>4, <1>5, <1>7

AllStates == States \cup {"error"}

\* The states of a response by places.
Follows(state, records, n) ==
  /\ state[0] = "hello"
  /\ \A k \in 0 .. n - 1 : state[k + 1] = Accepted(state[k], records[k + 1])

LEMMA AcceptedTypes ==
  /\ \A state, record : Accepted(state, record) \in AllStates
  /\ \A record : Accepted("error", record) = "error"
BY DEF Accepted, AllStates, States

\* The recursion of StateAfter has a solution.
LEMMA RunningStates ==
  ASSUME NEW records \in Seq(Records)
  PROVE  \E state \in [0 .. Len(records) -> AllStates] :
           /\ Follows(state, records, Len(records))
           /\ StateAfter(records) = state[Len(records)]
<1> DEFINE n == Len(records)
<1>1. n \in Nat
  OBVIOUS
<1> DEFINE G == {m \in 0 .. n : \E t \in [0 .. n -> AllStates] : Follows(t, records, m)}
<1>2. 0 \in G
  <2> DEFINE z == [k \in 0 .. n |-> "hello"]
  <2>1. z \in [0 .. n -> AllStates] /\ z[0] = "hello"
    BY <1>1 DEF AllStates, States
  <2>2. 0 .. 0 - 1 = {} /\ 0 \in 0 .. n
    BY <1>1
  <2> HIDE DEF z
  <2>3. Follows(z, records, 0)
    BY <2>1, <2>2 DEF Follows
  <2>4. QED BY <2>1, <2>2, <2>3
<1>3. ASSUME NEW m \in 0 .. n - 1, m \in G PROVE m + 1 \in G
  <2>1. PICK t \in [0 .. n -> AllStates] : Follows(t, records, m)
    BY <1>3
  <2> DEFINE a == Accepted(t[m], records[m + 1])
             u == [t EXCEPT ![m + 1] = a]
  <2>2. m \in Nat /\ m + 1 \in 0 .. n /\ m \in 0 .. n /\ a \in AllStates
    BY <1>1, AcceptedTypes
  <2>3. u \in [0 .. n -> AllStates] /\ u[m + 1] = a /\ \A k \in 0 .. m : u[k] = t[k]
    BY <1>1, <2>2
  <2> HIDE DEF u
  <2>4. Follows(u, records, m + 1)
    <3>1. u[0] = "hello"
      BY <2>1, <2>2, <2>3 DEF Follows
    <3>2. ASSUME NEW k \in 0 .. m PROVE u[k + 1] = Accepted(u[k], records[k + 1])
      <4>1. CASE k = m
        BY <2>2, <2>3, <4>1
      <4>2. CASE k # m
        <5>1. k \in 0 .. m - 1 /\ k + 1 \in 0 .. m
          BY <2>2, <4>2
        <5>2. QED BY <2>1, <2>3, <5>1 DEF Follows
      <4>3. QED BY <4>1, <4>2
    <3>3. (m + 1) - 1 = m
      BY <2>2
    <3>4. QED BY <3>1, <3>2, <3>3 DEF Follows
  <2>5. QED BY <2>2, <2>3, <2>4
<1>4. n \in G
  <2> HIDE DEF G
  <2>1. \A k \in 0 .. n : k \in G
    BY <1>1, <1>2, <1>3, UpTo
  <2>2. QED BY <1>1, <2>1
<1>5. PICK t \in [0 .. n -> AllStates] : Follows(t, records, n)
  BY <1>4
<1> DEFINE Rule(v) == [k \in 0 .. n |-> IF k = 0 THEN "hello" ELSE Accepted(v[k - 1], records[k])]
<1>6. t = Rule(t)
  <2>1. ASSUME NEW k \in 0 .. n
        PROVE  t[k] = IF k = 0 THEN "hello" ELSE Accepted(t[k - 1], records[k])
    <3>1. CASE k = 0
      BY <1>5, <3>1 DEF Follows
    <3>2. CASE k # 0
      <4>1. k - 1 \in 0 .. n - 1 /\ (k - 1) + 1 = k
        BY <1>1, <3>2
      <4>2. t[(k - 1) + 1] = Accepted(t[k - 1], records[(k - 1) + 1])
        BY <1>5, <4>1 DEF Follows
      <4>3. QED BY <3>2, <4>1, <4>2
    <3>3. QED BY <3>1, <3>2
  <2>2. QED BY <2>1
<1> DEFINE state == CHOOSE v : v = Rule(v)
<1>7. state = Rule(state)
  <2> HIDE DEF Rule
  <2>1. QED BY <1>6
<1>8. StateAfter(records) = state[n]
  BY DEF StateAfter
<1> HIDE DEF state
<1>9. \A k \in 0 .. n : state[k] = t[k]
  <2> DEFINE H == {k \in 0 .. n : state[k] = t[k]}
  <2>1. 0 \in H
    BY <1>1, <1>5, <1>7 DEF Follows
  <2>2. ASSUME NEW k \in 0 .. n - 1, k \in H PROVE k + 1 \in H
    <3>1. k + 1 \in 0 .. n /\ k + 1 # 0 /\ (k + 1) - 1 = k
      BY <1>1
    <3>2. state[k + 1] = Accepted(state[k], records[k + 1])
      BY <1>7, <3>1
    <3>3. t[k + 1] = Accepted(t[k], records[k + 1])
      BY <1>5 DEF Follows
    <3>4. QED BY <2>2, <3>1, <3>2, <3>3
  <2> HIDE DEF H
  <2>3. \A k \in 0 .. n : k \in H
    BY <1>1, <2>1, <2>2, UpTo
  <2>4. QED BY <2>3 DEF H
<1>10. QED BY <1>1, <1>5, <1>8, <1>9

\* What is true of a prefix: one record more is one step more, and an error stays.
LEMMA StateAfterPrefix ==
  ASSUME NEW records \in Seq(Records), NEW k \in 0 .. Len(records)
  PROVE  /\ StateAfter(SubSeq(records, 1, k)) \in AllStates
         /\ k = 0 => StateAfter(SubSeq(records, 1, k)) = "hello"
         /\ k < Len(records) => StateAfter(SubSeq(records, 1, k + 1))
                                  = Accepted(StateAfter(SubSeq(records, 1, k)), records[k + 1])
         /\ StateAfter(SubSeq(records, 1, k)) = "error" => StateAfter(records) = "error"
<1> DEFINE n == Len(records)
<1>1. n \in Nat /\ k \in Nat
  OBVIOUS
<1>2. PICK t \in [0 .. n -> AllStates] : Follows(t, records, n) /\ StateAfter(records) = t[n]
  BY RunningStates
<1>3. ASSUME NEW m \in 0 .. n PROVE StateAfter(SubSeq(records, 1, m)) = t[m]
  <2> DEFINE s == SubSeq(records, 1, m)
  <2>1. s \in Seq(Records) /\ Len(s) = m /\ \A j \in 1 .. m : s[j] = records[j]
    BY <1>1
  <2> HIDE DEF s
  <2>2. PICK u \in [0 .. m -> AllStates] : Follows(u, s, m) /\ StateAfter(s) = u[m]
    BY <2>1, RunningStates
  <2> DEFINE H == {j \in 0 .. m : u[j] = t[j]}
  <2>3. 0 \in H
    BY <1>1, <1>2, <2>2 DEF Follows
  <2>4. ASSUME NEW j \in 0 .. m - 1, j \in H PROVE j + 1 \in H
    <3>1. j + 1 \in 0 .. m /\ j + 1 \in 1 .. m /\ j \in 0 .. n - 1
      BY <1>1
    <3>2. u[j + 1] = Accepted(u[j], s[j + 1]) /\ t[j + 1] = Accepted(t[j], records[j + 1])
      BY <1>2, <2>2, <3>1 DEF Follows
    <3>3. QED BY <2>1, <2>4, <3>1, <3>2
  <2>5. m \in Nat
    BY <1>1
  <2> HIDE DEF H
  <2>6. \A j \in 0 .. m : j \in H
    BY <2>3, <2>4, <2>5, UpTo
  <2>7. u[m] = t[m]
    BY <2>5, <2>6 DEF H
  <2>8. QED BY <2>2, <2>7 DEF s
<1>4. k < n => k + 1 \in 0 .. n /\ k \in 0 .. n - 1
  BY <1>1
<1>5. k < n => t[k + 1] = Accepted(t[k], records[k + 1])
  BY <1>2, <1>4 DEF Follows
<1>6. ASSUME t[k] = "error" PROVE t[n] = "error"
  <2> DEFINE H == {j \in 0 .. n : j >= k => t[j] = "error"}
  <2>1. 0 \in H
    BY <1>1, <1>6
  <2>2. ASSUME NEW j \in 0 .. n - 1, j \in H PROVE j + 1 \in H
    <3>1. j \in Nat /\ j + 1 \in 0 .. n
      BY <1>1
    <3>2. t[j + 1] = Accepted(t[j], records[j + 1])
      BY <1>2 DEF Follows
    <3>3. CASE j >= k
      BY <2>2, <3>1, <3>2, <3>3, AcceptedTypes
    <3>4. CASE ~(j >= k)
      <4>1. j + 1 >= k => j + 1 = k
        BY <1>1, <3>1, <3>4
      <4>2. QED BY <1>6, <3>1, <4>1
    <3>5. QED BY <3>3, <3>4
  <2> HIDE DEF H
  <2>3. \A j \in 0 .. n : j \in H
    BY <1>1, <2>1, <2>2, UpTo
  <2>4. QED BY <1>1, <2>3 DEF H
<1>7. /\ StateAfter(SubSeq(records, 1, k)) = t[k] /\ t[k] \in AllStates
      /\ k < n => StateAfter(SubSeq(records, 1, k + 1)) = t[k + 1]
  BY <1>3, <1>4
<1>8. k = 0 => t[k] = "hello"
  BY <1>2 DEF Follows
<1>9. QED BY <1>2, <1>5, <1>6, <1>7, <1>8

-----------------------------------------------------------------------------
(* Blame.                                                                  *)

\* The reader is at the place its state says, as long as it read without a complaint.
PlaceInv ==
  ~readerDone \/ failures = <<>> => response = StateAfter(SubSeq(written, 1, consumed))

\* A signal has a reason of the client's own: nobody is killed before a thread
\* complained or the caller gave up, and then nobody is left to run.
KillInv ==
  /\ caller = "starting" => failures = <<>> /\ whyStopped = "none"
  /\ exitCode # 0 => process = "exited"
  /\ process = "dying" \/ exitCode = 9 => failures # <<>> \/ whyStopped # "none"
  /\ caller \in {"reaping", "joining", "ended"} =>
       process \in {"none", "exited"} \/ failures # <<>> \/ whyStopped # "none"
  /\ failures # <<>> \/ whyStopped # "none" => process # "running"

\* What the analyzer can be blamed for, once and for all.
Guilty ==
  \/ Response = "error"
  \/ process = "exited" /\ (exitCode = 1 \/ (exitCode = 0 /\ Response # "complete"))

\* Complaints about the protocol alone have their reason in the analyzer, and so
\* has what the caller is told.
GuiltInv ==
  /\ failures # <<>> /\ ~Contains(failures, "limit") /\ whyStopped = "none" => Guilty
  /\ outcome = "protocol" => Guilty

LEMMA BlameInit == ClientInit => PlaceInv /\ KillInv /\ GuiltInv
<1> SUFFICES ASSUME ClientInit PROVE PlaceInv /\ KillInv /\ GuiltInv
  OBVIOUS
<1>1. KillInv /\ GuiltInv
  BY DEF ClientInit, KillInv, GuiltInv
<1>2. written = <<>> /\ written \in Seq(Records) /\ consumed = 0 /\ response = "hello"
  BY DEF ClientInit
<1>3. 0 \in 0 .. Len(written)
  BY <1>2
<1>4. StateAfter(SubSeq(written, 1, 0)) = "hello"
  BY <1>2, <1>3, StateAfterPrefix
<1>5. QED BY <1>1, <1>2, <1>4 DEF PlaceInv

\* A reader that is done stays so.
LEMMA ReaderStays ==
  ASSUME [ClientNext]_clientVars, ~StartProcess, readerDone PROVE readerDone'
<1>1. CASE WriteRecord \/ Fork \/ Exit \/ DescendantEnds
  BY <1>1 DEF WriteRecord, Fork, Exit, DescendantEnds, threadVars
<1>2. CASE ThreadsStep
  BY <1>2 DEF ThreadsStep, ReadRecord, ReadEnd, ReadDiagnostics, WriteEnds
<1>3. CASE CallerStep
  BY <1>3 DEF CallerStep, CannotStart, PollEnds, Reap, JoinThreads, threadVars
<1>4. CASE AskCancel \/ DeadlinePasses \/ CleanupTimePasses \/ UNCHANGED clientVars
  BY <1>4 DEF AskCancel, DeadlinePasses, CleanupTimePasses, clientVars, threadVars
<1>5. QED BY <1>1, <1>2, <1>3, <1>4 DEF ClientNext

\* What a step leaves of the records that were read, unless it reads one.
LEMMA PrefixStays ==
  ASSUME ClientTypes, [ClientNext]_clientVars, ~ReadRecord
  PROVE  SubSeq(written', 1, consumed') = SubSeq(written, 1, consumed)
<1>1. /\ written \in Seq(Records) /\ Len(written) \in Nat /\ consumed \in 0 .. Len(written)
  BY DEF ClientTypes
<1>2. written' \in Seq(Records)
  BY NextTypes DEF ClientTypes
<1>3. /\ consumed' = consumed /\ Len(written') >= Len(written)
      /\ \A i \in 1 .. Len(written) : written'[i] = written[i]
  BY OtherSteps
<1>4. QED BY <1>1, <1>2, <1>3

LEMMA PlaceStep ==
  ASSUME ClientTypes, KillInv, PlaceInv, [ClientNext]_clientVars PROVE PlaceInv'
<1>1. CASE ReadRecord
  <2>1. /\ consumed < Len(written) /\ consumed' = consumed + 1 /\ written' = written /\ ~readerDone
    BY <1>1, ReadRecordCases
  <2>2. /\ written \in Seq(Records) /\ consumed \in 0 .. Len(written)
        /\ response = StateAfter(SubSeq(written, 1, consumed))
    BY <2>1 DEF ClientTypes, PlaceInv
  <2>3. StateAfter(SubSeq(written, 1, consumed + 1)) = Accepted(response, written[consumed + 1])
    BY <2>1, <2>2, StateAfterPrefix
  <2>4. \/ readerDone' = TRUE /\ failures' # <<>>
        \/ response' = Accepted(response, written[consumed'])
    BY <1>1, ReadRecordCases
  <2>5. CASE readerDone' = TRUE /\ failures' # <<>>
    BY <2>5 DEF PlaceInv
  <2>6. CASE response' = Accepted(response, written[consumed'])
    BY <2>1, <2>3, <2>6 DEF PlaceInv
  <2>7. QED BY <2>4, <2>5, <2>6
<1>2. CASE ~ReadRecord
  <2>1. response' = response /\ SubSeq(written', 1, consumed') = SubSeq(written, 1, consumed)
    BY <1>2, OtherSteps, PrefixStays
  <2>2. failures' = <<>> => failures = <<>>
    BY FailureSteps
  <2>3. CASE StartProcess
    <3>1. failures = <<>>
      BY <2>3 DEF StartProcess, KillInv
    <3>2. QED BY <2>1, <3>1 DEF PlaceInv
  <2>4. CASE ~StartProcess
    <3>1. readerDone => readerDone'
      BY <2>4, ReaderStays
    <3>2. QED BY <2>1, <2>2, <3>1 DEF PlaceInv
  <2>5. QED BY <2>3, <2>4
<1>3. QED BY <1>1, <1>2

LEMMA KillStep ==
  ASSUME ClientTypes, StartInv, KillInv, [ClientNext]_clientVars PROVE KillInv'
<1>1. CASE WriteRecord \/ Fork \/ DescendantEnds \/ WriteEnds
  BY <1>1 DEF KillInv, WriteRecord, Fork, DescendantEnds, WriteEnds, threadVars, processVars
<1>2. CASE AskCancel \/ DeadlinePasses \/ CleanupTimePasses \/ UNCHANGED clientVars
  BY <1>2 DEF KillInv, AskCancel, DeadlinePasses, CleanupTimePasses, clientVars, threadVars,
              processVars
<1>3. CASE Exit
  <2>1. /\ process' = "exited" /\ UNCHANGED <<failures, caller, whyStopped>>
        /\ exitCode' = 9 => process = "dying"
    BY <1>3 DEF Exit, threadVars
  <2>2. QED BY <2>1 DEF KillInv
<1>4. CASE ReadRecord \/ ReadEnd \/ ReadDiagnostics
  <2>1. /\ UNCHANGED <<exitCode, caller, whyStopped>>
        /\ \/ UNCHANGED <<process, failures>>
           \/ Fail("limit") \/ Fail("protocol")
    BY <1>4 DEF ReadRecord, ReadEnd, ReadDiagnostics
  <2>2. CASE UNCHANGED <<process, failures>>
    BY <2>1, <2>2 DEF KillInv
  <2>3. CASE Fail("limit") \/ Fail("protocol")
    <3>1. failures' # <<>> /\ Kill
      BY <2>3, FailTypes
    <3>2. process' # "running" /\ (process = "exited" => process' = "exited")
      BY <3>1, KillTypes
    <3>3. caller # "starting"
      <4>1. ~ThreadsDone
        BY <1>4, Zenon DEF ThreadsDone, ReadRecord, ReadEnd, ReadDiagnostics
      <4>2. QED BY <4>1 DEF StartInv
    <3>4. QED BY <2>1, <3>1, <3>2, <3>3 DEF KillInv
  <2>4. QED BY <2>1, <2>2, <2>3
<1>5. CASE CannotStart
  BY <1>5 DEF KillInv, StartInv, CannotStart, ReturnWith, processVars, threadVars
<1>6. CASE StartProcess
  BY <1>6 DEF KillInv, StartInv, StartProcess
<1>7. CASE PollEnds
  <2>1. /\ caller = "polling" /\ caller' = "reaping" /\ UNCHANGED <<exitCode, failures>>
        /\ \/ process = "exited" /\ UNCHANGED <<process, whyStopped>>
           \/ failures # <<>> /\ UNCHANGED <<process, whyStopped>>
           \/ Kill /\ whyStopped' # "none"
    BY <1>7 DEF PollEnds, threadVars
  <2>2. CASE UNCHANGED <<process, whyStopped>> /\ (process = "exited" \/ failures # <<>>)
    BY <2>1, <2>2 DEF KillInv
  <2>3. CASE Kill /\ whyStopped' # "none"
    <3>1. process' # "running" /\ (process = "exited" => process' = "exited")
      BY <2>3, KillTypes
    <3>2. QED BY <2>1, <2>3, <3>1 DEF KillInv
  <2>4. QED BY <2>1, <2>2, <2>3
<1>8. CASE Reap \/ JoinThreads
  <2>1. /\ caller \in {"reaping", "joining"} /\ caller' \in {"joining", "ended"}
        /\ UNCHANGED <<exitCode, failures, whyStopped>>
        /\ UNCHANGED process \/ Kill
    BY <1>8 DEF Reap, JoinThreads, ReturnWith, threadVars
  <2>2. /\ process = "none" <=> process' = "none"
        /\ process = "exited" <=> process' = "exited"
        /\ process' = process \/ process' # "running"
    BY <2>1, KillTypes
  <2>3. QED BY <2>1, <2>2 DEF KillInv
<1>9. QED
  BY <1>1, <1>2, <1>3, <1>4, <1>5, <1>6, <1>7, <1>8 DEF ClientNext, ThreadsStep, CallerStep

\* Guilt is final.
LEMMA GuiltStays ==
  ASSUME ClientTypes, StartInv, Guilty, [ClientNext]_clientVars PROVE Guilty'
<1>1. CASE Response = "error"
  <2>1. ~WriteRecord
    BY <1>1 DEF WriteRecord
  <2>2. written' = written
    <3>1. CASE CallerStep
      BY <3>1 DEF CallerStep, CannotStart, StartProcess, PollEnds, Reap, JoinThreads, processVars
    <3>2. CASE Fork \/ Exit \/ DescendantEnds \/ ThreadsStep
      BY <3>2 DEF Fork, Exit, DescendantEnds, ThreadsStep, ReadRecord, ReadEnd, ReadDiagnostics,
                  WriteEnds, processVars
    <3>3. CASE AskCancel \/ DeadlinePasses \/ CleanupTimePasses \/ UNCHANGED clientVars
      BY <3>3 DEF AskCancel, DeadlinePasses, CleanupTimePasses, clientVars, processVars
    <3>4. QED BY <2>1, <3>1, <3>2, <3>3 DEF ClientNext
  <2>3. QED BY <1>1, <2>2 DEF Response, Guilty
<1>2. CASE process = "exited" /\ (exitCode = 1 \/ (exitCode = 0 /\ Response # "complete"))
  <2>1. process' = "exited" /\ written' = written /\ exitCode' = exitCode
    BY <1>2, ProcessSteps
  <2>2. Response' = Response
    BY <2>1 DEF Response
  <2>3. QED BY <1>2, <2>1, <2>2 DEF Guilty
<1>3. QED BY <1>1, <1>2 DEF Guilty

\* What one more complaint says of the complaints before it.
LEMMA ComplaintCases ==
  ASSUME ClientTypes, NEW error \in {"limit", "protocol"}, Fail(error)
  PROVE  /\ error = "limit" => Contains(failures', "limit")
         /\ Contains(failures, "limit") => Contains(failures', "limit")
<1>1. /\ failures \in Seq({"limit", "protocol"}) /\ failures' = Append(failures, error)
  BY DEF ClientTypes, Fail
<1>2. /\ Len(failures) \in Nat /\ Len(failures') = Len(failures) + 1
      /\ failures'[Len(failures) + 1] = error
      /\ \A i \in 1 .. Len(failures) : failures'[i] = failures[i]
  BY <1>1
<1>3. \A i \in 1 .. Len(failures) + 1 : i \in 1 .. Len(failures')
  BY <1>2
<1>4. error = "limit" => Contains(failures', "limit")
  BY <1>2, <1>3 DEF Contains
<1>5. Contains(failures, "limit") => Contains(failures', "limit")
  BY <1>2, <1>3 DEF Contains
<1>6. QED BY <1>4, <1>5

\* A reader complains of the protocol only for what the analyzer did.
LEMMA ComplaintIsJust ==
  ASSUME ClientTypes, StartInv, PlaceInv, KillInv, GuiltInv, [ClientNext]_clientVars,
         Fail("protocol"), ReadRecord \/ ReadEnd,
         ~Contains(failures', "limit"), whyStopped = "none"
  PROVE  Guilty'
<1>1. ~Contains(failures, "limit")
  BY ComplaintCases
<1>2. CASE failures # <<>>
  BY <1>1, <1>2, GuiltStays DEF GuiltInv
<1>3. CASE failures = <<>> /\ ReadRecord
  <2>1. /\ consumed < Len(written) /\ written' = written /\ consumed' = consumed + 1
        /\ ~readerDone
    BY <1>3, ReadRecordCases
  <2>2. /\ written \in Seq(Records) /\ Len(written) \in Nat /\ consumed \in 0 .. Len(written)
        /\ consumed + 1 \in 0 .. Len(written)
    BY <2>1 DEF ClientTypes
  <2>3. Accepted(response, written[consumed + 1]) = "error"
    <3>1. failures' # failures
      BY <1>3, FailTypes
    <3>2. QED BY <1>3, <2>1, <3>1 DEF ReadRecord
  <2>4. response = StateAfter(SubSeq(written, 1, consumed))
    BY <2>1 DEF PlaceInv
  <2>5. StateAfter(SubSeq(written, 1, consumed + 1)) = "error"
    BY <2>1, <2>2, <2>3, <2>4, StateAfterPrefix
  <2>6. StateAfter(written) = "error"
    BY <2>2, <2>5, StateAfterPrefix
  <2>7. QED BY <2>1, <2>6 DEF Guilty, Response
<1>4. CASE failures = <<>> /\ ReadEnd
  <2>1. process = "exited"
    BY <1>4 DEF ReadEnd, PipesClosed
  <2>2. exitCode # 0 \/ Response # "complete"
    <3>1. failures' # failures
      BY <1>4, FailTypes
    <3>2. QED BY <1>4, <3>1 DEF ReadEnd
  <2>3. exitCode \in {0, 1, 9} /\ exitCode # 9
    BY <1>4 DEF ClientTypes, KillInv
  <2>4. Guilty
    BY <2>1, <2>2, <2>3 DEF Guilty
  <2>5. QED BY <2>4, GuiltStays
<1>5. QED BY <1>2, <1>3, <1>4

\* When the caller tells of the protocol.
LEMMA BlamedCases ==
  ASSUME ClientTypes, Judged = "protocol"
  PROVE  /\ ThreadsDone /\ whyStopped = "none"
         /\ \/ failures # <<>> /\ ~Contains(failures, "limit")
            \/ failures = <<>> /\ (exitCode # 0 \/ response # "complete")
<1>1. whyStopped \in {"none", "cancelled", "timeout", "interrupted"}
  BY DEF ClientTypes
<1>2. whyStopped = "none"
  BY <1>1 DEF Judged
<1>3. ThreadsDone
  BY <1>2 DEF Judged
<1>4. CASE failures # <<>>
  BY <1>2, <1>3, <1>4 DEF Judged
<1>5. CASE failures = <<>>
  BY <1>2, <1>3, <1>5 DEF Judged
<1>6. QED BY <1>2, <1>3, <1>4, <1>5

LEMMA GuiltStep ==
  ASSUME ClientInv, PlaceInv, KillInv, GuiltInv, [ClientNext]_clientVars PROVE GuiltInv'
<1> USE DEF ClientInv
<1>1. ASSUME failures' # <<>>, ~Contains(failures', "limit"), whyStopped' = "none" PROVE Guilty'
  <2>1. whyStopped = "none"
    <3>1. CASE PollEnds
      BY <1>1, <3>1 DEF PollEnds
    <3>2. CASE CallerStep /\ ~PollEnds
      BY <1>1, <3>2 DEF CallerStep, CannotStart, StartProcess, Reap, JoinThreads
    <3>3. CASE ~CallerStep
      BY <1>1, <3>3, CallerSteps
    <3>4. QED BY <3>1, <3>2, <3>3
  <2>2. CASE failures' = failures
    <3>1. Guilty
      BY <1>1, <2>1, <2>2 DEF GuiltInv
    <3>2. QED BY <3>1, GuiltStays
  <2>3. CASE failures' # failures
    <3>1. ReadRecord \/ ReadEnd \/ ReadDiagnostics
      <4>1. CASE CallerStep
        BY <2>3, <4>1 DEF CallerStep, CannotStart, StartProcess, PollEnds, Reap, JoinThreads,
                          threadVars
      <4>2. CASE WriteRecord \/ Fork \/ Exit \/ DescendantEnds \/ WriteEnds
        BY <2>3, <4>2 DEF WriteRecord, Fork, Exit, DescendantEnds, WriteEnds, threadVars
      <4>3. CASE AskCancel \/ DeadlinePasses \/ CleanupTimePasses \/ UNCHANGED clientVars
        BY <2>3, <4>3 DEF AskCancel, DeadlinePasses, CleanupTimePasses, clientVars, threadVars
      <4>4. QED BY <4>1, <4>2, <4>3 DEF ClientNext, ThreadsStep
    <3>2. ~Fail("limit")
      BY <1>1, ComplaintCases
    <3>3. (ReadRecord \/ ReadEnd) /\ Fail("protocol")
      BY <2>3, <3>1, <3>2 DEF ReadRecord, ReadEnd, ReadDiagnostics
    <3>4. QED BY <1>1, <2>1, <3>3, ComplaintIsJust
  <2>4. QED BY <2>2, <2>3
<1>2. ASSUME outcome' = "protocol" PROVE Guilty'
  <2>1. CASE outcome = "protocol"
    BY <2>1, GuiltStays DEF GuiltInv
  <2>2. CASE outcome # "protocol"
    <3>1. JoinThreads
      <4>1. CASE CallerStep
        BY <1>2, <2>2, <4>1 DEF CallerStep, CannotStart, StartProcess, PollEnds, Reap, ReturnWith
      <4>2. CASE ~CallerStep
        BY <1>2, <2>2, <4>2, CallerSteps
      <4>3. QED BY <4>1, <4>2
    <3>2. caller = "joining" /\ Judged = "protocol"
      BY <1>2, <3>1 DEF JoinThreads, ReturnWith
    <3>3. /\ ThreadsDone /\ whyStopped = "none"
          /\ \/ failures # <<>> /\ ~Contains(failures, "limit")
             \/ failures = <<>> /\ (exitCode # 0 \/ response # "complete")
      BY <3>2, BlamedCases
    <3>4. CASE failures # <<>> /\ ~Contains(failures, "limit")
      BY <3>3, <3>4, GuiltStays DEF GuiltInv
    <3>5. CASE failures = <<>> /\ (exitCode # 0 \/ response # "complete")
      <4>1. readerDone
        BY <3>3, Zenon DEF ThreadsDone
      <4>2. process = "exited" /\ consumed = Len(written)
        BY <3>2, <3>5, <4>1 DEF StartInv, ReadInv
      <4>3. exitCode \in {0, 1}
        BY <3>3, <3>5 DEF ClientTypes, KillInv
      <4>4. written \in Seq(Records) /\ SubSeq(written, 1, Len(written)) = written
        BY DEF ClientTypes
      <4>5. response = Response
        BY <3>5, <4>2, <4>4 DEF PlaceInv, Response
      <4>6. Guilty
        BY <3>5, <4>2, <4>3, <4>5 DEF Guilty
      <4>7. QED BY <4>6, GuiltStays
    <3>6. QED BY <3>3, <3>4, <3>5
  <2>3. QED BY <2>1, <2>2
<1>3. QED BY <1>1, <1>2 DEF GuiltInv

\* An analyzer is told to have broken the protocol only if it failed by itself,
\* broke it, or stopped halfway: never for what a signal of the client, sent after
\* a cancellation, a deadline or another failure, cut off (the order of reasons in
\* NativeAnalyzerClient._invoke).
THEOREM BlameIsAlwaysJust == ClientSpec => []BlameIsJust
<1>1. ClientInv /\ KillInv /\ GuiltInv => BlameIsJust
  BY DEF GuiltInv, Guilty, BlameIsJust
<1>2. ClientInv /\ PlaceInv /\ KillInv /\ GuiltInv /\ [ClientNext]_clientVars
        => PlaceInv' /\ KillInv' /\ GuiltInv'
  BY PlaceStep, KillStep, GuiltStep DEF ClientInv
<1>3. QED BY <1>1, <1>2, BlameInit, ClientInvariant, PTL DEF ClientSpec

=============================================================================
