------------------------------ MODULE McpServer ------------------------------
(***************************************************************************)
(* ProjectServerState of src/cpp_context_engine/mcp/server.py: one runtime *)
(* shared by all tool calls of a server, a lock around every use of it,    *)
(* worker threads that a cancelled call may have to leave behind, and the  *)
(* exchange of the runtime after index_project.                            *)
(*                                                                         *)
(* A call is a request of a client; its worker is the thread that runs its *)
(* operation.  Calls of the tool "read" stand for every tool that goes     *)
(* through execute, "deep" for materialize_deep_analysis and "index" for   *)
(* index_project.  The runtime an index call builds has the call's name.   *)
(* External: anyio's lock and worker threads, and the MCP library, which   *)
(* leaves the lifespan of the server only when no call is being handled.   *)
(***************************************************************************)
EXTENDS Naturals, FiniteSets

CONSTANTS
  Calls,          \* tool calls, each made once
  FirstRuntime,   \* the runtime opened with the server
  NoOne           \* no call, no runtime

ASSUME McpAssumption == FirstRuntime \notin Calls /\ NoOne \notin Calls /\ FirstRuntime # NoOne

Tools == {"read", "deep", "index"}
Runtimes == Calls \cup {FirstRuntime}

VARIABLES
  tool,         \* what a call asks for
  at,           \* "idle", "queued" for the lock, "running", "cleanup" or "ended"
  worker,       \* where the thread of a call is
  stop,         \* the cancellation event its operation looks at
  using,        \* the runtime its operation works with
  replacement,  \* calls whose nonlocal replacement holds a runtime
  holder,       \* the call that holds the lock
  poisoned,     \* materialization_poisoned
  unverified,   \* the call whose event is _materialization_done
  runtime,      \* the current runtime
  open,         \* runtimes built and not closed
  leaving,      \* the runtime a daemon thread will close at the end
  server        \* "up", "draining" or "down"

callVars == <<tool, at, worker, stop, using, replacement>>
mcpVars == <<callVars, holder, poisoned, unverified, runtime, open, leaving, server>>

\* ProjectServerState.open: the index may be missing or unusable.
McpInit ==
  /\ tool = [c \in Calls |-> "read"]
  /\ at = [c \in Calls |-> "idle"]
  /\ worker = [c \in Calls |-> "none"]
  /\ stop = [c \in Calls |-> FALSE]
  /\ using = [c \in Calls |-> NoOne]
  /\ replacement = {}
  /\ holder = NoOne /\ poisoned = FALSE /\ unverified = NoOne
  /\ runtime \in {NoOne, FirstRuntime} /\ open = {runtime} \ {NoOne}
  /\ leaving = NoOne /\ server = "up"

\* The event "stopped" of a call is set in the finally of its operation.  The
\* operation of a worker that never started does not set it.
Stopped(c) == worker[c] \in {"returned", "failed"}
Active(c) == worker[c] \notin {"none", "never", "returned", "failed"}

-----------------------------------------------------------------------------
(* The event loop.                                                         *)

Arrive(c) ==
  /\ server = "up" /\ at[c] = "idle"
  /\ \E t \in Tools : tool' = [tool EXCEPT ![c] = t]
  /\ at' = [at EXCEPT ![c] = "queued"]
  /\ UNCHANGED <<worker, stop, using, replacement, holder, poisoned, unverified,
                 runtime, open, leaving, server>>

\* Mutant: a poisoned server goes on.
NeverPoisoned == TRUE
Healthy == ~poisoned

\* The lock, then _require_healthy.
Acquire(c) ==
  /\ at[c] = "queued" /\ holder = NoOne
  /\ IF Healthy
     THEN holder' = c /\ at' = [at EXCEPT ![c] = "running"]
     ELSE at' = [at EXCEPT ![c] = "ended"] /\ UNCHANGED holder
  /\ UNCHANGED <<tool, worker, stop, using, replacement, poisoned, unverified,
                 runtime, open, leaving, server>>

LeaveQueue(c) ==
  /\ at[c] = "queued"
  /\ at' = [at EXCEPT ![c] = "ended"]
  /\ UNCHANGED <<tool, worker, stop, using, replacement, holder, poisoned, unverified,
                 runtime, open, leaving, server>>

\* A call ends: the lock is free, and index_project closes a replacement that
\* was not published.
\* Mutant: it relies on the operation to have closed it.
NotClosed(c) == {}
Unpublished(c) == {c} \cap replacement

End(c) ==
  /\ at' = [at EXCEPT ![c] = "ended"]
  /\ holder' = NoOne

\* The result of an operation reaches its call.  An index call publishes its
\* runtime and closes the one it replaces.
Answer(c) ==
  /\ at[c] = "running" /\ Stopped(c)
  /\ End(c)
  /\ IF tool[c] = "index" /\ worker[c] = "returned"
     THEN /\ runtime' = c /\ replacement' = replacement \ {c}
          /\ open' = open \ {runtime}
     ELSE /\ open' = open \ Unpublished(c)
          /\ UNCHANGED <<runtime, replacement>>
  /\ UNCHANGED <<tool, worker, stop, using, poisoned, unverified, leaving, server>>

\* A cancellation reaches a call that has not seen its result; it does not
\* reach one that waits shielded.  anyio drops a call that no thread took yet.
CancelCall(c) ==
  /\ at[c] = "running" /\ tool[c] # "read"
  /\ at' = [at EXCEPT ![c] = "cleanup"]
  /\ stop' = [stop EXCEPT ![c] = TRUE]
  /\ worker' = [worker EXCEPT ![c] = IF @ = "none" THEN "never" ELSE @]
  /\ UNCHANGED <<tool, using, replacement, holder, poisoned, unverified, runtime,
                 open, leaving, server>>

\* The shielded wait for the worker's event ends with the event ...
CleanedUp(c) ==
  /\ at[c] = "cleanup" /\ Stopped(c)
  /\ End(c) /\ open' = open \ Unpublished(c)
  /\ UNCHANGED <<tool, worker, stop, using, replacement, poisoned, unverified, runtime, leaving, server>>

\* ... or with its time.
TimeIsUp(c) == ~Stopped(c)

CleanupTimesOut(c) ==
  /\ at[c] = "cleanup" /\ TimeIsUp(c)
  /\ poisoned' = TRUE /\ unverified' = c
  /\ End(c) /\ open' = open \ Unpublished(c)
  /\ UNCHANGED <<tool, worker, stop, using, replacement, runtime, leaving, server>>

LoopStep(c) ==
  \/ Acquire(c) \/ Answer(c) \/ CleanedUp(c) \/ CleanupTimesOut(c)

-----------------------------------------------------------------------------
(* Worker threads.                                                         *)

Place(c, p) == worker' = [worker EXCEPT ![c] = p]

StartWorker(c) ==
  /\ at[c] = "running" /\ worker[c] = "none"
  /\ Place(c, "begun")
  /\ UNCHANGED <<tool, at, stop, using, replacement, holder, poisoned, unverified,
                 runtime, open, leaving, server>>

\* require_runtime: other tools need a healthy server and a runtime.
UseRuntime(c) ==
  /\ worker[c] = "begun" /\ tool[c] # "index"
  /\ IF Healthy /\ runtime # NoOne
     THEN using' = [using EXCEPT ![c] = runtime] /\ Place(c, "using")
     ELSE Place(c, "failed") /\ UNCHANGED using
  /\ UNCHANGED <<tool, at, stop, replacement, holder, poisoned, unverified, runtime,
                 open, leaving, server>>

\* The operation returns or raises, cancelled or not.
Finish(c) ==
  /\ worker[c] = "using"
  /\ using' = [using EXCEPT ![c] = NoOne]
  /\ \E p \in {"returned", "failed"} : Place(c, p)
  /\ UNCHANGED <<tool, at, stop, replacement, holder, poisoned, unverified, runtime,
                 open, leaving, server>>

\* run_project_index ends; the event is looked at before the runtime is built.
IndexEnds(c) ==
  /\ worker[c] = "begun" /\ tool[c] = "index"
  /\ \E ok \in BOOLEAN : Place(c, IF ok /\ ~stop[c] THEN "building" ELSE "failed")
  /\ UNCHANGED <<tool, at, stop, using, replacement, holder, poisoned, unverified,
                 runtime, open, leaving, server>>

BuildRuntime(c) ==
  /\ worker[c] = "building"
  /\ \/ /\ Place(c, "built")
        /\ replacement' = replacement \cup {c} /\ open' = open \cup {c}
     \/ /\ Place(c, "failed") /\ UNCHANGED <<replacement, open>>
  /\ UNCHANGED <<tool, at, stop, using, holder, poisoned, unverified, runtime, leaving, server>>

\* The event is looked at twice more, before and after the response is made.
CheckStop(c) ==
  /\ worker[c] \in {"built", "responded"}
  /\ IF stop[c]
     THEN /\ Place(c, "failed")
          /\ replacement' = replacement \ {c} /\ open' = open \ {c}
     ELSE /\ Place(c, IF worker[c] = "built" THEN "responded" ELSE "returned")
          /\ UNCHANGED <<replacement, open>>
  /\ UNCHANGED <<tool, at, stop, using, holder, poisoned, unverified, runtime, leaving, server>>

WorkerRuns(c) ==
  \/ StartWorker(c) \/ UseRuntime(c) \/ Finish(c)
  \/ IndexEnds(c) \/ BuildRuntime(c) \/ CheckStop(c)

-----------------------------------------------------------------------------
(* The end of the server: ProjectServerState.close.                        *)

\* A worker whose cleanup was not verified keeps the runtime open.
\* Mutant: the runtime is closed whatever the worker does.
NothingPending == FALSE
CleanupPending == unverified # NoOne /\ ~Stopped(unverified)

CloseServer ==
  /\ server = "up" /\ \A c \in Calls : at[c] \in {"idle", "ended"}
  /\ runtime' = NoOne
  /\ IF runtime # NoOne /\ CleanupPending
     THEN server' = "draining" /\ leaving' = runtime /\ UNCHANGED open
     ELSE server' = "down" /\ open' = open \ {runtime} /\ UNCHANGED leaving
  /\ UNCHANGED <<callVars, holder, poisoned, unverified>>

\* The daemon thread that waits for the event and closes the runtime.
Drained ==
  /\ server = "draining" /\ Stopped(unverified)
  /\ server' = "down" /\ leaving' = NoOne /\ open' = open \ {leaving}
  /\ UNCHANGED <<callVars, holder, poisoned, unverified, runtime>>

McpNext ==
  \/ \E c \in Calls :
       \/ Arrive(c) \/ LeaveQueue(c) \/ CancelCall(c)
       \/ LoopStep(c) \/ WorkerRuns(c)
  \/ CloseServer \/ Drained

McpSpec == McpInit /\ [][McpNext]_mcpVars

\* The event loop runs what it can run.  An operation ends if it is not
\* cancelled; nothing is assumed of one that is.
McpFairness ==
  /\ WF_mcpVars(\E c \in Calls : LoopStep(c))
  /\ WF_mcpVars(\E c \in Calls : ~stop[c] /\ WorkerRuns(c))

-----------------------------------------------------------------------------
(* Properties.                                                             *)

McpTypes ==
  /\ tool \in [Calls -> Tools]
  /\ at \in [Calls -> {"idle", "queued", "running", "cleanup", "ended"}]
  /\ worker \in [Calls -> {"none", "never", "begun", "using", "building", "built",
                           "responded", "returned", "failed"}]
  /\ stop \in [Calls -> BOOLEAN] /\ using \in [Calls -> Runtimes \cup {NoOne}]
  /\ replacement \subseteq Calls /\ open \subseteq Runtimes
  /\ holder \in Calls \cup {NoOne} /\ unverified \in Calls \cup {NoOne}
  /\ {runtime, leaving} \subseteq Runtimes \cup {NoOne} /\ poisoned \in BOOLEAN
  /\ server \in {"up", "draining", "down"}

\* Worker threads never overlap, not even with one that a cancelled call left
\* behind (server.py:243, "Never allow another operation to reuse SQLite or
\* analyzer state while cleanup remains unverified").
WorkersExclude ==
  McpTypes /\ \A c, d \in Calls : Active(c) /\ Active(d) => c = d

\* A runtime is not closed under a worker that uses it, and the current one is
\* open: exchange of the runtime, shutdown and abandoned workers.
RuntimesInUse ==
  /\ \A c \in Calls : using[c] # NoOne => using[c] \in open
  /\ runtime # NoOne => runtime \in open

\* Once no call is handled and no worker runs, the only runtime open is the
\* current one: a runtime built for a cancelled or failed build is closed by
\* someone, by its worker or by its call.
NothingOpenLeft ==
  (\A c \in Calls : at[c] \in {"idle", "ended"} /\ ~Active(c)) => open = {runtime, leaving} \ {NoOne}

\* What must hold in the end and from then on: no call waits for the lock.  Each
\* gets its answer or its refusal, though the worker of a cancelled call never
\* ends (server.py:236, the bounded wait).
NoneWaits == \A c \in Calls : at[c] # "queued"
=============================================================================
