--------------------------- MODULE AnalysisPipeline ---------------------------
(***************************************************************************)
(* NativeClangIngestor.iter_configuration_batches                          *)
(* (src/cpp_context_engine/ingestion/native.py): a pool of analyzer        *)
(* threads, a pool of converter threads, a coordinator thread, and the     *)
(* consumer that runs the generator.  They share one condition lock; a     *)
(* future becomes done without it.                                         *)
(*                                                                         *)
(* Atomicity.  The coordinator holds the lock from the top of its loop to  *)
(* condition.wait, so nobody but a worker steps in between.  It asks one   *)
(* future after the other whether it is done: every question is a step,    *)
(* and so are what it does with the answers and the test that ends the     *)
(* loop, before each of which a task may still finish.  A lost wake-up     *)
(* only delays a thread by the 0.05 s wait timeout, so a waiting thread is *)
(* one that may look again at any time.                                    *)
(***************************************************************************)
EXTENDS Integers, FiniteSets

CONSTANTS
  N,            \* len(selected)
  Workers,      \* worker_count
  Registries,   \* max_spool_registries
  Domain,       \* max_domain_batches
  SpoolLimit,   \* capacity of the shared _ResourceBudget, in spool units
  MaxFacts,     \* bound of the model: spool units one unit may produce
  MaxSwaps,     \* bound of the model: analyzer binary replacements
  Faults        \* which failures of the environment are explored

AllFaults == {"analysis", "conversion", "request", "telemetry", "close"}

ASSUME PipelineAssumption ==
  /\ N \in Nat \ {0} /\ Workers \in Nat \ {0} /\ Registries \in Nat \ {0}
  /\ Domain \in Nat \ {0} /\ SpoolLimit \in Nat \ {0}
  /\ Workers <= Registries /\ Domain <= Registries
  /\ MaxFacts \in Nat /\ MaxSwaps \in Nat
  /\ Faults \subseteq AllFaults

Units == 0 .. N - 1

\* Why a unit, or the whole stream, ended: "own" is the unit's own error,
\* "limit" an exhausted spool budget, "cancelled" the collateral error of a
\* task that saw the shared `cancelled` event.
TaskCauses == {"own", "limit", "request", "cancelled"}
Causes == TaskCauses \cup {"none", "telemetry", "complete", "closed",
                           "identity", "CancelledError"}

\* An error or result; unit N stands for the whole stream.
Ends == [unit : Units \cup {N}, cause : Causes]
Whole(c) == [unit |-> N, cause |-> c]
NoEnd == Whole("none")

FutureStates == {"unsubmitted", "pending", "running", "ok", "failed", "cancelled"}
Done == {"ok", "failed", "cancelled"}

VARIABLES
  analysis,     \* state of the analysis future of every unit
  conversion,   \* state of the conversion future of every unit
  cause,        \* the exception held by a failed future of the unit
  registry,     \* "none", "open" or "closed": the unit's _FactRegistry
  spooled,      \* units written to that registry (files and bytes)
  analyzedBy,   \* version of the analyzer binary that produced the facts
  spoolUsed,    \* _used of the shared budget
  cancelled,    \* the event shared with every task
  tracked,      \* domain of analysis_futures
  waiting,      \* domain of pending_registries
  converting,   \* domain of conversion_futures and conversion_registries
  nextConfiguration, nextConversion, held, failure,
  coord,        \* "scan", "read" and "settle" (lock held), or "done"
  unread,       \* units whose future this turn of the loop has still to ask
  completedFailures, \* units whose failed future it has found
  failedBefore, \* history: units that had failed when it began to ask
  stopped,
  consumer,     \* "seek", "yielded", "unwind", "join", "shutdown", "closing", "closed"
  delivered,    \* how many batches have been yielded
  outcome,      \* how the generator ends
  external,     \* request cancellation/deadline and observer failures so far
  binary, swaps \* analyzer binary now on disk, and how often it was replaced

poolVars == <<analysis, conversion, cause, registry, spooled, analyzedBy, spoolUsed>>
scanVars == <<unread, completedFailures, failedBefore>>
coordVars == <<tracked, waiting, nextConfiguration, nextConversion, coord, scanVars>>
consumerVars == <<stopped, consumer, delivered, outcome>>
envVars == <<external, binary, swaps>>
vars == <<poolVars, cancelled, coordVars, converting, held, failure, consumerVars, envVars>>

Init ==
  /\ analysis = [i \in Units |-> "unsubmitted"]
  /\ conversion = [i \in Units |-> "unsubmitted"]
  /\ cause = [i \in Units |-> "none"]
  /\ registry = [i \in Units |-> "none"]
  /\ spooled = [i \in Units |-> 0]
  /\ analyzedBy = [i \in Units |-> 0]
  /\ spoolUsed = 0 /\ cancelled = FALSE
  /\ tracked = {} /\ waiting = {} /\ converting = {}
  /\ nextConfiguration = 0 /\ nextConversion = 0 /\ held = 0
  /\ failure = NoEnd /\ coord = "scan" /\ stopped = FALSE
  /\ unread = {} /\ completedFailures = {} /\ failedBefore = {}
  /\ consumer = "seek" /\ delivered = 0 /\ outcome = NoEnd
  /\ external = {} /\ binary = 0 /\ swaps = 0

-----------------------------------------------------------------------------
(* Worker threads.                                                         *)

\* _FactRegistry.close: give the unit's whole share of the budget back.
CloseRegistry(i) ==
  /\ registry' = [registry EXCEPT ![i] = "closed"]
  /\ spooled' = [spooled EXCEPT ![i] = 0]
  /\ spoolUsed' = spoolUsed - spooled[i]

\* A worker takes the future, opens the registry and spawns the analyzer.
StartAnalysis(i) ==
  /\ analysis[i] = "pending"
  /\ analysis' = [analysis EXCEPT ![i] = "running"]
  /\ registry' = [registry EXCEPT ![i] = "open"]
  /\ analyzedBy' = [analyzedBy EXCEPT ![i] = binary]
  /\ UNCHANGED <<conversion, cause, spooled, spoolUsed, cancelled, coordVars,
                 converting, held, failure, consumerVars, envVars>>

\* _FactRegistry.add: acquire from the shared budget, then write.
Spool(i) ==
  /\ analysis[i] = "running"
  /\ spooled[i] < MaxFacts
  /\ spoolUsed + 1 <= SpoolLimit
  /\ spooled' = [spooled EXCEPT ![i] = @ + 1]
  /\ spoolUsed' = spoolUsed + 1
  /\ UNCHANGED <<analysis, conversion, cause, registry, analyzedBy, cancelled,
                 coordVars, converting, held, failure, consumerVars, envVars>>

\* Errors a task can raise now.  A task that waits for the analyzer, or
\* reads the spool, notices the cancelled event and the request's own limits.
TaskError(c, fault) ==
  \/ c = "own" /\ fault \in Faults
  \/ c = "cancelled" /\ cancelled
  \/ c = "request" /\ "request" \in external

\* analyze() raises: the registry is closed before the future is done.
AnalysisFails(i, c) ==
  /\ analysis[i] = "running"
  /\ \/ TaskError(c, "analysis")
     \/ c = "limit" /\ spooled[i] < MaxFacts /\ spoolUsed + 1 > SpoolLimit
  /\ analysis' = [analysis EXCEPT ![i] = "failed"]
  /\ cause' = [cause EXCEPT ![i] = c]
  /\ CloseRegistry(i)
  /\ UNCHANGED <<conversion, analyzedBy, cancelled, coordVars, converting,
                 held, failure, consumerVars, envVars>>

AnalysisSucceeds(i) ==
  /\ analysis[i] = "running"
  /\ analysis' = [analysis EXCEPT ![i] = "ok"]
  /\ UNCHANGED <<conversion, cause, registry, spooled, analyzedBy, spoolUsed,
                 cancelled, coordVars, converting, held, failure, consumerVars, envVars>>

StartConversion(i) ==
  /\ conversion[i] = "pending"
  /\ conversion' = [conversion EXCEPT ![i] = "running"]
  /\ UNCHANGED <<analysis, cause, registry, spooled, analyzedBy, spoolUsed,
                 cancelled, coordVars, converting, held, failure, consumerVars, envVars>>

\* convert() returns or raises; `finally: facts.close()` runs either way.
ConversionEnds(i) ==
  /\ conversion[i] = "running"
  /\ CloseRegistry(i)
  /\ UNCHANGED <<analysis, analyzedBy, cancelled, coordVars, converting,
                 held, failure, consumerVars, envVars>>

ConversionSucceeds(i) ==
  /\ ConversionEnds(i)
  /\ conversion' = [conversion EXCEPT ![i] = "ok"]
  /\ UNCHANGED cause

ConversionFails(i, c) ==
  /\ ConversionEnds(i)
  /\ TaskError(c, "conversion")
  /\ conversion' = [conversion EXCEPT ![i] = "failed"]
  /\ cause' = [cause EXCEPT ![i] = c]

-----------------------------------------------------------------------------
(* The coordinator thread.                                                 *)

\* Future.cancel succeeds only on a future no worker has taken.
CancelPending(future, tasks) ==
  [i \in Units |-> IF i \in tasks /\ future[i] = "pending" THEN "cancelled" ELSE future[i]]

\* Failing the pipeline: latch the cause, set the event, cancel the rest.
FailPipeline(end) ==
  /\ failure' = end
  /\ cancelled' = TRUE
  /\ analysis' = CancelPending(analysis, tracked)
  /\ conversion' = CancelPending(conversion, converting)
  /\ coord' = "done"

\* The coordinator leaves its loop before anything else once it is stopped.
\* Mutant: it does not look.
ContinuingRegardless == coord = "scan"
Continuing == coord = "scan" /\ ~stopped

CoordinatorStops ==
  /\ coord = "scan" /\ stopped
  /\ coord' = "done"
  /\ UNCHANGED <<poolVars, cancelled, tracked, waiting, nextConfiguration, nextConversion,
                 scanVars, converting, held, failure, consumerVars, envVars>>

\* request_failure(): the observer's failure comes before the request's.
RequestEnd == Whole(IF "telemetry" \in external THEN "telemetry" ELSE "request")

CoordinatorSeesRequestFailure ==
  /\ Continuing /\ external # {}
  /\ FailPipeline(RequestEnd)
  /\ UNCHANGED <<cause, registry, spooled, analyzedBy, spoolUsed, tracked, waiting,
                 nextConfiguration, nextConversion, scanVars, converting, held,
                 consumerVars, envVars>>

Failed(i) == "failed" \in {analysis[i], conversion[i]}

\* It begins to ask: first the analyses in its map, then the conversions.
CoordinatorLooks ==
  /\ Continuing /\ external = {}
  /\ coord' = "read" /\ unread' = tracked \cup converting
  /\ failedBefore' = {i \in Units : Failed(i)}
  /\ UNCHANGED <<poolVars, cancelled, tracked, waiting, nextConfiguration, nextConversion,
                 completedFailures, converting, held, failure, consumerVars, envVars>>

\* Maps are read in the order of the units.
FirstOf(i, tasks) == i \in tasks /\ \A j \in tasks : i <= j

Asks(i) ==
  /\ coord = "read" /\ unread' = unread \ {i}
  /\ UNCHANGED <<poolVars, cancelled, nextConfiguration, nextConversion, coord, failedBefore,
                 converting, held, failure, consumerVars, envVars>>

Noted(i, failed) == IF failed THEN completedFailures \cup {i} ELSE completedFailures

\* Mutant: a registry that is collected replaces those that wait.
CollectedOnly(i) == IF analysis[i] = "ok" THEN {i} ELSE waiting
Collected(i) == IF analysis[i] = "ok" THEN waiting \cup {i} ELSE waiting

\* An analysis that is done leaves the map, with a registry or a failure.
CoordinatorAsksAnalysis(i) ==
  /\ FirstOf(i, unread \cap tracked) /\ Asks(i)
  /\ tracked' = IF analysis[i] \in Done THEN tracked \ {i} ELSE tracked
  /\ waiting' = Collected(i)
  /\ completedFailures' = Noted(i, analysis[i] = "failed")

CoordinatorAsksConversion(i) ==
  /\ unread \cap tracked = {} /\ FirstOf(i, unread) /\ Asks(i)
  /\ completedFailures' = Noted(i, conversion[i] = "failed")
  /\ UNCHANGED <<tracked, waiting>>

\* Mutant: the failure observed last in admission order.
Latest(S) == CHOOSE i \in S : \A j \in S : i >= j
Earliest(S) == CHOOSE i \in S : \A j \in S : i <= j

Asked == coord = "read" /\ unread = {}

\* Some task was found failed: keep the earliest one's cause.
CoordinatorSeesFailure ==
  /\ Asked /\ completedFailures # {}
  /\ LET first == Earliest(completedFailures)
     IN FailPipeline([unit |-> first, cause |-> cause[first]])
  /\ completedFailures' = {} /\ failedBefore' = {}
  /\ UNCHANGED <<cause, registry, spooled, analyzedBy, spoolUsed, tracked, waiting, unread,
                 nextConfiguration, nextConversion, converting, held, consumerVars, envVars>>

\* The run of collected registries that starts at nextConversion and fits in
\* the domain-batch bound.
ToConvert ==
  {i \in waiting : /\ i >= nextConversion
                   /\ nextConversion .. i \subseteq waiting
                   /\ i - nextConversion < Domain - Cardinality(converting)}

\* The next configurations the worker and registry bounds admit.
\* Mutant: the registry bound is forgotten.
AdmissibleWorkersOnly(i) == i - nextConfiguration < Workers - Cardinality(tracked)
Admissible(i) ==
  /\ i - nextConfiguration < Workers - Cardinality(tracked)
  /\ i - nextConfiguration < Registries - held
ToAnalyze == {i \in Units : i >= nextConfiguration /\ Admissible(i)}

Submit(future, tasks) == [i \in Units |-> IF i \in tasks THEN "pending" ELSE future[i]]

CoordinatorSubmits ==
  /\ Asked /\ completedFailures = {}
  /\ waiting' = waiting \ ToConvert
  /\ converting' = converting \cup ToConvert
  /\ nextConversion' = nextConversion + Cardinality(ToConvert)
  /\ conversion' = Submit(conversion, ToConvert)
  /\ tracked' = tracked \cup ToAnalyze
  /\ nextConfiguration' = nextConfiguration + Cardinality(ToAnalyze)
  /\ held' = held + Cardinality(ToAnalyze)
  /\ analysis' = Submit(analysis, ToAnalyze)
  /\ coord' = "settle" /\ failedBefore' = {}
  /\ UNCHANGED <<cause, registry, spooled, analyzedBy, spoolUsed, cancelled, unread,
                 completedFailures, failure, consumerVars, envVars>>

\* End of the loop body: leave when everything is done, else wait.
CoordinatorSettles ==
  /\ coord = "settle"
  /\ coord' = IF /\ nextConfiguration = N /\ tracked = {} /\ waiting = {}
                 /\ \A i \in converting : conversion[i] \in Done
              THEN "done" ELSE "scan"
  /\ UNCHANGED <<poolVars, cancelled, tracked, waiting, nextConfiguration, nextConversion,
                 scanVars, converting, held, failure, consumerVars, envVars>>

-----------------------------------------------------------------------------
(* The consumer thread, inside the generator.                              *)

LockFree == coord \notin {"read", "settle"}

EndWith(end) == outcome' = end /\ consumer' = "unwind"

\* Under the lock: request failure first, then the pipeline's failure, then
\* the future of the next unit, whose own exception result() raises.
Raise(end) ==
  /\ consumer = "seek" /\ delivered < N /\ LockFree
  /\ EndWith(end)
  /\ UNCHANGED <<poolVars, cancelled, coordVars, converting, held, failure,
                 stopped, delivered, envVars>>

RaiseRequestFailure == external # {} /\ Raise(RequestEnd)

RaiseFailure == external = {} /\ failure # NoEnd /\ Raise(failure)

\* Mutant: the future is looked at before the pipeline's failure.
FutureFirst == external = {} /\ delivered \in converting
FutureCounts == external = {} /\ failure = NoEnd /\ delivered \in converting

RaiseResult ==
  /\ FutureCounts
  /\ conversion[delivered] \in {"failed", "cancelled"}
  /\ Raise([unit |-> delivered,
            cause |-> IF conversion[delivered] = "failed"
                      THEN cause[delivered] ELSE "CancelledError"])

\* Mutant: any future that is done counts as a batch.
AnyDone == conversion[delivered] \in Done
BatchReady == conversion[delivered] = "ok"

Yield ==
  /\ consumer = "seek" /\ delivered < N /\ LockFree
  /\ FutureCounts /\ BatchReady
  /\ consumer' = "yielded"
  /\ delivered' = delivered + 1
  /\ UNCHANGED <<poolVars, cancelled, coordVars, converting, held, failure,
                 stopped, outcome, envVars>>

\* `finally` of the yield: the batch and its maps' entries are dropped and
\* one registry is admitted again.
ReleaseBatch ==
  /\ consumer = "yielded" /\ LockFree
  /\ converting' = converting \ {delivered - 1}
  /\ held' = held - 1
  /\ UNCHANGED <<poolVars, cancelled, coordVars, failure, stopped, delivered, envVars>>

Resume == ReleaseBatch /\ consumer' = "seek" /\ UNCHANGED outcome

CallerCloses == "close" \in Faults /\ ReleaseBatch /\ EndWith(Whole("closed"))

\* All batches are out: the analyzer must still be the one of the start.
\* Mutants: the loop ends one unit early; the check is left out.
AllButOneDelivered == delivered = N - 1
AllDelivered == delivered = N
AnyIdentity == Whole("complete")
IdentityEnd == Whole(IF binary = 0 THEN "complete" ELSE "identity")

CheckIdentity ==
  /\ consumer = "seek" /\ AllDelivered
  /\ EndWith(IdentityEnd)
  /\ UNCHANGED <<poolVars, cancelled, coordVars, converting, held, failure,
                 stopped, delivered, envVars>>

\* The outer `finally`, under the lock.
Unwind ==
  /\ consumer = "unwind" /\ LockFree
  /\ stopped' = TRUE /\ cancelled' = TRUE
  /\ analysis' = CancelPending(analysis, tracked)
  /\ conversion' = CancelPending(conversion, converting)
  /\ consumer' = "join"
  /\ UNCHANGED <<cause, registry, spooled, analyzedBy, spoolUsed, coordVars, converting,
                 held, failure, delivered, outcome, envVars>>

\* coordinator.join()
JoinCoordinator ==
  /\ consumer = "join" /\ coord = "done"
  /\ consumer' = "shutdown"
  /\ UNCHANGED <<poolVars, cancelled, coordVars, converting, held, failure,
                 stopped, delivered, outcome, envVars>>

\* Both executors shut down: what is queued is cancelled, what runs is awaited.
ShutdownExecutors ==
  /\ consumer = "shutdown"
  /\ \A i \in Units : analysis[i] # "running" /\ conversion[i] # "running"
  /\ analysis' = CancelPending(analysis, Units)
  /\ conversion' = CancelPending(conversion, Units)
  /\ consumer' = "closing"
  /\ UNCHANGED <<cause, registry, spooled, analyzedBy, spoolUsed, cancelled, coordVars,
                 converting, held, failure, stopped, delivered, outcome, envVars>>

\* The registries the generator can still reach are closed one by one.
\* Mutant: those that wait for a converter are not.
ReachableWithoutPending == converting \cup {i \in tracked : analysis[i] = "ok"}
Reachable == waiting \cup converting \cup {i \in tracked : analysis[i] = "ok"}
Unclosed == {i \in Reachable : registry[i] = "open"}

CloseReachable(i) ==
  /\ consumer = "closing" /\ i \in Unclosed
  /\ CloseRegistry(i)
  /\ UNCHANGED <<analysis, conversion, cause, analyzedBy, cancelled, coordVars,
                 converting, held, failure, consumerVars, envVars>>

\* At last the observer's own failure replaces the outcome, unless the
\* pipeline failed.
FinishClosing ==
  /\ consumer = "closing" /\ Unclosed = {}
  /\ outcome' = IF "telemetry" \in external /\ failure = NoEnd
                THEN Whole("telemetry") ELSE outcome
  /\ consumer' = "closed"
  /\ UNCHANGED <<poolVars, cancelled, coordVars, converting, held, failure,
                 stopped, delivered, envVars>>

-----------------------------------------------------------------------------
(* The environment: the request is cancelled or times out, the observer    *)
(* fails, the analyzer binary is replaced by another one or put back.      *)

ExternalFailure(c) ==
  /\ c \in Faults \ external /\ consumer # "closed"
  /\ external' = external \cup {c}
  /\ UNCHANGED <<poolVars, cancelled, coordVars, converting, held, failure,
                 consumerVars, binary, swaps>>

SwapBinary ==
  /\ swaps < MaxSwaps /\ consumer # "closed"
  /\ swaps' = swaps + 1 /\ binary' = 1 - binary
  /\ UNCHANGED <<poolVars, cancelled, coordVars, converting, held, failure,
                 consumerVars, external>>

WorkerStep(i) ==
  \/ StartAnalysis(i) \/ Spool(i) \/ AnalysisSucceeds(i)
  \/ StartConversion(i) \/ ConversionSucceeds(i)
  \/ \E c \in TaskCauses : AnalysisFails(i, c) \/ ConversionFails(i, c)

CoordinatorStep ==
  \/ CoordinatorStops \/ CoordinatorSeesRequestFailure \/ CoordinatorLooks
  \/ \E i \in Units : CoordinatorAsksAnalysis(i) \/ CoordinatorAsksConversion(i)
  \/ CoordinatorSeesFailure \/ CoordinatorSubmits \/ CoordinatorSettles

\* What the generator does by itself, and what its caller makes it do.
GeneratorStep ==
  \/ RaiseRequestFailure \/ RaiseFailure \/ RaiseResult \/ Yield
  \/ CheckIdentity \/ Unwind \/ JoinCoordinator \/ ShutdownExecutors
  \/ (\E i \in Units : CloseReachable(i)) \/ FinishClosing
CallerStep == Resume \/ CallerCloses

EnvironmentStep ==
  \/ \E c \in {"request", "telemetry"} : ExternalFailure(c)
  \/ SwapBinary

Terminated == consumer = "closed" /\ UNCHANGED vars

Next ==
  \/ \E i \in Units : WorkerStep(i)
  \/ CoordinatorStep \/ GeneratorStep \/ CallerStep \/ EnvironmentStep
  \/ Terminated

\* Worker threads run and every analyzer run ends (timeouts kill it); the
\* coordinator looks again at least every 0.05 s.  The generator and its caller
\* compete with it for the lock, which every loop of the coordinator gives up
\* in condition.wait: strong fairness.  The caller comes back for the next
\* batch, or closes the generator.
Fairness ==
  /\ \A i \in Units : WF_vars(WorkerStep(i))
  /\ WF_vars(CoordinatorStep) /\ SF_vars(GeneratorStep) /\ SF_vars(CallerStep)

Spec == Init /\ [][Next]_vars
FairSpec == Spec /\ Fairness

-----------------------------------------------------------------------------
(* Properties.                                                             *)

TypeOK ==
  /\ analysis \in [Units -> FutureStates]
  /\ conversion \in [Units -> FutureStates]
  /\ cause \in [Units -> TaskCauses \cup {"none"}]
  /\ registry \in [Units -> {"none", "open", "closed"}]
  /\ spooled \in [Units -> Nat]
  /\ analyzedBy \in [Units -> {0, 1}]
  /\ spoolUsed \in Int /\ cancelled \in BOOLEAN
  /\ tracked \subseteq Units /\ waiting \subseteq Units /\ converting \subseteq Units
  /\ nextConfiguration \in Nat /\ nextConversion \in Nat /\ held \in Int
  /\ failure \in Ends /\ coord \in {"scan", "read", "settle", "done"}
  /\ unread \subseteq Units /\ completedFailures \subseteq Units /\ failedBefore \subseteq Units
  /\ stopped \in BOOLEAN
  /\ consumer \in {"seek", "yielded", "unwind", "join", "shutdown", "closing", "closed"}
  /\ delivered \in 0 .. N /\ outcome \in Ends
  /\ external \subseteq {"request", "telemetry"}
  /\ binary \in {0, 1} /\ swaps \in Nat

\* Units whose registry is open, or whose converted batch is still kept.
OpenRegistries == {i \in Units : registry[i] = "open"}
Retained == OpenRegistries \cup converting

\* The three separate hard bounds of docs/indexing.md: analyzer runs, kept
\* registries (whatever thread has them, failed pipelines included), and
\* converted domain batches, the one in the caller's hands included.
AdmissionBounds ==
  /\ Cardinality({i \in Units : analysis[i] = "running"}) <= Workers
  /\ Cardinality(Retained) <= Registries
  /\ Cardinality(converting) <= Domain

\* What all registries hold together.
SpoolTotal(spool) ==
  LET total[k \in 0 .. N] == IF k = 0 THEN 0 ELSE total[k - 1] + spool[k - 1]
  IN total[N]

\* The shared budget equals what the open registries hold, never exceeds its
\* limit and never underflows: nothing is released twice, nothing forgotten
\* (_ResourceBudget raises on underflow; close() is called from three threads).
SpoolAccounting ==
  /\ spoolUsed = SpoolTotal(spooled)
  /\ spoolUsed \in 0 .. SpoolLimit
  /\ \A i \in Units : spooled[i] > 0 => registry[i] = "open"

\* "all byte/FD budgets and unnamed temporary files are released on every
\* exit path": after the generator ends no registry is open, the budget is
\* back to zero and no thread still works for it.
NothingLeaks ==
  /\ SpoolAccounting
  /\ consumer = "closed" =>
    /\ OpenRegistries = {} /\ spoolUsed = 0 /\ coord = "done"
    /\ \A i \in Units : {analysis[i], conversion[i]} \cap {"pending", "running"} = {}

\* The caller is told the cause, never its echo: not the collateral
\* "analysis was cancelled" of a task stopped because another one failed, and
\* not the CancelledError of a future the coordinator cancelled.
RootCauseReported == {failure.cause, outcome.cause} \cap {"cancelled", "CancelledError"} = {}

\* A batch reaches the caller only when its unit, and every unit before it,
\* was analyzed and converted; a unit that failed never gets behind the output.
OnlySoundPrefix ==
  /\ \A i \in 0 .. delivered - 1 : analysis[i] = "ok" /\ conversion[i] = "ok"
  /\ failure.unit < N => delivered <= failure.unit

\* "Select the earliest CDB item among failures observed in the same completion
\* interval, then preserve that cause": the failure that is latched is one that
\* happened, and comes before every unit that had failed when the coordinator took
\* the lock; nothing replaces it.  (A unit that fails after it was asked may come
\* before it: nobody has observed that failure.)
EarliestFailureWins ==
  [][failure' # failure =>
       /\ failure = NoEnd
       /\ failure'.unit < N => /\ Failed(failure'.unit)
                               /\ \A j \in failedBefore : failure'.unit <= j]_vars

\* Once the cancelled event is set nothing more is admitted or submitted.
NoAdmissionAfterCancel ==
  [][cancelled => /\ UNCHANGED <<nextConfiguration, nextConversion>>
                  /\ held' <= held /\ delivered' = delivered]_vars

\* "A binary replacement must abort": a complete stream holds facts of one
\* analyzer only.
CompleteMeansOneAnalyzer ==
  consumer = "closed" /\ outcome.cause = "complete" => \A i \in Units : analyzedBy[i] = 0

\* Whatever fails, the generator ends: no thread waits for ever for a slot,
\* a registry or a batch.
Terminates == <>(consumer = "closed")

\* The pipeline implements the ordered stream its callers see.
Ending == IF consumer # "closed" THEN "open"
          ELSE IF outcome.cause = "complete" THEN "complete" ELSE "aborted"
Stream == INSTANCE BatchStream WITH emitted <- delivered, ending <- Ending
ImplementsStream == Stream!StreamSpec
=============================================================================
