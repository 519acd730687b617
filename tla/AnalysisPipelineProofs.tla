------------------------ MODULE AnalysisPipelineProofs ------------------------
(***************************************************************************)
(* Theorems about AnalysisPipeline for every number of units, workers,     *)
(* registries and domain batches, every spool limit and every set of       *)
(* faults.                                                                 *)
(***************************************************************************)
EXTENDS AnalysisPipeline, FiniteSetTheorems, WellFoundedInduction, TLAPS

-----------------------------------------------------------------------------
(* Facts about the operators.                                              *)

\* The strict order of the naturals as a set of pairs.
Before == {ss \in Nat \X Nat : ss[1] < ss[2]}

\* Every non-empty set of naturals has a least element.
LEMMA LeastElement ==
  ASSUME NEW S, S \subseteq Nat, S # {}
  PROVE  \E i \in S : \A j \in S : i <= j
<1>1. IsWellFoundedOn(Before, Nat)
  BY NatLessThanWellFounded DEF OpToRel, Before
<1>2. PICK i \in S : \A y \in S : ~(<<y, i>> \in Before)
  BY <1>1, WFMin
<1>3. ASSUME NEW j \in S PROVE i <= j
  <2>1. i \in Nat /\ j \in Nat
    OBVIOUS
  <2>2. j < i => <<j, i>> \in Before
    BY <2>1 DEF Before
  <2>3. QED BY <1>2, <2>1, <2>2
<1>4. QED BY <1>3

\* Earliest picks the least unit of a non-empty set.
LEMMA EarliestIsLeast ==
  ASSUME NEW S, S \subseteq Units, S # {}
  PROVE  Earliest(S) \in S /\ \A j \in S : Earliest(S) <= j
<1>1. S \subseteq Nat
  BY PipelineAssumption DEF Units
<1>2. QED BY <1>1, LeastElement DEF Earliest

\* The sets of units the model counts are finite.
LEMMA UnitsFinite ==
  /\ IsFiniteSet(Units) /\ Cardinality(Units) = N
  /\ \A S \in SUBSET Units : IsFiniteSet(S) /\ Cardinality(S) \in 0 .. N
<1>1. N \in Nat /\ N > 0
  BY PipelineAssumption
<1>2. IsFiniteSet(Units) /\ Cardinality(Units) = N
  <2>1. IsFiniteSet(0 .. N - 1) /\ Cardinality(0 .. N - 1) = IF 0 > N - 1 THEN 0 ELSE (N - 1) - 0 + 1
    BY <1>1, FS_Interval
  <2>2. QED BY <1>1, <2>1 DEF Units
<1>3. ASSUME NEW S \in SUBSET Units
      PROVE  IsFiniteSet(S) /\ Cardinality(S) \in 0 .. N
  <2>1. IsFiniteSet(S) /\ Cardinality(S) <= Cardinality(Units)
    BY <1>2, FS_Subset
  <2>2. Cardinality(S) \in Nat
    BY <2>1, FS_CardinalityType
  <2>3. QED BY <1>2, <2>1, <2>2
<1>4. QED BY <1>2, <1>3

\* A set of units that starts at k and has no holes is an interval.
LEMMA InitialRun ==
  ASSUME NEW S, S \subseteq Units, NEW k \in 0 .. N,
         \A i \in S : i >= k /\ k .. i \subseteq S
  PROVE  S = k .. k + Cardinality(S) - 1 /\ k + Cardinality(S) <= N
<1>1. N \in Nat /\ N > 0 /\ Units = 0 .. N - 1
  BY PipelineAssumption DEF Units
<1> DEFINE T == {i \in k .. N : i \notin S}
<1>2. T \subseteq Nat /\ N \in T
  BY <1>1
<1>3. PICK m \in T : \A j \in T : m <= j
  BY <1>2, LeastElement
<1>4. m \in Nat /\ k <= m /\ m <= N /\ m \notin S
  BY <1>1, <1>3
<1>5. S = k .. m - 1
  <2>1. ASSUME NEW i \in k .. m - 1 PROVE i \in S
    <3>1. i \in k .. N /\ i < m
      BY <1>1, <1>4
    <3>2. QED BY <3>1, <1>3, <1>4
  <2>2. ASSUME NEW i \in S PROVE i \in k .. m - 1
    <3>1. i \in Nat /\ i >= k /\ k .. i \subseteq S
      BY <1>1
    <3>2. m \notin k .. i
      BY <3>1, <1>4
    <3>3. QED BY <3>1, <3>2, <1>4
  <2>3. QED BY <2>1, <2>2
<1>6. Cardinality(S) = m - k
  <2>1. Cardinality(k .. m - 1) = IF k > m - 1 THEN 0 ELSE (m - 1) - k + 1
    BY <1>4, FS_Interval
  <2>2. QED BY <1>4, <1>5, <2>1
<1>7. QED BY <1>4, <1>5, <1>6

\* The ends that name no unit.
LEMMA EndsOfTheStream ==
  /\ NoEnd \in Ends /\ RequestEnd \in Ends
  /\ \A c \in Causes : Whole(c) \in Ends
<1>1. \A c \in Causes : Whole(c) \in Ends
  BY DEF Whole, Ends
<1>2. "none" \in Causes /\ "telemetry" \in Causes /\ "request" \in Causes
  BY DEF Causes, TaskCauses
<1>3. QED BY <1>1, <1>2 DEF NoEnd, RequestEnd

-----------------------------------------------------------------------------
(* Type correctness.                                                       *)

\* Every variable keeps its type.
LEMMA TypeStep == TypeOK /\ [Next]_vars => TypeOK'
<1> SUFFICES ASSUME TypeOK, [Next]_vars PROVE TypeOK'
  OBVIOUS
<1> USE DEF poolVars, scanVars, coordVars, consumerVars, envVars
<1>0. N \in Nat \ {0} /\ 0 \in Nat /\ Units \subseteq Nat
  BY PipelineAssumption DEF Units
<1>1. ASSUME NEW i \in Units, StartAnalysis(i) PROVE TypeOK'
  BY <1>1 DEF TypeOK, StartAnalysis, FutureStates
<1>2. ASSUME NEW i \in Units, Spool(i) PROVE TypeOK'
  BY <1>2 DEF TypeOK, Spool
<1>3. ASSUME NEW i \in Units, NEW c \in TaskCauses, AnalysisFails(i, c) PROVE TypeOK'
  BY <1>3 DEF TypeOK, AnalysisFails, CloseRegistry, FutureStates
<1>4. ASSUME NEW i \in Units, AnalysisSucceeds(i) PROVE TypeOK'
  BY <1>4 DEF TypeOK, AnalysisSucceeds, FutureStates
<1>5. ASSUME NEW i \in Units, StartConversion(i) PROVE TypeOK'
  BY <1>5 DEF TypeOK, StartConversion, FutureStates
<1>6. ASSUME NEW i \in Units, ConversionSucceeds(i) PROVE TypeOK'
  BY <1>6 DEF TypeOK, ConversionSucceeds, ConversionEnds, CloseRegistry, FutureStates
<1>7. ASSUME NEW i \in Units, NEW c \in TaskCauses, ConversionFails(i, c) PROVE TypeOK'
  BY <1>7 DEF TypeOK, ConversionFails, ConversionEnds, CloseRegistry, FutureStates
<1>8. CASE CoordinatorStops
  BY <1>8 DEF TypeOK, CoordinatorStops
<1>9. CASE CoordinatorSeesRequestFailure
  BY <1>9, EndsOfTheStream DEF TypeOK, CoordinatorSeesRequestFailure, FailPipeline,
                               CancelPending, FutureStates
<1>9a. CASE CoordinatorLooks
  BY <1>9a DEF TypeOK, CoordinatorLooks
<1>9b. ASSUME NEW i \in Units, CoordinatorAsksAnalysis(i) PROVE TypeOK'
  BY <1>9b DEF TypeOK, CoordinatorAsksAnalysis, Asks, Collected, Noted
<1>9c. ASSUME NEW i \in Units, CoordinatorAsksConversion(i) PROVE TypeOK'
  BY <1>9c DEF TypeOK, CoordinatorAsksConversion, Asks, Noted
<1>10. CASE CoordinatorSeesFailure
  <2> DEFINE first == Earliest(completedFailures)
  <2>1. first \in Units
    BY <1>10, EarliestIsLeast DEF TypeOK, CoordinatorSeesFailure
  <2>2. [unit |-> first, cause |-> cause[first]] \in Ends
    BY <2>1 DEF TypeOK, Ends, Causes
  <2>3. QED
    BY <1>10, <2>2 DEF TypeOK, CoordinatorSeesFailure, FailPipeline, CancelPending, FutureStates
<1>11. CASE CoordinatorSubmits
  <2>1. ToConvert \subseteq Units /\ ToAnalyze \subseteq Units
    BY DEF TypeOK, ToConvert, ToAnalyze
  <2>2. Cardinality(ToConvert) \in Nat /\ Cardinality(ToAnalyze) \in Nat
    BY <1>0, <2>1, UnitsFinite
  <2>3. QED
    BY <1>11, <2>1, <2>2 DEF TypeOK, CoordinatorSubmits, Submit, FutureStates
<1>12. CASE CoordinatorSettles
  BY <1>12 DEF TypeOK, CoordinatorSettles
<1>13. CASE RaiseRequestFailure
  BY <1>13, EndsOfTheStream DEF TypeOK, RaiseRequestFailure, Raise, EndWith
<1>14. CASE RaiseFailure
  BY <1>14 DEF TypeOK, RaiseFailure, Raise, EndWith
<1>15. CASE RaiseResult
  <2>1. delivered \in Units
    BY <1>0, <1>15 DEF TypeOK, RaiseResult, Raise, Units
  <2>2. [unit |-> delivered, cause |-> IF conversion[delivered] = "failed"
                                       THEN cause[delivered] ELSE "CancelledError"] \in Ends
    BY <2>1 DEF TypeOK, Ends, Causes
  <2>3. QED BY <1>15, <2>2 DEF TypeOK, RaiseResult, Raise, EndWith
<1>16. CASE Yield
  BY <1>0, <1>16 DEF TypeOK, Yield
<1>17. CASE Resume
  BY <1>17 DEF TypeOK, Resume, ReleaseBatch
<1>18. CASE CallerCloses
  BY <1>18 DEF TypeOK, CallerCloses, ReleaseBatch, EndWith, Whole, Ends, Causes
<1>19. CASE CheckIdentity
  BY <1>19 DEF TypeOK, CheckIdentity, IdentityEnd, EndWith, Whole, Ends, Causes
<1>20. CASE Unwind
  BY <1>20 DEF TypeOK, Unwind, CancelPending, FutureStates
<1>21. CASE JoinCoordinator
  BY <1>21 DEF TypeOK, JoinCoordinator
<1>22. CASE ShutdownExecutors
  BY <1>22 DEF TypeOK, ShutdownExecutors, CancelPending, FutureStates
<1>23. ASSUME NEW i \in Units, CloseReachable(i) PROVE TypeOK'
  BY <1>23 DEF TypeOK, CloseReachable, CloseRegistry
<1>24. CASE FinishClosing
  BY <1>24 DEF TypeOK, FinishClosing, Whole, Ends, Causes
<1>25. ASSUME NEW c \in {"request", "telemetry"}, ExternalFailure(c) PROVE TypeOK'
  BY <1>25 DEF TypeOK, ExternalFailure
<1>26. CASE SwapBinary
  BY <1>26 DEF TypeOK, SwapBinary
<1>27. CASE UNCHANGED vars
  BY <1>27 DEF TypeOK, vars
<1>28. QED
  BY <1>1, <1>2, <1>3, <1>4, <1>5, <1>6, <1>7, <1>8, <1>9, <1>9a, <1>9b, <1>9c, <1>10,
     <1>11, <1>12, <1>13, <1>14, <1>15, <1>16, <1>17, <1>18, <1>19, <1>20, <1>21, <1>22, <1>23, <1>24, <1>25,
     <1>26, <1>27
  DEF Next, WorkerStep, CoordinatorStep, GeneratorStep, CallerStep, EnvironmentStep, Terminated

\* The type invariant holds in every reachable state.
THEOREM TypeCorrect == Spec => []TypeOK
<1>1. Init => TypeOK
  <2>1. NoEnd \in Ends /\ 0 \in 0 .. N
    BY EndsOfTheStream, PipelineAssumption
  <2>2. ASSUME Init
        PROVE  /\ analysis \in [Units -> FutureStates]
               /\ conversion \in [Units -> FutureStates]
               /\ cause \in [Units -> TaskCauses \cup {"none"}]
               /\ registry \in [Units -> {"none", "open", "closed"}]
               /\ spooled \in [Units -> Nat]
               /\ analyzedBy \in [Units -> {0, 1}]
    BY <2>2 DEF Init, FutureStates
  <2>3. ASSUME Init
        PROVE  /\ spoolUsed \in Int /\ held \in Int /\ swaps \in Nat /\ binary \in {0, 1}
               /\ nextConfiguration \in Nat /\ nextConversion \in Nat
    BY <2>3 DEF Init
  <2>4. ASSUME Init
        PROVE  /\ cancelled \in BOOLEAN /\ stopped \in BOOLEAN
               /\ tracked \subseteq Units /\ waiting \subseteq Units /\ converting \subseteq Units
               /\ external \subseteq {"request", "telemetry"}
               /\ coord \in {"scan", "read", "settle", "done"}
               /\ unread \subseteq Units /\ completedFailures \subseteq Units
               /\ failedBefore \subseteq Units
               /\ consumer \in {"seek", "yielded", "unwind", "join", "shutdown", "closing", "closed"}
    BY <2>4 DEF Init
  <2>5. ASSUME Init PROVE failure \in Ends /\ outcome \in Ends /\ delivered \in 0 .. N
    BY <2>1, <2>5 DEF Init
  <2>6. QED BY <2>2, <2>3, <2>4, <2>5 DEF TypeOK
<1>2. QED BY <1>1, TypeStep, PTL DEF Spec

-----------------------------------------------------------------------------
(* Root causes.                                                            *)

\* Why no echo of a cancellation can be reported.  The event is set exactly
\* when the pipeline has failed, which ends the coordinator, or the consumer
\* has stopped it, which ends the consumer's loop and cannot happen while the
\* coordinator has the lock; and only the event makes a task fail with, or a future
\* hold, a cancellation.
RootInv ==
  /\ failure # NoEnd => coord = "done"
  /\ coord = "read" => ~stopped
  /\ stopped <=> consumer \in {"join", "shutdown", "closing", "closed"}
  /\ cancelled <=> failure # NoEnd \/ stopped
  /\ \A i \in Units : cause[i] = "cancelled" \/ conversion[i] = "cancelled" => cancelled
  /\ RootCauseReported

\* The request's own ends are neither NoEnd nor a cancellation.
LEMMA RequestEndIsACause ==
  RequestEnd # NoEnd /\ RequestEnd.cause \notin {"cancelled", "CancelledError"}
BY DEF RequestEnd, NoEnd, Whole

\* No step of any thread turns the echo of a cancellation into a cause.
LEMMA RootStep == TypeOK /\ RootInv /\ [Next]_vars => RootInv'
<1> SUFFICES ASSUME TypeOK, RootInv, [Next]_vars PROVE RootInv'
  OBVIOUS
<1> USE DEF poolVars, scanVars, coordVars, consumerVars, envVars
<1>1. ASSUME NEW i \in Units, StartAnalysis(i) PROVE RootInv'
  BY <1>1 DEF RootInv, RootCauseReported, StartAnalysis
<1>2. ASSUME NEW i \in Units, Spool(i) PROVE RootInv'
  BY <1>2 DEF RootInv, RootCauseReported, Spool
<1>3. ASSUME NEW i \in Units, NEW c \in TaskCauses, AnalysisFails(i, c) PROVE RootInv'
  BY <1>3 DEF TypeOK, RootInv, RootCauseReported, AnalysisFails, TaskError, CloseRegistry
<1>4. ASSUME NEW i \in Units, AnalysisSucceeds(i) PROVE RootInv'
  BY <1>4 DEF RootInv, RootCauseReported, AnalysisSucceeds
<1>5. ASSUME NEW i \in Units, StartConversion(i) PROVE RootInv'
  BY <1>5 DEF TypeOK, RootInv, RootCauseReported, StartConversion
<1>6. ASSUME NEW i \in Units, ConversionSucceeds(i) PROVE RootInv'
  BY <1>6 DEF TypeOK, RootInv, RootCauseReported, ConversionSucceeds, ConversionEnds, CloseRegistry
<1>7. ASSUME NEW i \in Units, NEW c \in TaskCauses, ConversionFails(i, c) PROVE RootInv'
  BY <1>7 DEF TypeOK, RootInv, RootCauseReported, ConversionFails, ConversionEnds, TaskError,
              CloseRegistry
<1>8. CASE CoordinatorStops
  BY <1>8 DEF RootInv, RootCauseReported, CoordinatorStops
<1>9. CASE CoordinatorSeesRequestFailure
  BY <1>9, RequestEndIsACause DEF TypeOK, RootInv, RootCauseReported, CancelPending,
                                  CoordinatorSeesRequestFailure, FailPipeline, Continuing
<1>9a. CASE CoordinatorLooks
  BY <1>9a DEF RootInv, RootCauseReported, CoordinatorLooks, Continuing
<1>9b. ASSUME NEW i \in Units, CoordinatorAsksAnalysis(i) PROVE RootInv'
  BY <1>9b DEF RootInv, RootCauseReported, CoordinatorAsksAnalysis, Asks
<1>9c. ASSUME NEW i \in Units, CoordinatorAsksConversion(i) PROVE RootInv'
  BY <1>9c DEF RootInv, RootCauseReported, CoordinatorAsksConversion, Asks
<1>10. CASE CoordinatorSeesFailure
  <2> DEFINE first == Earliest(completedFailures)
             end == [unit |-> first, cause |-> cause[first]]
  <2>1. first \in Units
    BY <1>10, EarliestIsLeast DEF TypeOK, CoordinatorSeesFailure
  <2>2. ~cancelled
    BY <1>10 DEF RootInv, CoordinatorSeesFailure, Asked
  <2>3. end # NoEnd
    BY <2>1, PipelineAssumption DEF NoEnd, Whole, Units
  <2>4. end.cause \notin {"cancelled", "CancelledError"}
    BY <2>1, <2>2 DEF TypeOK, TaskCauses, RootInv
  <2>5. failure' = end /\ cancelled' = TRUE /\ coord' = "done"
        /\ UNCHANGED <<cause, consumerVars>>
    BY <1>10 DEF CoordinatorSeesFailure, FailPipeline
  <2> HIDE DEF end
  <2>6. QED
    BY <2>3, <2>4, <2>5 DEF RootInv, RootCauseReported
<1>11. CASE CoordinatorSubmits
  BY <1>11 DEF TypeOK, RootInv, RootCauseReported, CoordinatorSubmits, Submit, Asked
<1>12. CASE CoordinatorSettles
  BY <1>12 DEF RootInv, RootCauseReported, CoordinatorSettles
<1>13. CASE RaiseRequestFailure
  BY <1>13, RequestEndIsACause DEF TypeOK, RootInv, RootCauseReported, RaiseRequestFailure,
                                   Raise, EndWith
<1>14. CASE RaiseFailure
  BY <1>14 DEF TypeOK, RootInv, RootCauseReported, RaiseFailure, Raise, EndWith
<1>15. CASE RaiseResult
  <2>1. delivered \in Units /\ ~cancelled
    BY <1>15, PipelineAssumption DEF TypeOK, RootInv, RaiseResult, FutureCounts, Raise, Units
  <2>2. conversion[delivered] = "failed" /\ outcome'.cause = cause[delivered]
    BY <1>15, <2>1 DEF RootInv, RaiseResult, Raise, EndWith
  <2>3. outcome'.cause \notin {"cancelled", "CancelledError"}
    BY <2>1, <2>2 DEF TypeOK, TaskCauses, RootInv
  <2>4. QED
    BY <1>15, <2>3 DEF TypeOK, RootInv, RootCauseReported, RaiseResult, Raise, EndWith
<1>16. CASE Yield
  BY <1>16 DEF RootInv, RootCauseReported, Yield
<1>17. CASE Resume
  BY <1>17 DEF RootInv, RootCauseReported, Resume, ReleaseBatch
<1>18. CASE CallerCloses
  BY <1>18 DEF RootInv, RootCauseReported, CallerCloses, ReleaseBatch, EndWith, Whole
<1>19. CASE CheckIdentity
  BY <1>19 DEF RootInv, RootCauseReported, CheckIdentity, IdentityEnd, EndWith, Whole
<1>20. CASE Unwind
  BY <1>20 DEF RootInv, RootCauseReported, Unwind, LockFree
<1>21. CASE JoinCoordinator
  BY <1>21 DEF RootInv, RootCauseReported, JoinCoordinator
<1>22. CASE ShutdownExecutors
  BY <1>22 DEF RootInv, RootCauseReported, ShutdownExecutors, CancelPending
<1>23. ASSUME NEW i \in Units, CloseReachable(i) PROVE RootInv'
  BY <1>23 DEF RootInv, RootCauseReported, CloseReachable, CloseRegistry
<1>24. CASE FinishClosing
  BY <1>24 DEF RootInv, RootCauseReported, FinishClosing, Whole
<1>25. ASSUME NEW c \in {"request", "telemetry"}, ExternalFailure(c) PROVE RootInv'
  BY <1>25 DEF RootInv, RootCauseReported, ExternalFailure
<1>26. CASE SwapBinary
  BY <1>26 DEF RootInv, RootCauseReported, SwapBinary
<1>27. CASE UNCHANGED vars
  BY <1>27 DEF RootInv, RootCauseReported, vars
<1>28. QED
  BY <1>1, <1>2, <1>3, <1>4, <1>5, <1>6, <1>7, <1>8, <1>9, <1>9a, <1>9b, <1>9c, <1>10,
     <1>11, <1>12, <1>13, <1>14, <1>15, <1>16, <1>17, <1>18, <1>19, <1>20, <1>21, <1>22, <1>23, <1>24, <1>25,
     <1>26, <1>27
  DEF Next, WorkerStep, CoordinatorStep, GeneratorStep, CallerStep, EnvironmentStep, Terminated

\* The pipeline starts without a failure and without a cancelled task.
LEMMA RootInit == Init => RootInv
BY DEF Init, RootInv, RootCauseReported, NoEnd, Whole

\* Whatever fails and in whatever order, neither the pipeline's failure nor
\* the exception the consumer gets is the echo of a cancellation.
THEOREM RootCauses == Spec => []RootCauseReported
<1>1. RootInv => RootCauseReported
  BY DEF RootInv
<1>2. QED BY <1>1, RootInit, RootStep, TypeCorrect, PTL DEF Spec

\* Once the event is set the coordinator has stopped submitting and the
\* consumer has stopped yielding.
THEOREM NothingAdmittedAfterCancel == Spec => NoAdmissionAfterCancel
<1>1. TypeOK /\ RootInv /\ [Next]_vars =>
        [cancelled => /\ UNCHANGED <<nextConfiguration, nextConversion>>
                      /\ held' <= held /\ delivered' = delivered]_vars
  <2> SUFFICES ASSUME TypeOK, RootInv, Next, cancelled
               PROVE  /\ UNCHANGED <<nextConfiguration, nextConversion>>
                      /\ held' <= held /\ delivered' = delivered
    OBVIOUS
  <2> USE DEF poolVars, scanVars, coordVars, consumerVars, envVars
  <2>1. ~CoordinatorSubmits
    BY DEF RootInv, CoordinatorSubmits, Asked
  <2>2. ~Yield
    BY DEF RootInv, Yield, FutureCounts
  <2> DEFINE Frame == UNCHANGED <<nextConfiguration, nextConversion, held, delivered>>
  <2>3. CASE \E i \in Units : WorkerStep(i)
    <3>1. Frame
      BY <2>3 DEF WorkerStep, StartAnalysis, Spool, AnalysisSucceeds, AnalysisFails,
                  StartConversion, ConversionSucceeds, ConversionFails, ConversionEnds
    <3>2. QED BY <3>1 DEF TypeOK
  <2>4. CASE CoordinatorStep
    <3>1. Frame
      BY <2>1, <2>4 DEF CoordinatorStep, CoordinatorStops, CoordinatorSettles,
                        CoordinatorSeesRequestFailure, CoordinatorLooks, CoordinatorAsksAnalysis,
                        CoordinatorAsksConversion, Asks, CoordinatorSeesFailure
    <3>2. QED BY <3>1 DEF TypeOK
  <2>5. CASE GeneratorStep
    <3>1. Frame
      BY <2>2, <2>5 DEF GeneratorStep, RaiseRequestFailure, RaiseFailure, RaiseResult, Raise,
                        CheckIdentity, Unwind, JoinCoordinator, ShutdownExecutors,
                        CloseReachable, FinishClosing
    <3>2. QED BY <3>1 DEF TypeOK
  <2>6. CASE CallerStep
    <3>1. /\ UNCHANGED <<nextConfiguration, nextConversion, delivered>>
          /\ held' = held - 1
      BY <2>6 DEF CallerStep, Resume, CallerCloses, ReleaseBatch
    <3>2. QED BY <3>1 DEF TypeOK
  <2>7. CASE EnvironmentStep \/ Terminated
    <3>1. Frame
      BY <2>7 DEF EnvironmentStep, ExternalFailure, SwapBinary, Terminated, vars
    <3>2. QED BY <3>1 DEF TypeOK
  <2>8. QED BY <2>3, <2>4, <2>5, <2>6, <2>7 DEF Next
<1>2. QED
  BY <1>1, RootInit, RootStep, TypeCorrect, PTL DEF Spec, NoAdmissionAfterCancel

-----------------------------------------------------------------------------
(* The window of units in the pipeline.                                    *)

\* How many batches have come back from the caller.
Released == IF consumer = "yielded" THEN delivered - 1 ELSE delivered

\* The units that own a registry slot are those between the last batch that
\* came back and the next configuration: `held` counts exactly them, and the
\* futures kept by the converters are the part before nextConversion.
WindowInv ==
  /\ held = nextConfiguration - Released /\ held <= Registries
  /\ consumer = "yielded" => delivered > 0
  /\ Released <= nextConversion /\ nextConversion <= nextConfiguration /\ nextConfiguration <= N
  /\ converting = Released .. nextConversion - 1
  /\ Cardinality(converting) <= Domain
  /\ Cardinality(tracked) <= Workers

\* What the futures and the registry of a unit have to do with its place in
\* that window.
UnitInv(i) ==
  /\ analysis[i] # "unsubmitted" <=> i < nextConfiguration
  /\ conversion[i] # "unsubmitted" <=> i < nextConversion
  /\ analysis[i] \in {"pending", "running"} => i \in tracked
  /\ conversion[i] # "unsubmitted" => analysis[i] = "ok"
  /\ registry[i] = "open" => /\ analysis[i] \in {"running", "ok"}
                             /\ conversion[i] \notin {"ok", "failed"}
  /\ i < delivered => conversion[i] = "ok"

\* The same for the coordinator's maps, what it has found, and the latched failure.
MapsInv ==
  /\ \A i \in completedFailures : Failed(i)
  /\ \A i \in tracked : i >= nextConversion
  /\ \A i \in waiting : i >= nextConversion /\ analysis[i] = "ok" /\ i \notin tracked
  /\ failure.unit < N => delivered <= failure.unit

PrefixInv == WindowInv /\ (\A i \in Units : UnitInv(i)) /\ MapsInv

\* What CoordinatorSubmits admits: two intervals that fit the bounds.
LEMMA Submitted ==
  ASSUME TypeOK, PrefixInv
  PROVE  /\ ToConvert = nextConversion .. nextConversion + Cardinality(ToConvert) - 1
         /\ ToAnalyze = nextConfiguration .. nextConfiguration + Cardinality(ToAnalyze) - 1
         /\ nextConversion + Cardinality(ToConvert) <= nextConfiguration
         /\ nextConfiguration + Cardinality(ToAnalyze) <= N
         /\ Cardinality(ToConvert) <= Domain - Cardinality(converting)
         /\ Cardinality(ToAnalyze) <= Workers - Cardinality(tracked)
         /\ Cardinality(ToAnalyze) <= Registries - held
         /\ Cardinality(ToConvert) \in Nat /\ Cardinality(ToAnalyze) \in Nat
<1> DEFINE d == Domain - Cardinality(converting)
           w == Workers - Cardinality(tracked)
           r == Registries - held
<1>1. N \in Nat /\ N > 0 /\ Units = 0 .. N - 1 /\ Domain \in Nat /\ Workers \in Nat /\ Registries \in Nat
  BY PipelineAssumption DEF Units
<1>2. ToConvert \subseteq Units /\ ToAnalyze \subseteq Units /\ waiting \subseteq Units
  BY DEF TypeOK, ToConvert, ToAnalyze
<1>3. /\ Cardinality(ToConvert) \in Nat /\ Cardinality(ToAnalyze) \in Nat
      /\ Cardinality(converting) \in Nat /\ Cardinality(tracked) \in Nat
  <2>1. \A S \in SUBSET Units : Cardinality(S) \in Nat
    BY <1>1, UnitsFinite
  <2>2. converting \subseteq Units /\ tracked \subseteq Units
    BY DEF TypeOK
  <2>3. QED BY <1>2, <2>1, <2>2
<1>4. d \in Nat /\ w \in Nat /\ r \in Nat
  <2>1. held \in Nat
    <3>1. held \in Int /\ nextConfiguration \in Nat /\ nextConversion \in Nat /\ Released \in Int
      BY DEF TypeOK, Released
    <3>2. held = nextConfiguration - Released /\ Released <= nextConversion
          /\ nextConversion <= nextConfiguration
      BY DEF PrefixInv, WindowInv
    <3>3. QED BY <3>1, <3>2
  <2>2. /\ Cardinality(converting) <= Domain /\ held <= Registries
        /\ Cardinality(tracked) <= Workers
    BY DEF PrefixInv, WindowInv
  <2>3. QED BY <1>1, <1>3, <2>1, <2>2
<1>5. nextConversion \in 0 .. N /\ nextConfiguration \in 0 .. N /\ nextConversion <= nextConfiguration
  BY <1>1 DEF TypeOK, PrefixInv, WindowInv
<1>6. /\ ToConvert = nextConversion .. nextConversion + Cardinality(ToConvert) - 1
      /\ nextConversion + Cardinality(ToConvert) <= N
  <2>1. ASSUME NEW i \in ToConvert
        PROVE  i >= nextConversion /\ nextConversion .. i \subseteq ToConvert
    <3>1. i \in Nat /\ i >= nextConversion /\ nextConversion .. i \subseteq waiting /\ i - nextConversion < d
      BY <1>1, <1>2 DEF ToConvert
    <3>2. ASSUME NEW j \in nextConversion .. i PROVE j \in ToConvert
      <4>1. j \in waiting /\ j >= nextConversion /\ j \in Nat
        BY <1>5, <3>1
      <4>2. nextConversion .. j \subseteq waiting
        BY <1>5, <3>1, <4>1
      <4>3. j - nextConversion < d
        BY <1>4, <1>5, <3>1, <4>1
      <4>4. QED BY <4>1, <4>2, <4>3 DEF ToConvert
    <3>3. QED BY <3>1, <3>2
  <2>2. QED BY <1>2, <1>5, <2>1, InitialRun
<1>7. /\ ToAnalyze = nextConfiguration .. nextConfiguration + Cardinality(ToAnalyze) - 1
      /\ nextConfiguration + Cardinality(ToAnalyze) <= N
  <2>1. ASSUME NEW i \in ToAnalyze
        PROVE  i >= nextConfiguration /\ nextConfiguration .. i \subseteq ToAnalyze
    <3>1. i \in Units /\ i >= nextConfiguration /\ i - nextConfiguration < w /\ i - nextConfiguration < r
      BY DEF ToAnalyze, Admissible
    <3>2. ASSUME NEW j \in nextConfiguration .. i PROVE j \in ToAnalyze
      <4>1. j \in Units /\ j >= nextConfiguration /\ j - nextConfiguration < w /\ j - nextConfiguration < r
        BY <1>1, <1>4, <1>5, <3>1
      <4>2. QED BY <4>1 DEF ToAnalyze, Admissible
    <3>3. QED BY <3>1, <3>2
  <2>2. QED BY <1>2, <1>5, <2>1, InitialRun
<1>8. Cardinality(ToConvert) <= d
  <2>1. CASE Cardinality(ToConvert) = 0
    BY <2>1, <1>4
  <2>2. CASE Cardinality(ToConvert) > 0
    <3>1. nextConversion + Cardinality(ToConvert) - 1 \in ToConvert
      BY <2>2, <1>3, <1>5, <1>6
    <3>2. (nextConversion + Cardinality(ToConvert) - 1) - nextConversion < d
      BY <3>1 DEF ToConvert
    <3>3. QED BY <3>2, <1>3, <1>4, <1>5
  <2>3. QED BY <1>3, <2>1, <2>2
<1>9. Cardinality(ToAnalyze) <= w /\ Cardinality(ToAnalyze) <= r
  <2>1. CASE Cardinality(ToAnalyze) = 0
    BY <2>1, <1>4
  <2>2. CASE Cardinality(ToAnalyze) > 0
    <3>1. nextConfiguration + Cardinality(ToAnalyze) - 1 \in ToAnalyze
      BY <2>2, <1>3, <1>5, <1>7
    <3>2. /\ (nextConfiguration + Cardinality(ToAnalyze) - 1) - nextConfiguration < w
          /\ (nextConfiguration + Cardinality(ToAnalyze) - 1) - nextConfiguration < r
      BY <3>1 DEF ToAnalyze, Admissible
    <3>3. QED BY <3>2, <1>3, <1>4, <1>5
  <2>3. QED BY <1>3, <2>1, <2>2
<1>10. nextConversion + Cardinality(ToConvert) <= nextConfiguration
  <2>1. CASE Cardinality(ToConvert) = 0
    BY <2>1, <1>5
  <2>2. CASE Cardinality(ToConvert) > 0
    <3> DEFINE last == nextConversion + Cardinality(ToConvert) - 1
    <3>1. last \in ToConvert /\ last \in Nat
      BY <2>2, <1>3, <1>5, <1>6
    <3>2. last \in Units /\ analysis[last] = "ok"
      BY <3>1, <1>2 DEF ToConvert, PrefixInv, MapsInv
    <3>3. last < nextConfiguration
      BY <3>2 DEF PrefixInv, UnitInv
    <3>4. QED BY <3>1, <3>3, <1>3, <1>5
  <2>3. QED BY <1>3, <2>1, <2>2
<1>11. QED BY <1>3, <1>6, <1>7, <1>8, <1>9, <1>10

\* The step that submits: the two intervals move to their new places.
LEMMA SubmitsKeepsPrefix ==
  ASSUME TypeOK, PrefixInv, CoordinatorSubmits
  PROVE  PrefixInv'
<1> USE DEF poolVars, scanVars, coordVars, consumerVars, envVars
<1> DEFINE c == Cardinality(ToConvert)
           a == Cardinality(ToAnalyze)
<1>1. N \in Nat /\ N > 0 /\ Units = 0 .. N - 1 /\ Domain \in Nat /\ Workers \in Nat /\ Registries \in Nat
  BY PipelineAssumption DEF Units
<1>2. /\ nextConversion' = nextConversion + c /\ nextConfiguration' = nextConfiguration + a
      /\ held' = held + a /\ converting' = converting \cup ToConvert
      /\ tracked' = tracked \cup ToAnalyze /\ waiting' = waiting \ ToConvert
      /\ analysis' = Submit(analysis, ToAnalyze) /\ conversion' = Submit(conversion, ToConvert)
      /\ UNCHANGED <<registry, failure, consumer, delivered>>
      /\ completedFailures' = {}
  BY DEF CoordinatorSubmits
<1>3. /\ ToConvert = nextConversion .. nextConversion + c - 1
      /\ ToAnalyze = nextConfiguration .. nextConfiguration + a - 1
      /\ nextConversion + c <= nextConfiguration /\ nextConfiguration + a <= N
      /\ c <= Domain - Cardinality(converting) /\ a <= Workers - Cardinality(tracked)
      /\ a <= Registries - held /\ c \in Nat /\ a \in Nat
  BY Submitted
<1>4. /\ ToConvert \subseteq Units /\ ToAnalyze \subseteq Units /\ waiting \subseteq Units
      /\ tracked \subseteq Units /\ converting \subseteq Units
  BY DEF TypeOK, ToConvert, ToAnalyze
<1>5. \A S \in SUBSET Units : IsFiniteSet(S) /\ Cardinality(S) \in Nat
  BY <1>1, UnitsFinite
<1>6. \A S, T \in SUBSET Units : Cardinality(S \cup T) <= Cardinality(S) + Cardinality(T)
  <2> TAKE S, T \in SUBSET Units
  <2>1. IsFiniteSet(S) /\ IsFiniteSet(T) /\ Cardinality(S) \in Nat /\ Cardinality(T) \in Nat
        /\ Cardinality(S \cap T) \in Nat
    BY <1>5
  <2>2. Cardinality(S \cup T) = Cardinality(S) + Cardinality(T) - Cardinality(S \cap T)
    BY <2>1, FS_Union
  <2>3. QED BY <2>1, <2>2
<1>7. \A i \in waiting : i >= nextConversion /\ analysis[i] = "ok" /\ i < nextConfiguration
  BY <1>4 DEF PrefixInv, MapsInv, UnitInv
<1>8. ToConvert \subseteq waiting
  BY DEF ToConvert
<1> HIDE DEF c, a
<1>9. nextConversion \in Nat /\ nextConfiguration \in Nat /\ held \in Int /\ delivered \in Nat
      /\ Released \in Int /\ Released >= 0
  BY <1>1 DEF TypeOK, PrefixInv, WindowInv, Released
<1>10. WindowInv'
  <2>1. Cardinality(converting') <= Domain
    <3>1. Cardinality(converting') <= Cardinality(converting) + c
      BY <1>2, <1>4, <1>6 DEF c
    <3>2. Cardinality(converting) \in Nat /\ Cardinality(converting') \in Nat
      BY <1>2, <1>4, <1>5
    <3>3. QED BY <1>1, <1>3, <3>1, <3>2
  <2>2. Cardinality(tracked') <= Workers
    <3>1. Cardinality(tracked') <= Cardinality(tracked) + a
      BY <1>2, <1>4, <1>6 DEF a
    <3>2. Cardinality(tracked) \in Nat /\ Cardinality(tracked') \in Nat
      BY <1>2, <1>4, <1>5
    <3>3. QED BY <1>1, <1>3, <3>1, <3>2
  <2>3. Released' = Released
    BY <1>2 DEF Released
  <2>4. converting' = Released' .. nextConversion' - 1
    BY <1>2, <1>3, <1>9, <2>3 DEF PrefixInv, WindowInv
  <2>5. held' = nextConfiguration' - Released' /\ held' <= Registries
    BY <1>1, <1>2, <1>3, <1>9, <2>3 DEF PrefixInv, WindowInv
  <2>6. /\ Released' <= nextConversion' /\ nextConversion' <= nextConfiguration'
        /\ nextConfiguration' <= N
    BY <1>1, <1>2, <1>3, <1>9, <2>3 DEF PrefixInv, WindowInv
  <2>7. consumer' = "yielded" => delivered' > 0
    BY <1>2 DEF PrefixInv, WindowInv
  <2>8. QED BY <2>1, <2>2, <2>4, <2>5, <2>6, <2>7 DEF WindowInv
<1>11. ASSUME NEW i \in Units PROVE UnitInv(i)'
  <2>1. /\ analysis'[i] = IF i \in ToAnalyze THEN "pending" ELSE analysis[i]
        /\ conversion'[i] = IF i \in ToConvert THEN "pending" ELSE conversion[i]
        /\ registry'[i] = registry[i] /\ delivered' = delivered
    BY <1>2, <1>11 DEF Submit
  <2>2. i \in Nat /\ UnitInv(i)
    BY <1>1, <1>11 DEF PrefixInv
  <2>3. i \in ToAnalyze <=> i >= nextConfiguration /\ i < nextConfiguration'
    BY <1>2, <1>3, <1>9, <2>2
  <2>4. i \in ToConvert <=> i >= nextConversion /\ i < nextConversion'
    BY <1>2, <1>3, <1>9, <2>2
  <2>5. i \in ToConvert => i \notin ToAnalyze /\ analysis[i] = "ok"
    BY <1>7, <1>8, <1>9, <2>2, <2>3
  <2>6. nextConversion <= nextConversion' /\ nextConfiguration <= nextConfiguration'
    BY <1>2, <1>3, <1>9
  <2>7. analysis'[i] # "unsubmitted" <=> i < nextConfiguration'
    BY <1>2, <1>3, <1>9, <2>1, <2>2, <2>3, <2>6 DEF UnitInv
  <2>8. conversion'[i] # "unsubmitted" <=> i < nextConversion'
    BY <1>2, <1>3, <1>9, <2>1, <2>2, <2>4, <2>6 DEF UnitInv
  <2>9. analysis'[i] \in {"pending", "running"} => i \in tracked'
    BY <1>2, <2>1, <2>2 DEF UnitInv
  <2>10. conversion'[i] # "unsubmitted" => analysis'[i] = "ok"
    BY <1>9, <2>1, <2>2, <2>3, <2>5 DEF UnitInv
  <2>11. registry'[i] = "open" => /\ analysis'[i] \in {"running", "ok"}
                                  /\ conversion'[i] \notin {"ok", "failed"}
    BY <1>9, <2>1, <2>2, <2>3 DEF UnitInv
  <2>12. i < delivered' => conversion'[i] = "ok"
    BY <1>9, <2>1, <2>2, <2>4 DEF UnitInv
  <2>13. QED BY <2>7, <2>8, <2>9, <2>10, <2>11, <2>12 DEF UnitInv
<1>12. MapsInv'
  <2>1. ASSUME NEW i \in tracked' PROVE i >= nextConversion'
    <3>1. i \in Nat
      <4>1. tracked' \subseteq Units
        BY <1>2, <1>4
      <4>2. Units \subseteq Nat
        BY <1>1
      <4>3. QED BY <4>1, <4>2
    <3>2. CASE i \in ToAnalyze
      BY <1>2, <1>3, <1>9, <3>1, <3>2
    <3>3. CASE i \in tracked
      <4>1. i >= nextConversion /\ i \notin waiting
        BY <3>3 DEF PrefixInv, MapsInv
      <4>2. i \notin ToConvert
        BY <1>8, <4>1
      <4>3. QED BY <1>2, <1>3, <1>9, <3>1, <4>1, <4>2
    <3>4. QED BY <1>2, <2>1, <3>2, <3>3
  <2>2. ASSUME NEW i \in waiting'
        PROVE  i >= nextConversion' /\ analysis'[i] = "ok" /\ i \notin tracked'
    <3>1. i \in Units /\ i \in Nat /\ i \in waiting /\ i \notin ToConvert
      BY <1>1, <1>2, <1>4, <2>2
    <3>2. i >= nextConversion /\ analysis[i] = "ok" /\ i < nextConfiguration /\ i \notin tracked
      BY <1>7, <3>1 DEF PrefixInv, MapsInv
    <3>3. i \notin ToAnalyze
      BY <1>3, <1>9, <3>1, <3>2
    <3>4. analysis'[i] = analysis[i]
      BY <1>2, <3>1, <3>3 DEF Submit
    <3>5. QED BY <1>2, <1>3, <1>9, <3>1, <3>2, <3>3, <3>4
  <2>3. failure'.unit < N => delivered' <= failure'.unit
    BY <1>2 DEF PrefixInv, MapsInv
  <2>4. QED BY <1>2, <2>1, <2>2, <2>3 DEF MapsInv
<1>13. QED BY <1>10, <1>11, <1>12 DEF PrefixInv

\* Steps of the coordinator that fail the pipeline, and every other step that
\* cancels pending futures, keep what the invariant says of a unit.
LEMMA CancellingKeepsUnits ==
  ASSUME TypeOK, NEW S, NEW T, NEW i \in Units, UnitInv(i),
         analysis' = CancelPending(analysis, S), conversion' = CancelPending(conversion, T),
         UNCHANGED <<registry, delivered, nextConfiguration, nextConversion, tracked>>
  PROVE  UnitInv(i)' /\ (analysis[i] = "ok" <=> analysis'[i] = "ok") /\ (Failed(i) <=> Failed(i)')
<1>1. /\ analysis'[i] = analysis[i] \/ (analysis[i] = "pending" /\ analysis'[i] = "cancelled")
      /\ conversion'[i] = conversion[i]
         \/ (conversion[i] = "pending" /\ conversion'[i] = "cancelled")
  BY DEF CancelPending
<1>2. QED BY <1>1 DEF UnitInv, Failed

\* The coordinator's two ways to fail the pipeline keep the prefix invariant.
LEMMA FailuresKeepPrefix ==
  ASSUME TypeOK, PrefixInv, CoordinatorSeesRequestFailure \/ CoordinatorSeesFailure
  PROVE  PrefixInv'
<1> USE DEF poolVars, scanVars, coordVars, consumerVars, envVars
<1>1. N \in Nat /\ N > 0 /\ Units = 0 .. N - 1
  BY PipelineAssumption DEF Units
<1>2. /\ analysis' = CancelPending(analysis, tracked)
      /\ conversion' = CancelPending(conversion, converting)
      /\ completedFailures' \subseteq completedFailures
      /\ UNCHANGED <<registry, tracked, waiting, nextConfiguration, nextConversion, held,
                     converting, consumer, delivered>>
  BY DEF CoordinatorSeesRequestFailure, CoordinatorSeesFailure, FailPipeline
<1>3. \A i \in Units : /\ UnitInv(i)' /\ (analysis[i] = "ok" <=> analysis'[i] = "ok")
                       /\ Failed(i) <=> Failed(i)'
  BY <1>2, CancellingKeepsUnits DEF PrefixInv
<1>4. WindowInv'
  BY <1>2 DEF PrefixInv, WindowInv, Released
<1>5. failure'.unit < N => delivered' <= failure'.unit
  <2>1. CASE CoordinatorSeesRequestFailure
    <3>1. failure' = RequestEnd
      BY <2>1 DEF CoordinatorSeesRequestFailure, FailPipeline
    <3>2. failure'.unit = N
      BY <3>1 DEF RequestEnd, Whole
    <3>3. QED BY <1>1, <3>2
  <2>2. CASE CoordinatorSeesFailure
    <3> DEFINE u == Earliest(completedFailures)
    <3>1. completedFailures \subseteq Units /\ completedFailures # {}
      BY <2>2 DEF TypeOK, CoordinatorSeesFailure
    <3>2. u \in completedFailures
      BY <3>1, EarliestIsLeast
    <3>3. failure' = [unit |-> u, cause |-> cause[u]]
      BY <2>2 DEF CoordinatorSeesFailure, FailPipeline
    <3>4. failure'.unit = u
      BY <3>3
    <3>5. u \in Units /\ (analysis[u] = "failed" \/ conversion[u] = "failed")
      BY <3>1, <3>2 DEF PrefixInv, MapsInv, Failed
    <3>6. ~(u < delivered)
      BY <3>5 DEF PrefixInv, UnitInv
    <3> HIDE DEF u
    <3>7. delivered \in Nat /\ u \in Nat
      BY <1>1, <3>5 DEF TypeOK
    <3>8. QED BY <1>2, <3>4, <3>6, <3>7
  <2>3. QED BY <2>1, <2>2
<1>6. MapsInv'
  <2>1. ASSUME NEW i \in completedFailures' PROVE Failed(i)'
    BY <1>2, <1>3, <2>1 DEF TypeOK, PrefixInv, MapsInv
  <2>2. ASSUME NEW i \in waiting' PROVE i >= nextConversion' /\ analysis'[i] = "ok" /\ i \notin tracked'
    BY <1>2, <1>3, <2>2 DEF TypeOK, PrefixInv, MapsInv
  <2>3. \A i \in tracked' : i >= nextConversion'
    BY <1>2 DEF PrefixInv, MapsInv
  <2>4. QED BY <1>5, <2>1, <2>2, <2>3 DEF MapsInv
<1>7. QED BY <1>3, <1>4, <1>6 DEF PrefixInv

\* An analysis that is found done goes from one map to another, or to the failures.
LEMMA AskingKeepsPrefix ==
  ASSUME TypeOK, PrefixInv, NEW i \in Units,
         CoordinatorAsksAnalysis(i) \/ CoordinatorAsksConversion(i)
  PROVE  PrefixInv'
<1> USE DEF poolVars, scanVars, coordVars, consumerVars, envVars
<1>1. /\ UNCHANGED <<analysis, conversion, registry, nextConfiguration, nextConversion, held,
                     converting, consumer, delivered, failure>>
      /\ tracked' = tracked \/ (tracked' = tracked \ {i} /\ analysis[i] \in Done)
      /\ \/ waiting' = waiting
         \/ waiting' = waiting \cup {i} /\ analysis[i] = "ok" /\ i \in tracked
                                        /\ tracked' = tracked \ {i}
      /\ completedFailures' = completedFailures
         \/ (completedFailures' = completedFailures \cup {i} /\ Failed(i))
  BY DEF CoordinatorAsksAnalysis, CoordinatorAsksConversion, Asks, FirstOf, Collected, Noted,
         Failed, Done
<1>2. WindowInv'
  <2>1. tracked' \subseteq tracked /\ IsFiniteSet(tracked) /\ Cardinality(tracked) \in Nat
        /\ Workers \in Nat
    BY <1>1, UnitsFinite, PipelineAssumption DEF TypeOK
  <2>2. Cardinality(tracked') <= Cardinality(tracked) /\ Cardinality(tracked') \in Nat
    BY <2>1, FS_Subset, FS_CardinalityType
  <2>3. Cardinality(tracked') <= Workers
    BY <2>1, <2>2 DEF PrefixInv, WindowInv
  <2>4. QED BY <1>1, <2>3 DEF PrefixInv, WindowInv, Released
<1>3. ASSUME NEW j \in Units PROVE UnitInv(j)'
  <2>1. analysis[j] \in {"pending", "running"} => j \in tracked'
    BY <1>1 DEF PrefixInv, UnitInv, Done
  <2>2. QED BY <1>1, <2>1 DEF PrefixInv, UnitInv
<1>4. MapsInv'
  BY <1>1 DEF PrefixInv, MapsInv, Failed
<1>5. QED BY <1>2, <1>3, <1>4 DEF PrefixInv

\* A step that moves only futures, registries and causes of one unit, along
\* the life of that unit.
LEMMA WorkersKeepPrefix ==
  ASSUME TypeOK, PrefixInv, NEW i \in Units, WorkerStep(i)
  PROVE  PrefixInv'
<1> USE DEF poolVars, scanVars, coordVars, consumerVars, envVars
<1>1. /\ UNCHANGED <<coordVars, converting, held, failure, consumerVars>>
      /\ \A j \in Units \ {i} : /\ analysis'[j] = analysis[j] /\ conversion'[j] = conversion[j]
                               /\ registry'[j] = registry[j]
  BY DEF TypeOK, WorkerStep, StartAnalysis, Spool, AnalysisSucceeds, AnalysisFails,
         StartConversion, ConversionSucceeds, ConversionFails, ConversionEnds, CloseRegistry
<1>2. UnitInv(i)
  BY DEF PrefixInv
<1>3. /\ UnitInv(i)'
      /\ analysis[i] = "ok" => analysis'[i] = "ok"
      /\ Failed(i) => Failed(i)'
  <2> USE DEF Failed
  <2>1. CASE StartAnalysis(i)
    BY <1>2, <2>1 DEF TypeOK, StartAnalysis, UnitInv
  <2>2. CASE Spool(i)
    BY <1>2, <2>2 DEF TypeOK, Spool, UnitInv
  <2>3. CASE AnalysisSucceeds(i)
    BY <1>2, <2>3 DEF TypeOK, AnalysisSucceeds, UnitInv
  <2>4. CASE \E c \in TaskCauses : AnalysisFails(i, c)
    BY <1>2, <2>4 DEF TypeOK, AnalysisFails, CloseRegistry, UnitInv
  <2>5. CASE StartConversion(i)
    BY <1>2, <2>5 DEF TypeOK, StartConversion, UnitInv
  <2>6. CASE ConversionSucceeds(i)
    BY <1>2, <2>6 DEF TypeOK, ConversionSucceeds, ConversionEnds, CloseRegistry, UnitInv
  <2>7. CASE \E c \in TaskCauses : ConversionFails(i, c)
    BY <1>2, <2>7 DEF TypeOK, ConversionFails, ConversionEnds, CloseRegistry, UnitInv
  <2>8. QED BY <2>1, <2>2, <2>3, <2>4, <2>5, <2>6, <2>7 DEF WorkerStep
<1>4. ASSUME NEW j \in Units PROVE UnitInv(j)'
  <2>1. CASE j = i
    BY <1>3, <2>1
  <2>2. CASE j # i
    BY <1>1, <2>2 DEF PrefixInv, UnitInv
  <2>3. QED BY <2>1, <2>2
<1>5. WindowInv'
  BY <1>1 DEF PrefixInv, WindowInv, Released
<1>6. MapsInv'
  <2>1. ASSUME NEW j \in completedFailures' PROVE Failed(j)'
    BY <1>1, <1>3, <2>1 DEF TypeOK, PrefixInv, MapsInv, Failed
  <2>2. ASSUME NEW j \in waiting' PROVE j >= nextConversion' /\ analysis'[j] = "ok" /\ j \notin tracked'
    BY <1>1, <1>3, <2>2 DEF TypeOK, PrefixInv, MapsInv
  <2>3. (\A j \in tracked' : j >= nextConversion') /\ (failure'.unit < N => delivered' <= failure'.unit)
    BY <1>1 DEF PrefixInv, MapsInv
  <2>4. QED BY <2>1, <2>2, <2>3 DEF MapsInv
<1>7. QED BY <1>4, <1>5, <1>6 DEF PrefixInv

\* The step that takes a batch out, and the two that bring one back.
LEMMA ConsumerKeepsPrefix ==
  ASSUME TypeOK, PrefixInv, Yield \/ Resume \/ CallerCloses
  PROVE  PrefixInv'
<1> USE DEF poolVars, scanVars, coordVars, consumerVars, envVars
<1>1. N \in Nat /\ N > 0 /\ Units = 0 .. N - 1 /\ Domain \in Nat /\ delivered \in 0 .. N
  BY PipelineAssumption DEF Units, TypeOK
<1>2. nextConversion \in Nat /\ nextConfiguration \in Nat /\ held \in Int
  BY DEF TypeOK
<1>3. CASE Yield
  <2>1. /\ consumer = "seek" /\ consumer' = "yielded" /\ delivered' = delivered + 1
        /\ delivered < N /\ conversion[delivered] = "ok" /\ failure = NoEnd
        /\ UNCHANGED <<poolVars, coordVars, converting, held, failure>>
    BY <1>3 DEF Yield, FutureCounts, BatchReady
  <2>2. Released' = Released
    BY <1>1, <2>1 DEF Released
  <2>3. WindowInv'
    BY <1>1, <2>1, <2>2 DEF PrefixInv, WindowInv
  <2>4. ASSUME NEW i \in Units PROVE UnitInv(i)'
    <3>1. i \in Nat /\ UnitInv(i)
      BY <1>1 DEF PrefixInv
    <3>2. i < delivered' => i < delivered \/ i = delivered
      BY <1>1, <2>1, <3>1
    <3>3. i < delivered' => conversion'[i] = "ok"
      BY <2>1, <3>1, <3>2 DEF UnitInv
    <3>4. QED BY <2>1, <3>1, <3>3 DEF UnitInv
  <2>5. failure'.unit = N
    BY <2>1 DEF NoEnd, Whole
  <2>6. MapsInv'
    BY <1>1, <2>1, <2>5 DEF PrefixInv, MapsInv, Failed
  <2>7. QED BY <2>3, <2>4, <2>6 DEF PrefixInv
<1>4. CASE Resume \/ CallerCloses
  <2>1. /\ consumer = "yielded" /\ consumer' # "yielded" /\ delivered' = delivered
        /\ converting' = converting \ {delivered - 1} /\ held' = held - 1
        /\ UNCHANGED <<poolVars, coordVars, failure>>
    BY <1>4 DEF Resume, CallerCloses, ReleaseBatch, EndWith
  <2>2. delivered > 0 /\ Released = delivered - 1 /\ Released' = delivered
    BY <2>1 DEF PrefixInv, WindowInv, Released
  <2>3. delivered <= nextConversion
    <3>1. delivered - 1 \in Units /\ delivered - 1 < delivered
      BY <1>1, <2>2
    <3>2. delivered - 1 < nextConversion
      BY <3>1 DEF PrefixInv, UnitInv
    <3>3. QED BY <1>1, <1>2, <3>2
  <2>4. converting' = Released' .. nextConversion' - 1
    BY <1>1, <1>2, <2>1, <2>2 DEF PrefixInv, WindowInv
  <2>5. Cardinality(converting') <= Domain
    <3>1. converting' \subseteq converting /\ IsFiniteSet(converting)
          /\ Cardinality(converting) \in Nat
      BY <1>1, <2>1, UnitsFinite DEF TypeOK
    <3>2. Cardinality(converting') <= Cardinality(converting) /\ Cardinality(converting') \in Nat
      BY <3>1, FS_Subset, FS_CardinalityType
    <3>3. QED BY <1>1, <3>1, <3>2 DEF PrefixInv, WindowInv
  <2>6. held' = nextConfiguration' - Released' /\ held' <= Registries
    BY <1>1, <1>2, <2>1, <2>2, PipelineAssumption DEF PrefixInv, WindowInv
  <2>7. WindowInv'
    BY <1>1, <1>2, <2>1, <2>2, <2>3, <2>4, <2>5, <2>6 DEF PrefixInv, WindowInv
  <2>8. (\A i \in Units : UnitInv(i)') /\ MapsInv'
    BY <2>1 DEF PrefixInv, UnitInv, MapsInv, Failed
  <2>9. QED BY <2>7, <2>8 DEF PrefixInv
<1>5. QED BY <1>3, <1>4

\* The consumer's way out of the generator.
LEMMA UnwindingKeepsPrefix ==
  ASSUME TypeOK, PrefixInv,
         Unwind \/ ShutdownExecutors \/ \E i \in Units : CloseReachable(i)
  PROVE  PrefixInv'
<1> USE DEF poolVars, scanVars, coordVars, consumerVars, envVars
<1>1. CASE Unwind \/ ShutdownExecutors
  <2>1. /\ \E S, T : /\ analysis' = CancelPending(analysis, S)
                     /\ conversion' = CancelPending(conversion, T)
        /\ consumer # "yielded" /\ consumer' # "yielded"
        /\ UNCHANGED <<registry, coordVars, converting, held, failure, delivered>>
    BY <1>1 DEF Unwind, ShutdownExecutors
  <2>2. \A i \in Units : /\ UnitInv(i)' /\ (analysis[i] = "ok" <=> analysis'[i] = "ok")
                         /\ Failed(i) <=> Failed(i)'
    BY <2>1, CancellingKeepsUnits DEF PrefixInv
  <2>3. WindowInv'
    BY <2>1 DEF PrefixInv, WindowInv, Released
  <2>4. MapsInv'
    BY <2>1, <2>2 DEF TypeOK, PrefixInv, MapsInv
  <2>5. QED BY <2>2, <2>3, <2>4 DEF PrefixInv
<1>2. ASSUME NEW i \in Units, CloseReachable(i) PROVE PrefixInv'
  <2>1. /\ registry' = [registry EXCEPT ![i] = "closed"]
        /\ UNCHANGED <<analysis, conversion, coordVars, converting, held, failure, consumerVars>>
    BY <1>2 DEF CloseReachable, CloseRegistry
  <2>2. \A j \in Units : UnitInv(j)'
    BY <2>1 DEF TypeOK, PrefixInv, UnitInv
  <2>3. WindowInv' /\ MapsInv'
    BY <2>1 DEF PrefixInv, WindowInv, MapsInv, Released, Failed
  <2>4. QED BY <2>2, <2>3 DEF PrefixInv
<1>3. QED BY <1>1, <1>2

\* Every step of every thread keeps the prefix invariant.
LEMMA PrefixStep == TypeOK /\ PrefixInv /\ [Next]_vars => PrefixInv'
<1> SUFFICES ASSUME TypeOK, PrefixInv, [Next]_vars PROVE PrefixInv'
  OBVIOUS
<1>1. CASE \E i \in Units : WorkerStep(i)
  BY <1>1, WorkersKeepPrefix
<1>2. CASE CoordinatorSubmits
  BY <1>2, SubmitsKeepsPrefix
<1>3. CASE CoordinatorSeesRequestFailure \/ CoordinatorSeesFailure
  BY <1>3, FailuresKeepPrefix
<1>3a. CASE \E i \in Units : CoordinatorAsksAnalysis(i) \/ CoordinatorAsksConversion(i)
  BY <1>3a, AskingKeepsPrefix
<1>4. CASE Yield \/ Resume \/ CallerCloses
  BY <1>4, ConsumerKeepsPrefix
<1>5. CASE Unwind \/ ShutdownExecutors \/ \E i \in Units : CloseReachable(i)
  BY <1>5, UnwindingKeepsPrefix
<1>6. CASE \/ CoordinatorStops \/ CoordinatorLooks \/ CoordinatorSettles
           \/ RaiseRequestFailure \/ RaiseFailure \/ RaiseResult \/ CheckIdentity
           \/ JoinCoordinator \/ FinishClosing
           \/ (\E c \in {"request", "telemetry"} : ExternalFailure(c)) \/ SwapBinary
           \/ UNCHANGED vars
  <2>1. /\ UNCHANGED <<analysis, conversion, registry, tracked, waiting, nextConfiguration,
                       nextConversion, completedFailures, converting, held, failure,
                       delivered>>
        /\ consumer' = consumer \/ (consumer # "yielded" /\ consumer' # "yielded")
    BY <1>6 DEF CoordinatorStops, CoordinatorLooks, CoordinatorSettles, RaiseRequestFailure, RaiseFailure,
                RaiseResult, CheckIdentity, JoinCoordinator, FinishClosing, ExternalFailure,
                SwapBinary, Raise, EndWith, vars, poolVars, scanVars, coordVars, consumerVars, envVars
  <2>2. WindowInv'
    BY <2>1 DEF PrefixInv, WindowInv, Released
  <2>3. (\A i \in Units : UnitInv(i)') /\ MapsInv'
    BY <2>1 DEF PrefixInv, UnitInv, MapsInv, Failed
  <2>4. QED BY <2>2, <2>3 DEF PrefixInv
<1>7. QED
  BY <1>1, <1>2, <1>3, <1>3a, <1>4, <1>5, <1>6
  DEF Next, CoordinatorStep, GeneratorStep, CallerStep, EnvironmentStep, Terminated

\* The prefix invariant holds before anything is submitted.
LEMMA PrefixInit == Init => PrefixInv
<1> SUFFICES ASSUME Init PROVE PrefixInv
  OBVIOUS
<1>1. N \in Nat /\ N > 0 /\ Units = 0 .. N - 1 /\ Domain \in Nat /\ Workers \in Nat /\ Registries \in Nat
  BY PipelineAssumption DEF Units
<1>2. Cardinality({}) = 0
  BY FS_EmptySet
<1>3. Released = 0
  BY DEF Init, Released
<1>4. WindowInv
  BY <1>1, <1>2, <1>3 DEF Init, WindowInv
<1>5. \A i \in Units : UnitInv(i)
  BY <1>1 DEF Init, UnitInv
<1>6. MapsInv
  BY <1>1 DEF Init, MapsInv, NoEnd, Whole
<1>7. QED BY <1>4, <1>5, <1>6 DEF PrefixInv

\* The three bounds hold for any bounds: at most Workers analyzer runs, at
\* most Registries registries open or batches kept, at most Domain batches.
THEOREM BoundedAdmission == Spec => []AdmissionBounds
<1>1. TypeOK /\ PrefixInv => AdmissionBounds
  <2> SUFFICES ASSUME TypeOK, PrefixInv PROVE AdmissionBounds
    OBVIOUS
  <2> DEFINE running == {i \in Units : analysis[i] = "running"}
             window == Released .. nextConfiguration - 1
  <2>1. N \in Nat /\ N > 0 /\ Units = 0 .. N - 1 /\ Workers \in Nat /\ Registries \in Nat
    BY PipelineAssumption DEF Units
  <2>2. Cardinality(running) <= Workers
    <3>1. running \subseteq tracked /\ tracked \subseteq Units
      BY DEF TypeOK, PrefixInv, UnitInv
    <3>2. IsFiniteSet(tracked) /\ Cardinality(tracked) \in Nat /\ Cardinality(running) \in Nat
      BY <2>1, <3>1, UnitsFinite
    <3>3. Cardinality(running) <= Cardinality(tracked)
      BY <3>1, <3>2, FS_Subset
    <3>4. QED BY <2>1, <3>2, <3>3 DEF PrefixInv, WindowInv
  <2>3. Cardinality(Retained) <= Registries
    <3>1. /\ Released \in Int /\ Released >= 0 /\ Released <= nextConversion
          /\ nextConversion \in Nat /\ nextConfiguration \in Nat
          /\ nextConversion <= nextConfiguration /\ delivered \in Nat
      BY <2>1 DEF TypeOK, PrefixInv, WindowInv, Released
    <3>2. ASSUME NEW i \in Retained PROVE i \in window
      <4>1. i \in Nat
        BY <2>1 DEF Retained, OpenRegistries, TypeOK
      <4>2. CASE i \in converting
        BY <3>1, <4>1, <4>2 DEF PrefixInv, WindowInv
      <4>3. CASE i \in OpenRegistries
        <5>1. UnitInv(i) /\ registry[i] = "open"
          BY <4>3 DEF OpenRegistries, PrefixInv
        <5>2. i < nextConfiguration /\ ~(i < delivered)
          BY <5>1 DEF UnitInv
        <5>3. Released <= delivered
          BY <3>1 DEF Released
        <5>4. QED BY <3>1, <4>1, <5>2, <5>3
      <4>4. QED BY <3>2, <4>2, <4>3 DEF Retained
    <3>3. IsFiniteSet(window) /\ Cardinality(window) = IF Released > nextConfiguration - 1 THEN 0
                                      ELSE (nextConfiguration - 1) - Released + 1
      BY <3>1, FS_Interval
    <3>4. Cardinality(window) = held
      BY <3>1, <3>3 DEF PrefixInv, WindowInv
    <3>5. Cardinality(Retained) <= Cardinality(window) /\ IsFiniteSet(Retained)
      BY <3>2, <3>3, FS_Subset
    <3>6. Cardinality(Retained) \in Nat /\ held \in Int
      BY <3>5, FS_CardinalityType DEF TypeOK
    <3>7. QED BY <2>1, <3>4, <3>5, <3>6 DEF PrefixInv, WindowInv
  <2>4. QED BY <2>2, <2>3 DEF AdmissionBounds, PrefixInv, WindowInv
<1>2. QED BY <1>1, PrefixInit, PrefixStep, TypeCorrect, PTL DEF Spec

\* Only analyzed and converted units, without a gap, come before the output's
\* end; and a unit that fails the pipeline is never among them.
THEOREM SoundPrefix == Spec => []OnlySoundPrefix
<1>1. TypeOK /\ PrefixInv => OnlySoundPrefix
  <2> SUFFICES ASSUME TypeOK, PrefixInv PROVE OnlySoundPrefix
    OBVIOUS
  <2>1. ASSUME NEW i \in 0 .. delivered - 1 PROVE analysis[i] = "ok" /\ conversion[i] = "ok"
    <3>1. i \in Units /\ i < delivered
      BY PipelineAssumption DEF TypeOK, Units
    <3>2. UnitInv(i)
      BY <3>1 DEF PrefixInv
    <3>3. QED BY <3>1, <3>2 DEF UnitInv
  <2>2. QED BY <2>1 DEF OnlySoundPrefix, PrefixInv, MapsInv
<1>2. QED BY <1>1, PrefixInit, PrefixStep, TypeCorrect, PTL DEF Spec
-----------------------------------------------------------------------------
(* The earliest failure.                                                   *)

\* Outside the turn that asks the futures nothing is noted.  During it, a unit
\* that had failed when it began is still to be asked, or was found; and until
\* the pipeline ends, a failed analysis is in the map or was found.
ScanInv ==
  /\ coord # "read" => unread = {} /\ completedFailures = {} /\ failedBefore = {}
  /\ unread \subseteq tracked \cup converting
  /\ coord # "done" =>
       \A i \in Units : analysis[i] = "failed" => i \in tracked \cup completedFailures
  /\ \A i \in failedBefore : Failed(i) /\ i \in unread \cup completedFailures

\* Whatever has failed is in one of the two maps when the coordinator looks.
LEMMA FailedAreAsked ==
  ASSUME TypeOK, PrefixInv, ScanInv, coord \notin {"read", "done"}, NEW i \in Units, Failed(i)
  PROVE  i \in tracked \cup converting
<1>1. CASE analysis[i] = "failed"
  BY <1>1 DEF ScanInv
<1>2. CASE conversion[i] = "failed"
  <2>1. i < nextConversion /\ ~(i < delivered)
    BY <1>2 DEF PrefixInv, UnitInv
  <2>2. /\ Released \in Int /\ Released <= delivered /\ delivered \in Nat /\ nextConversion \in Nat
        /\ converting = Released .. nextConversion - 1 /\ i \in Nat
    BY PipelineAssumption DEF TypeOK, PrefixInv, WindowInv, Released, Units
  <2>3. QED BY <2>1, <2>2
<1>3. QED BY <1>1, <1>2 DEF Failed

\* Asking one future loses no failure: a unit whose analysis is still in the
\* map has no conversion yet, and one whose conversion is has no failed analysis.
LEMMA AskingKeepsScan ==
  ASSUME TypeOK, PrefixInv, ScanInv, NEW i \in Units,
         CoordinatorAsksAnalysis(i) \/ CoordinatorAsksConversion(i)
  PROVE  ScanInv'
<1> USE DEF poolVars, scanVars, coordVars, consumerVars, envVars
<1>1. /\ coord = "read" /\ unread' = unread \ {i} /\ i \in unread
      /\ UNCHANGED <<analysis, conversion, coord, failedBefore, converting>>
  BY DEF CoordinatorAsksAnalysis, CoordinatorAsksConversion, Asks, FirstOf
<1>2. CASE CoordinatorAsksAnalysis(i)
  <2>1. /\ i \in tracked
        /\ tracked' = IF analysis[i] \in Done THEN tracked \ {i} ELSE tracked
        /\ completedFailures' = IF analysis[i] = "failed" THEN completedFailures \cup {i}
                                ELSE completedFailures
    BY <1>2 DEF CoordinatorAsksAnalysis, FirstOf, Noted
  <2>2. conversion[i] # "failed"
    <3>1. i >= nextConversion /\ UnitInv(i) /\ i \in Nat /\ nextConversion \in Nat
      BY <2>1, PipelineAssumption DEF PrefixInv, MapsInv, TypeOK, Units
    <3>2. QED BY <3>1 DEF UnitInv
  <2>3. QED BY <1>1, <2>1, <2>2 DEF ScanInv, Failed
<1>3. CASE CoordinatorAsksConversion(i)
  <2>1. /\ i \notin tracked /\ UNCHANGED tracked
        /\ completedFailures' = IF conversion[i] = "failed" THEN completedFailures \cup {i}
                                ELSE completedFailures
    BY <1>1, <1>3 DEF CoordinatorAsksConversion, Noted
  <2>2. analysis[i] # "failed"
    <3>1. i \in converting
      BY <1>1, <2>1 DEF ScanInv
    <3>2. i < nextConversion
      BY <3>1, PipelineAssumption DEF PrefixInv, WindowInv, TypeOK, Released
    <3>3. QED BY <3>2 DEF PrefixInv, UnitInv
  <2>3. QED BY <1>1, <2>1, <2>2 DEF ScanInv, Failed
<1>4. QED BY <1>2, <1>3

\* No step of any thread takes a failed unit out of the coordinator's sight.
LEMMA ScanStep == TypeOK /\ PrefixInv /\ ScanInv /\ [Next]_vars => ScanInv'
<1> SUFFICES ASSUME TypeOK, PrefixInv, ScanInv, [Next]_vars PROVE ScanInv'
  OBVIOUS
<1> USE DEF poolVars, scanVars, coordVars, consumerVars, envVars
<1>1. ASSUME NEW i \in Units, WorkerStep(i) PROVE ScanInv'
  <2>1. /\ UNCHANGED <<coord, tracked, converting, scanVars>>
        /\ \A j \in Units \ {i} : analysis'[j] = analysis[j]
    BY <1>1 DEF TypeOK, WorkerStep, StartAnalysis, Spool, AnalysisSucceeds, AnalysisFails,
                StartConversion, ConversionSucceeds, ConversionFails, ConversionEnds
  <2>2. /\ analysis'[i] = "failed" => analysis[i] \in {"running", "failed"}
        /\ \A j \in Units : Failed(j) => Failed(j)'
    BY <1>1 DEF TypeOK, WorkerStep, StartAnalysis, Spool, AnalysisSucceeds, AnalysisFails,
                StartConversion, ConversionSucceeds, ConversionFails, ConversionEnds, Failed
  <2>3. analysis[i] = "running" => i \in tracked
    BY DEF PrefixInv, UnitInv
  <2>4. failedBefore \subseteq Units
    BY DEF TypeOK
  <2>5. QED BY <2>1, <2>2, <2>3, <2>4 DEF ScanInv
<1>2. CASE CoordinatorLooks
  <2>1. /\ coord = "scan" /\ coord' = "read" /\ unread' = tracked \cup converting
        /\ failedBefore' = {i \in Units : Failed(i)}
        /\ UNCHANGED <<analysis, conversion, tracked, completedFailures, converting>>
    BY <1>2 DEF CoordinatorLooks, Continuing
  <2>2. ASSUME NEW i \in Units, Failed(i) PROVE i \in tracked \cup converting
    BY <2>1, <2>2, FailedAreAsked
  <2>3. QED BY <2>1, <2>2 DEF ScanInv, Failed
<1>3. ASSUME NEW i \in Units, CoordinatorAsksAnalysis(i) \/ CoordinatorAsksConversion(i)
      PROVE  ScanInv'
  BY <1>3, AskingKeepsScan
<1>4. CASE CoordinatorSubmits
  <2>1. /\ coord = "read" /\ unread = {} /\ completedFailures = {} /\ coord' = "settle"
        /\ failedBefore' = {} /\ UNCHANGED <<unread, completedFailures>>
        /\ tracked \subseteq tracked'
    BY <1>4 DEF CoordinatorSubmits, Asked
  <2>2. ASSUME NEW i \in Units, analysis'[i] = "failed" PROVE analysis[i] = "failed"
    BY <1>4, <2>2 DEF CoordinatorSubmits, Submit
  <2>3. QED BY <2>1, <2>2 DEF ScanInv
<1>5. CASE CoordinatorSeesFailure
  BY <1>5 DEF CoordinatorSeesFailure, Asked, FailPipeline, ScanInv
<1>6. CASE CoordinatorStops \/ CoordinatorSettles
  BY <1>6 DEF CoordinatorStops, CoordinatorSettles, ScanInv
<1>7. CASE CoordinatorSeesRequestFailure
  BY <1>7 DEF CoordinatorSeesRequestFailure, Continuing, FailPipeline, ScanInv
<1>8. CASE Unwind \/ ShutdownExecutors
  <2>1. /\ UNCHANGED <<coord, tracked, converting, scanVars>>
        /\ failedBefore \subseteq Units
        /\ \A i \in Units : analysis'[i] = "failed" <=> analysis[i] = "failed"
        /\ \A i \in Units : conversion'[i] = "failed" <=> conversion[i] = "failed"
    BY <1>8 DEF TypeOK, Unwind, ShutdownExecutors, CancelPending
  <2>2. \A i \in Units : Failed(i) => Failed(i)'
    BY <2>1 DEF Failed
  <2>3. QED BY <2>1, <2>2 DEF ScanInv
<1>9. CASE CallerStep
  <2>1. LockFree /\ UNCHANGED <<analysis, conversion, coord, tracked, scanVars>>
    BY <1>9 DEF CallerStep, Resume, CallerCloses, ReleaseBatch
  <2>2. QED BY <2>1 DEF ScanInv, LockFree
<1>10. CASE \/ RaiseRequestFailure \/ RaiseFailure \/ RaiseResult \/ Yield \/ CheckIdentity
            \/ JoinCoordinator \/ (\E i \in Units : CloseReachable(i)) \/ FinishClosing
            \/ EnvironmentStep \/ Terminated \/ UNCHANGED vars
  <2>1. UNCHANGED <<analysis, conversion, coord, tracked, converting, scanVars>>
    BY <1>10 DEF RaiseRequestFailure, RaiseFailure, RaiseResult, Raise, Yield, CheckIdentity,
                 JoinCoordinator, CloseReachable, FinishClosing, EnvironmentStep,
                 ExternalFailure, SwapBinary, Terminated, vars
  <2>2. QED BY <2>1 DEF ScanInv, Failed
<1>11. QED
  BY <1>1, <1>2, <1>3, <1>4, <1>5, <1>6, <1>7, <1>8, <1>9, <1>10
  DEF Next, CoordinatorStep, GeneratorStep

\* Although workers complete futures while they are asked one after the other,
\* the failure that is latched is one that happened, no unit before it had
\* failed when the coordinator began to ask, and no later failure replaces it.
THEOREM EarliestFailureIsKept == Spec => EarliestFailureWins
<1>1. TypeOK /\ PrefixInv /\ RootInv /\ ScanInv /\ [Next]_vars =>
        [failure' # failure =>
           /\ failure = NoEnd
           /\ failure'.unit < N => /\ Failed(failure'.unit)
                                   /\ \A j \in failedBefore : failure'.unit <= j]_vars
  <2> SUFFICES ASSUME TypeOK, PrefixInv, RootInv, ScanInv, Next, failure' # failure
               PROVE  /\ failure = NoEnd
                      /\ failure'.unit < N => /\ Failed(failure'.unit)
                                              /\ \A j \in failedBefore : failure'.unit <= j
    OBVIOUS
  <2> USE DEF poolVars, scanVars, coordVars, consumerVars, envVars
  <2>1. CoordinatorSeesRequestFailure \/ CoordinatorSeesFailure
    BY DEF Next, WorkerStep, StartAnalysis, Spool, AnalysisSucceeds, AnalysisFails,
           StartConversion, ConversionSucceeds, ConversionFails, ConversionEnds,
           CoordinatorStep, CoordinatorStops, CoordinatorLooks, CoordinatorAsksAnalysis,
           CoordinatorAsksConversion, Asks, CoordinatorSubmits, CoordinatorSettles,
           GeneratorStep, RaiseRequestFailure, RaiseFailure, RaiseResult, Raise, Yield,
           CheckIdentity, Unwind, JoinCoordinator, ShutdownExecutors, CloseReachable,
           FinishClosing, CallerStep, Resume, CallerCloses, ReleaseBatch,
           EnvironmentStep, ExternalFailure, SwapBinary, Terminated, vars
  <2>2. failure = NoEnd
    <3>1. coord # "done"
      BY <2>1 DEF CoordinatorSeesRequestFailure, CoordinatorSeesFailure, Continuing, Asked
    <3>2. QED BY <3>1 DEF RootInv
  <2>3. CASE CoordinatorSeesRequestFailure
    <3>1. failure'.unit = N /\ ~(N < N)
      BY <2>3, PipelineAssumption DEF CoordinatorSeesRequestFailure, FailPipeline, RequestEnd, Whole
    <3>2. QED BY <2>2, <3>1
  <2>4. CASE CoordinatorSeesFailure
    <3>1. completedFailures \subseteq Units /\ completedFailures # {} /\ unread = {}
      BY <2>4 DEF TypeOK, CoordinatorSeesFailure, Asked
    <3>2. failure'.unit = Earliest(completedFailures)
      BY <2>4 DEF CoordinatorSeesFailure, FailPipeline
    <3>3. /\ failure'.unit \in completedFailures
          /\ \A j \in completedFailures : failure'.unit <= j
      BY <3>1, <3>2, EarliestIsLeast
    <3>4. Failed(failure'.unit)
      BY <3>3 DEF PrefixInv, MapsInv
    <3>5. failedBefore \subseteq completedFailures
      BY <3>1 DEF ScanInv
    <3>6. QED BY <2>2, <3>3, <3>4, <3>5
  <2>5. QED BY <2>1, <2>3, <2>4
<1>2. Init => ScanInv
  BY DEF Init, ScanInv
<1>3. QED
  BY <1>1, <1>2, PrefixInit, PrefixStep, RootInit, RootStep, ScanStep, TypeCorrect, PTL
  DEF Spec, EarliestFailureWins
-----------------------------------------------------------------------------
(* Refinement.                                                             *)

\* Only the check after the last batch ends the stream as complete.
OutcomeInv ==
  /\ failure.cause # "complete"
  /\ outcome.cause = "complete" => delivered = N

\* Only a full delivery ends the stream as complete, and it ends once.
LEMMA OutcomeStep == TypeOK /\ OutcomeInv /\ [Next]_vars => OutcomeInv'
<1> SUFFICES ASSUME TypeOK, OutcomeInv, [Next]_vars PROVE OutcomeInv'
  OBVIOUS
<1> USE DEF poolVars, scanVars, coordVars, consumerVars, envVars
<1>1. CASE \E i \in Units : WorkerStep(i)
  BY <1>1 DEF OutcomeInv, WorkerStep, StartAnalysis, Spool, AnalysisSucceeds, AnalysisFails,
              StartConversion, ConversionSucceeds, ConversionFails, ConversionEnds
<1>2. CASE CoordinatorSeesRequestFailure
  BY <1>2 DEF OutcomeInv, CoordinatorSeesRequestFailure, FailPipeline, RequestEnd, Whole
<1>3. CASE CoordinatorSeesFailure
  <2>1. completedFailures \subseteq Units /\ completedFailures # {}
    BY <1>3 DEF TypeOK, CoordinatorSeesFailure
  <2>2. cause[Earliest(completedFailures)] # "complete"
    BY <2>1, EarliestIsLeast DEF TypeOK, TaskCauses
  <2>3. QED
    BY <1>3, <2>2 DEF OutcomeInv, CoordinatorSeesFailure, FailPipeline
<1>4. CASE \/ CoordinatorStops \/ CoordinatorLooks \/ CoordinatorSubmits \/ CoordinatorSettles
           \/ \E i \in Units : CoordinatorAsksAnalysis(i) \/ CoordinatorAsksConversion(i)
  BY <1>4 DEF OutcomeInv, CoordinatorStops, CoordinatorLooks, CoordinatorAsksAnalysis,
              CoordinatorAsksConversion, Asks, CoordinatorSubmits, CoordinatorSettles
<1>5. CASE RaiseRequestFailure
  BY <1>5 DEF OutcomeInv, RaiseRequestFailure, Raise, EndWith, RequestEnd, Whole
<1>6. CASE RaiseFailure
  BY <1>6 DEF OutcomeInv, RaiseFailure, Raise, EndWith
<1>7. CASE RaiseResult
  <2>1. delivered \in Units
    BY <1>7, PipelineAssumption DEF TypeOK, RaiseResult, Raise, Units
  <2>2. outcome'.cause # "complete"
    BY <1>7, <2>1 DEF TypeOK, TaskCauses, RaiseResult, Raise, EndWith
  <2>3. QED BY <1>7, <2>2 DEF OutcomeInv, RaiseResult, Raise
<1>8. CASE Yield
  BY <1>8, PipelineAssumption DEF TypeOK, OutcomeInv, Yield
<1>9. CASE CheckIdentity
  BY <1>9 DEF OutcomeInv, CheckIdentity, AllDelivered, EndWith
<1>10. CASE FinishClosing
  BY <1>10 DEF OutcomeInv, FinishClosing, Whole
<1>11. CASE CallerStep
  BY <1>11 DEF OutcomeInv, CallerStep, Resume, CallerCloses, ReleaseBatch, EndWith, Whole
<1>12. CASE Unwind \/ JoinCoordinator \/ ShutdownExecutors \/ \E i \in Units : CloseReachable(i)
  BY <1>12 DEF OutcomeInv, Unwind, JoinCoordinator, ShutdownExecutors, CloseReachable
<1>13. CASE EnvironmentStep \/ Terminated \/ UNCHANGED vars
  BY <1>13 DEF OutcomeInv, EnvironmentStep, ExternalFailure, SwapBinary, Terminated, vars
<1>14. QED
  BY <1>1, <1>2, <1>3, <1>4, <1>5, <1>6, <1>7, <1>8, <1>9, <1>10, <1>11, <1>12, <1>13
  DEF Next, CoordinatorStep, GeneratorStep

\* Threads, futures, spools and bounds are invisible to the caller: it sees
\* batches in order and one ending, complete only after the last batch.
THEOREM ImplementsStreamSafety == Spec => Stream!StreamSafe
<1> USE DEF poolVars, scanVars, coordVars, consumerVars, envVars
<1>1. Init => Stream!StreamInit
  BY DEF Init, Stream!StreamInit, Ending
<1>2. TypeOK /\ OutcomeInv /\ [Next]_vars => [Stream!StreamNext]_(Stream!streamVars)
  <2> SUFFICES ASSUME TypeOK, OutcomeInv, [Next]_vars
               PROVE  Stream!StreamNext \/ UNCHANGED <<delivered, Ending>>
    BY DEF Stream!streamVars
  <2>1. CASE Yield
    <3>1. /\ consumer = "seek" /\ consumer' = "yielded" /\ delivered < N
          /\ delivered' = delivered + 1
      BY <2>1 DEF Yield
    <3>2. Ending = "open" /\ Ending' = "open"
      BY <3>1 DEF Ending
    <3>3. QED BY <3>1, <3>2 DEF Stream!StreamNext, Stream!Emit
  <2>2. CASE FinishClosing
    <3>1. /\ consumer = "closing" /\ consumer' = "closed" /\ UNCHANGED delivered
          /\ outcome' = outcome \/ outcome'.cause # "complete"
      BY <2>2 DEF FinishClosing, Whole
    <3>2. Ending = "open"
      BY <3>1 DEF Ending
    <3>3. CASE outcome'.cause = "complete"
      <4>1. Ending' = "complete" /\ delivered = N
        BY <3>1, <3>3 DEF Ending, OutcomeInv
      <4>2. QED BY <3>1, <3>2, <4>1 DEF Stream!StreamNext, Stream!Complete
    <3>4. CASE outcome'.cause # "complete"
      <4>1. Ending' = "aborted"
        BY <3>1, <3>4 DEF Ending
      <4>2. QED BY <3>1, <3>2, <4>1 DEF Stream!StreamNext, Stream!Abort
    <3>5. QED BY <3>3, <3>4
  <2>3. CASE \/ RaiseRequestFailure \/ RaiseFailure \/ RaiseResult \/ CheckIdentity \/ Unwind
             \/ JoinCoordinator \/ ShutdownExecutors \/ (\E i \in Units : CloseReachable(i))
             \/ CallerStep
    <3>1. /\ UNCHANGED delivered
          /\ consumer # "closed" /\ consumer' # "closed"
      BY <2>3 DEF RaiseRequestFailure, RaiseFailure, RaiseResult, Raise, CheckIdentity, EndWith,
                  Unwind, JoinCoordinator, ShutdownExecutors, CloseReachable, CallerStep,
                  Resume, CallerCloses, ReleaseBatch
    <3>2. QED BY <3>1 DEF Ending
  <2>4. CASE \/ (\E i \in Units : WorkerStep(i)) \/ CoordinatorStep
             \/ EnvironmentStep \/ Terminated \/ UNCHANGED vars
    <3>1. UNCHANGED <<delivered, consumer, outcome>>
      BY <2>4 DEF WorkerStep, StartAnalysis, Spool, AnalysisSucceeds, AnalysisFails,
                  StartConversion, ConversionSucceeds, ConversionFails, ConversionEnds,
                  CoordinatorStep, CoordinatorStops, CoordinatorLooks, CoordinatorAsksAnalysis,
                  CoordinatorAsksConversion, Asks, CoordinatorSubmits, CoordinatorSettles,
                  CoordinatorSeesRequestFailure, CoordinatorSeesFailure, EnvironmentStep,
                  ExternalFailure, SwapBinary, Terminated, vars
    <3>2. QED BY <3>1 DEF Ending
  <2>5. QED BY <2>1, <2>2, <2>3, <2>4 DEF Next, GeneratorStep
<1>3. Init => OutcomeInv
  BY DEF Init, OutcomeInv, NoEnd, Whole
<1>4. QED
  BY <1>1, <1>2, <1>3, OutcomeStep, TypeCorrect, PTL DEF Spec, Stream!StreamSafe

-----------------------------------------------------------------------------
(* How a run ends: the account of the spool budget is exact at every step,   *)
(* nothing is left open or working, and a complete stream has facts of one   *)
(* analyzer.                                                                 *)

(* Sums over the units.  Induction is over sets, by least counterexample.  *)

\* A set with 0 that is closed under successors up to N has all of 0 .. N.
LEMMA UpToN ==
  ASSUME NEW G, 0 \in G, \A k \in 0 .. N - 1 : k \in G => k + 1 \in G
  PROVE  \A k \in 0 .. N : k \in G
<1>1. N \in Nat
  BY PipelineAssumption
<1> DEFINE Bad == {k \in 0 .. N : k \notin G}
<1> SUFFICES ASSUME NEW k \in 0 .. N, k \notin G PROVE FALSE
  OBVIOUS
<1>2. Bad \subseteq Nat /\ Bad # {}
  BY <1>1
<1>3. PICK m \in Bad : \A j \in Bad : m <= j
  BY <1>1, <1>2, LeastElement
<1>4. m \in 0 .. N /\ m \notin G /\ m # 0
  BY <1>3
<1>5. m - 1 \in 0 .. N - 1 /\ m - 1 \in G
  BY <1>1, <1>3, <1>4
<1>6. QED BY <1>4, <1>5

\* The running totals that SpoolTotal is defined by exist and are numbers.
LEMMA RunningTotals ==
  ASSUME NEW f \in [Units -> Nat]
  PROVE  \E total \in [0 .. N -> Nat] :
           /\ total[0] = 0
           /\ \A k \in 0 .. N - 1 : total[k + 1] = total[k] + f[k]
           /\ SpoolTotal(f) = total[N]
<1>1. N \in Nat /\ N > 0 /\ Units = 0 .. N - 1
  BY PipelineAssumption DEF Units
<1> DEFINE Fits(t, m) == t[0] = 0 /\ \A k \in 0 .. m - 1 : t[k + 1] = t[k] + f[k]
           G == {m \in 0 .. N : \E t \in [0 .. N -> Nat] : Fits(t, m)}
<1>2. 0 \in G
  <2> DEFINE z == [k \in 0 .. N |-> 0]
  <2>1. z \in [0 .. N -> Nat] /\ z[0] = 0
    BY <1>1
  <2>2. 0 .. 0 - 1 = {} /\ 0 \in 0 .. N
    BY <1>1
  <2> HIDE DEF z
  <2>3. Fits(z, 0)
    BY <2>1, <2>2
  <2>4. QED BY <2>1, <2>2, <2>3
<1>3. ASSUME NEW m \in 0 .. N - 1, m \in G PROVE m + 1 \in G
  <2>1. PICK t \in [0 .. N -> Nat] : Fits(t, m)
    BY <1>3
  <2> DEFINE u == [t EXCEPT ![m + 1] = t[m] + f[m]]
  <2>2. m \in Nat /\ m + 1 \in 0 .. N /\ m \in 0 .. N /\ f[m] \in Nat /\ t[m] \in Nat
    BY <1>1
  <2>3. u \in [0 .. N -> Nat]
    BY <2>2
  <2>4. Fits(u, m + 1)
    BY <1>1, <2>1, <2>2
  <2>5. QED BY <2>2, <2>3, <2>4
<1>4. N \in G
  <2> HIDE DEF G
  <2>1. \A k \in 0 .. N : k \in G
    BY <1>2, <1>3, UpToN
  <2>2. QED BY <1>1, <2>1
<1>5. PICK t \in [0 .. N -> Nat] : Fits(t, N)
  BY <1>4
<1> DEFINE Rule(v) == [k \in 0 .. N |-> IF k = 0 THEN 0 ELSE v[k - 1] + f[k - 1]]
<1>6. t = Rule(t)
  <2>1. ASSUME NEW k \in 0 .. N PROVE t[k] = IF k = 0 THEN 0 ELSE t[k - 1] + f[k - 1]
    <3>1. CASE k = 0
      BY <1>5, <3>1
    <3>2. CASE k # 0
      <4>1. k - 1 \in 0 .. N - 1 /\ (k - 1) + 1 = k
        BY <1>1, <3>2
      <4>2. t[(k - 1) + 1] = t[k - 1] + f[k - 1]
        BY <1>5, <4>1
      <4>3. QED BY <3>2, <4>1, <4>2
    <3>3. QED BY <3>1, <3>2
  <2>2. QED BY <2>1
<1> DEFINE total == CHOOSE v : v = Rule(v)
<1>7. total = Rule(total)
  <2> HIDE DEF Rule
  <2>1. QED BY <1>6
<1>8. SpoolTotal(f) = total[N]
  BY DEF SpoolTotal
<1> HIDE DEF total
<1>9. \A k \in 0 .. N : total[k] = t[k]
  <2> DEFINE H == {k \in 0 .. N : total[k] = t[k]}
  <2>1. 0 \in H
    BY <1>1, <1>5, <1>7
  <2>2. ASSUME NEW k \in 0 .. N - 1, k \in H PROVE k + 1 \in H
    <3>1. k + 1 \in 0 .. N /\ k + 1 # 0 /\ (k + 1) - 1 = k
      BY <1>1
    <3>2. total[k + 1] = total[k] + f[k]
      BY <1>7, <3>1
    <3>3. t[k + 1] = t[k] + f[k]
      BY <1>5
    <3>4. QED BY <2>2, <3>1, <3>2, <3>3
  <2> HIDE DEF H
  <2>3. \A k \in 0 .. N : k \in H
    BY <2>1, <2>2, UpToN
  <2>4. QED BY <2>3 DEF H
<1>10. SpoolTotal(f) = t[N]
  BY <1>1, <1>8, <1>9
<1>11. QED BY <1>5, <1>10

\* The total of all shares is a number, and 0 if every share is.
LEMMA TotalOfNothing ==
  ASSUME NEW f \in [Units -> Nat]
  PROVE  /\ SpoolTotal(f) \in Nat
         /\ (\A i \in Units : f[i] = 0) => SpoolTotal(f) = 0
<1>1. N \in Nat /\ N > 0 /\ Units = 0 .. N - 1
  BY PipelineAssumption DEF Units
<1>2. PICK t \in [0 .. N -> Nat] :
           /\ t[0] = 0
           /\ \A k \in 0 .. N - 1 : t[k + 1] = t[k] + f[k]
           /\ SpoolTotal(f) = t[N]
  BY RunningTotals
<1>3. ASSUME \A i \in Units : f[i] = 0 PROVE t[N] = 0
  <2> DEFINE H == {k \in 0 .. N : t[k] = 0}
  <2>1. 0 \in H
    BY <1>1, <1>2
  <2>2. ASSUME NEW k \in 0 .. N - 1, k \in H PROVE k + 1 \in H
    BY <1>1, <1>2, <1>3, <2>2
  <2> HIDE DEF H
  <2>3. \A k \in 0 .. N : k \in H
    BY <2>1, <2>2, UpToN
  <2>4. QED BY <1>1, <2>3 DEF H
<1>4. QED BY <1>1, <1>2, <1>3

\* What a change of one unit's share does to the total.
LEMMA TotalOfChange ==
  ASSUME NEW f \in [Units -> Nat], NEW i \in Units, NEW x \in Nat
  PROVE  SpoolTotal([f EXCEPT ![i] = x]) = SpoolTotal(f) - f[i] + x
<1>1. N \in Nat /\ N > 0 /\ Units = 0 .. N - 1 /\ f[i] \in Nat
  BY PipelineAssumption DEF Units
<1> DEFINE g == [f EXCEPT ![i] = x]
<1>2. g \in [Units -> Nat] /\ g[i] = x /\ \A k \in Units \ {i} : g[k] = f[k]
  OBVIOUS
<1> HIDE DEF g
<1>3. PICK t \in [0 .. N -> Nat] :
           /\ t[0] = 0
           /\ \A k \in 0 .. N - 1 : t[k + 1] = t[k] + f[k]
           /\ SpoolTotal(f) = t[N]
  BY RunningTotals
<1>4. PICK u \in [0 .. N -> Nat] :
           /\ u[0] = 0
           /\ \A k \in 0 .. N - 1 : u[k + 1] = u[k] + g[k]
           /\ SpoolTotal(g) = u[N]
  BY <1>2, RunningTotals
<1> DEFINE H == {k \in 0 .. N : u[k] = IF k <= i THEN t[k] ELSE t[k] - f[i] + x}
<1>5. 0 \in H
  BY <1>1, <1>3, <1>4
<1>6. ASSUME NEW k \in 0 .. N - 1, k \in H PROVE k + 1 \in H
  <2>0. k \in Nat /\ k + 1 \in 0 .. N /\ k \in 0 .. N /\ k \in Units /\ i \in Nat
    BY <1>1
  <2>1. /\ k \in Nat /\ k + 1 \in 0 .. N /\ k \in Units /\ i \in Nat
        /\ t[k] \in Nat /\ f[k] \in Nat /\ u[k + 1] = u[k] + g[k] /\ t[k + 1] = t[k] + f[k]
        /\ u[k] = IF k <= i THEN t[k] ELSE t[k] - f[i] + x
    <3>1. u[k + 1] = u[k] + g[k] /\ t[k + 1] = t[k] + f[k]
      BY <1>3, <1>4
    <3>2. t[k] \in Nat /\ f[k] \in Nat
      BY <2>0
    <3>3. u[k] = IF k <= i THEN t[k] ELSE t[k] - f[i] + x
      BY <1>6
    <3>4. QED BY <2>0, <3>1, <3>2, <3>3
  <2>2. u[k + 1] = IF k + 1 <= i THEN t[k + 1] ELSE t[k + 1] - f[i] + x
    <3>1. CASE k < i
      <4>1. k # i /\ k + 1 <= i /\ k <= i
        BY <2>1, <3>1
      <4>2. g[k] = f[k] /\ u[k] = t[k]
        BY <1>2, <2>1, <4>1
      <4>3. QED BY <2>1, <4>1, <4>2
    <3>2. CASE k = i
      <4>1. ~(k + 1 <= i) /\ k <= i
        BY <2>1, <3>2
      <4>2. g[k] = x /\ u[k] = t[k]
        BY <1>2, <2>1, <3>2, <4>1
      <4>3. QED BY <2>1, <3>2, <4>1, <4>2
    <3>3. CASE k > i
      <4>1. k # i /\ ~(k + 1 <= i) /\ ~(k <= i)
        BY <2>1, <3>3
      <4>2. g[k] = f[k] /\ u[k] = t[k] - f[i] + x
        BY <1>2, <2>1, <4>1
      <4>3. t[k + 1] - f[i] + x = (t[k] - f[i] + x) + f[k]
        <5>1. \A a, b, d, e \in Int : (a + b) - d + e = (a - d + e) + b
          OBVIOUS
        <5>2. t[k] \in Int /\ f[k] \in Int /\ f[i] \in Int /\ x \in Int
          BY <1>1, <2>1
        <5>3. t[k + 1] = t[k] + f[k]
          BY <2>1
        <5>4. (t[k] + f[k]) - f[i] + x = (t[k] - f[i] + x) + f[k]
          BY <5>1, <5>2
        <5>5. QED BY <5>3, <5>4
      <4>4. QED BY <2>1, <4>1, <4>2, <4>3
    <3>4. QED BY <2>1, <3>1, <3>2, <3>3
  <2>3. QED BY <2>1, <2>2
<1> HIDE DEF H
<1>7. \A k \in 0 .. N : k \in H
  BY <1>5, <1>6, UpToN
<1>8. u[N] = t[N] - f[i] + x
  BY <1>1, <1>7 DEF H
<1>9. QED BY <1>3, <1>4, <1>8 DEF g

-----------------------------------------------------------------------------
(* The spool budget.                                                       *)

\* The account of the budget, and where the registries are that are open: with
\* the analyzer that fills one, or in a map that the generator can reach.
SpoolInv ==
  /\ SpoolAccounting
  /\ \A i \in Units : analysis[i] = "running" => registry[i] = "open"

OpenInv ==
  \A i \in Units : registry[i] = "open" =>
    \/ analysis[i] = "running"
    \/ analysis[i] = "ok" /\ i \in tracked \cup waiting \cup converting

\* From the executors' shutdown on nobody works, and at the end nothing is open.
QuietInv ==
  /\ consumer \in {"shutdown", "closing", "closed"} => coord = "done"
  /\ consumer \in {"closing", "closed"} =>
       \A i \in Units : {analysis[i], conversion[i]} \cap {"pending", "running"} = {}
  /\ consumer = "closed" => \A i \in Units : registry[i] # "open"

\* With one replacement at most, the first binary is on disk until it is replaced.
BinaryInv ==
  /\ swaps <= MaxSwaps
  /\ swaps = 0 <=> binary = 0
  /\ binary = 0 => \A i \in Units : analyzedBy[i] = 0
  /\ outcome.cause = "complete" => \A i \in Units : analyzedBy[i] = 0 /\ analysis[i] = "ok"

\* Steps of the workers and of the final closing are those that move a registry.
MovesRegistry ==
  (\E i \in Units : WorkerStep(i)) \/ (\E i \in Units : CloseReachable(i))

\* Every other step leaves the registries alone, and moves only futures that
\* nobody has taken.
LEMMA SubmittingSteps ==
  ASSUME TypeOK, PrefixInv, [Next]_vars, ~MovesRegistry
  PROVE  /\ UNCHANGED <<registry, spooled, spoolUsed, analyzedBy>>
         /\ \A i \in Units :
              \/ analysis'[i] = analysis[i]
              \/ /\ analysis[i] \in {"unsubmitted", "pending"}
                 /\ analysis'[i] \in {"pending", "cancelled"}
<1> USE DEF poolVars, scanVars, coordVars, consumerVars, envVars
<1>1. CASE CoordinatorSubmits
  <2>1. ASSUME NEW i \in Units, i \in ToAnalyze PROVE analysis[i] = "unsubmitted"
    <3>1. i >= nextConfiguration /\ UnitInv(i)
      BY <2>1 DEF ToAnalyze, PrefixInv
    <3>2. i \in Nat /\ nextConfiguration \in Nat
      BY PipelineAssumption DEF Units, TypeOK
    <3>3. QED BY <3>1, <3>2 DEF UnitInv
  <2>2. QED BY <1>1, <2>1 DEF CoordinatorSubmits, Submit
<1>2. CASE CoordinatorSeesRequestFailure \/ CoordinatorSeesFailure
  BY <1>2 DEF CoordinatorSeesRequestFailure, CoordinatorSeesFailure, FailPipeline, CancelPending
<1>3. CASE \/ CoordinatorStops \/ CoordinatorSettles \/ CoordinatorLooks
           \/ \E i \in Units : CoordinatorAsksAnalysis(i) \/ CoordinatorAsksConversion(i)
  BY <1>3 DEF CoordinatorStops, CoordinatorSettles, CoordinatorLooks, CoordinatorAsksAnalysis,
              CoordinatorAsksConversion, Asks
<1>4. CASE Unwind \/ ShutdownExecutors
  BY <1>4 DEF Unwind, ShutdownExecutors, CancelPending
<1>5. CASE \/ RaiseRequestFailure \/ RaiseFailure \/ RaiseResult \/ Yield \/ CheckIdentity
           \/ JoinCoordinator \/ FinishClosing
  BY <1>5 DEF RaiseRequestFailure, RaiseFailure, RaiseResult, Raise, Yield, CheckIdentity,
              JoinCoordinator, FinishClosing
<1>6. CASE CallerStep \/ EnvironmentStep \/ Terminated \/ UNCHANGED vars
  BY <1>6 DEF CallerStep, Resume, CallerCloses, ReleaseBatch, EnvironmentStep, ExternalFailure,
              SwapBinary, Terminated, vars
<1>7. QED
  BY <1>1, <1>2, <1>3, <1>4, <1>5, <1>6
  DEF Next, CoordinatorStep, GeneratorStep, MovesRegistry

\* Closing a registry gives back exactly its share.
LEMMA ClosingKeepsAccount ==
  ASSUME TypeOK, SpoolAccounting, NEW i \in Units, CloseRegistry(i)
  PROVE  SpoolAccounting'
<1>1. /\ spooled \in [Units -> Nat] /\ registry \in [Units -> {"none", "open", "closed"}]
      /\ SpoolLimit \in Nat /\ spoolUsed \in 0 .. SpoolLimit
  BY PipelineAssumption DEF TypeOK, SpoolAccounting
<1>2. /\ registry' = [registry EXCEPT ![i] = "closed"] /\ spooled' = [spooled EXCEPT ![i] = 0]
      /\ spoolUsed' = spoolUsed - spooled[i]
  BY DEF CloseRegistry
<1>3. SpoolTotal(spooled') = SpoolTotal(spooled) - spooled[i] + 0
  BY <1>1, <1>2, TotalOfChange
<1>4. spooled' \in [Units -> Nat]
  BY <1>1, <1>2
<1>5. SpoolTotal(spooled') \in Nat /\ spooled[i] \in Nat
  BY <1>1, <1>4, TotalOfNothing
<1>6. spoolUsed' = SpoolTotal(spooled') /\ spoolUsed' \in 0 .. SpoolLimit
  BY <1>1, <1>2, <1>3, <1>5 DEF SpoolAccounting
<1>7. \A j \in Units : spooled'[j] > 0 => registry'[j] = "open"
  BY <1>1, <1>2 DEF SpoolAccounting
<1>8. QED BY <1>6, <1>7 DEF SpoolAccounting

LEMMA SpoolStep ==
  ASSUME TypeOK, PrefixInv, SpoolInv, QuietInv, [Next]_vars
  PROVE  SpoolInv'
<1> USE DEF poolVars, scanVars, coordVars, consumerVars, envVars
<1>1. ASSUME NEW i \in Units, WorkerStep(i) PROVE SpoolInv'
  <2>1. CASE StartAnalysis(i)
    <3>1. UNCHANGED <<spooled, spoolUsed>> /\ registry' = [registry EXCEPT ![i] = "open"]
          /\ analysis' = [analysis EXCEPT ![i] = "running"]
      BY <2>1 DEF StartAnalysis
    <3>2. QED BY <3>1 DEF TypeOK, SpoolInv, SpoolAccounting, SpoolTotal
  <2>2. CASE Spool(i)
    <3>1. /\ spooled' = [spooled EXCEPT ![i] = spooled[i] + 1] /\ spoolUsed' = spoolUsed + 1
          /\ spoolUsed + 1 <= SpoolLimit /\ analysis[i] = "running"
          /\ UNCHANGED <<registry, analysis>>
      BY <2>2 DEF Spool
    <3>2. /\ spooled \in [Units -> Nat] /\ spooled[i] \in Nat /\ spooled[i] + 1 \in Nat
          /\ spoolUsed \in Nat /\ SpoolLimit \in Nat /\ SpoolTotal(spooled) = spoolUsed
      BY PipelineAssumption DEF TypeOK, SpoolInv, SpoolAccounting
    <3>3. SpoolTotal(spooled') = SpoolTotal(spooled) - spooled[i] + (spooled[i] + 1)
      BY <3>1, <3>2, TotalOfChange
    <3>4. spoolUsed' = SpoolTotal(spooled') /\ spoolUsed' \in 0 .. SpoolLimit
      BY <3>1, <3>2, <3>3
    <3>5. \A j \in Units : spooled'[j] > 0 => registry'[j] = "open"
      BY <3>1, <3>2 DEF SpoolInv, SpoolAccounting
    <3>6. QED BY <3>1, <3>4, <3>5 DEF SpoolInv, SpoolAccounting
  <2>3. CASE AnalysisSucceeds(i) \/ StartConversion(i)
    <3>1. /\ UNCHANGED <<spooled, spoolUsed, registry>>
          /\ \A j \in Units : analysis'[j] = "running" => analysis[j] = "running"
      BY <2>3 DEF TypeOK, AnalysisSucceeds, StartConversion
    <3>2. QED BY <3>1 DEF SpoolInv, SpoolAccounting
  <2>4. CASE \E c \in TaskCauses : AnalysisFails(i, c)
    <3>1. CloseRegistry(i) /\ analysis' = [analysis EXCEPT ![i] = "failed"]
      BY <2>4 DEF AnalysisFails
    <3>2. SpoolAccounting'
      BY <3>1, ClosingKeepsAccount DEF SpoolInv
    <3>3. \A j \in Units : analysis'[j] = "running" => registry'[j] = "open"
      BY <3>1 DEF TypeOK, SpoolInv, CloseRegistry
    <3>4. QED BY <3>2, <3>3 DEF SpoolInv
  <2>5. CASE ConversionSucceeds(i) \/ \E c \in TaskCauses : ConversionFails(i, c)
    <3>1. CloseRegistry(i) /\ UNCHANGED analysis /\ conversion[i] = "running"
      BY <2>5 DEF ConversionSucceeds, ConversionFails, ConversionEnds
    <3>2. SpoolAccounting'
      BY <3>1, ClosingKeepsAccount DEF SpoolInv
    <3>3. analysis[i] = "ok"
      BY <3>1 DEF PrefixInv, UnitInv
    <3>4. \A j \in Units : analysis'[j] = "running" => registry'[j] = "open"
      BY <3>1, <3>3 DEF TypeOK, SpoolInv, CloseRegistry
    <3>5. QED BY <3>2, <3>4 DEF SpoolInv
  <2>6. QED BY <1>1, <2>1, <2>2, <2>3, <2>4, <2>5 DEF WorkerStep
<1>2. ASSUME NEW i \in Units, CloseReachable(i) PROVE SpoolInv'
  <2>1. CloseRegistry(i) /\ UNCHANGED analysis /\ analysis[i] # "running"
    BY <1>2 DEF CloseReachable, QuietInv
  <2>2. SpoolAccounting'
    BY <2>1, ClosingKeepsAccount DEF SpoolInv
  <2>3. \A j \in Units : analysis'[j] = "running" => registry'[j] = "open"
    BY <2>1 DEF TypeOK, SpoolInv, CloseRegistry
  <2>4. QED BY <2>2, <2>3 DEF SpoolInv
<1>3. CASE ~MovesRegistry
  <2>1. /\ UNCHANGED <<spooled, spoolUsed, registry>>
        /\ \A j \in Units : analysis'[j] = "running" => analysis[j] = "running"
    BY <1>3, SubmittingSteps
  <2>2. QED BY <2>1 DEF SpoolInv, SpoolAccounting
<1>4. QED BY <1>1, <1>2, <1>3 DEF MovesRegistry

\* A registry that is open is always within reach of whoever must close it.
LEMMA OpenStep ==
  ASSUME TypeOK, PrefixInv, OpenInv, [Next]_vars
  PROVE  OpenInv'
<1> USE DEF poolVars, scanVars, coordVars, consumerVars, envVars
<1>1. ASSUME NEW i \in Units, WorkerStep(i) PROVE OpenInv'
  <2>1. UNCHANGED <<tracked, waiting, converting>>
    BY <1>1 DEF WorkerStep, StartAnalysis, Spool, AnalysisSucceeds, AnalysisFails,
                StartConversion, ConversionSucceeds, ConversionFails, ConversionEnds
  <2>2. ASSUME NEW j \in Units, j # i
        PROVE  analysis'[j] = analysis[j] /\ registry'[j] = registry[j]
    BY <1>1, <2>2 DEF TypeOK, WorkerStep, StartAnalysis, Spool, AnalysisSucceeds, AnalysisFails,
                      StartConversion, ConversionSucceeds, ConversionFails, ConversionEnds,
                      CloseRegistry
  <2>3. registry'[i] = "open" =>
          \/ analysis'[i] = "running"
          \/ analysis'[i] = "ok" /\ i \in tracked \cup waiting \cup converting
    <3>1. CASE StartAnalysis(i)
      BY <3>1 DEF TypeOK, StartAnalysis
    <3>2. CASE AnalysisSucceeds(i)
      <4>1. i \in tracked
        BY <3>2 DEF AnalysisSucceeds, PrefixInv, UnitInv
      <4>2. QED BY <3>2, <4>1 DEF TypeOK, AnalysisSucceeds
    <3>3. CASE Spool(i) \/ StartConversion(i)
      BY <3>3 DEF OpenInv, Spool, StartConversion
    <3>4. CASE \/ ConversionSucceeds(i)
               \/ \E c \in TaskCauses : AnalysisFails(i, c) \/ ConversionFails(i, c)
      BY <3>4 DEF TypeOK, ConversionSucceeds, ConversionFails, ConversionEnds, AnalysisFails,
                  CloseRegistry
    <3>5. QED BY <1>1, <3>1, <3>2, <3>3, <3>4 DEF WorkerStep
  <2>4. QED BY <2>1, <2>2, <2>3 DEF OpenInv
<1>2. ASSUME NEW i \in Units, CloseReachable(i) PROVE OpenInv'
  BY <1>2 DEF TypeOK, OpenInv, CloseReachable, CloseRegistry
<1>3. CASE ~MovesRegistry
  <2>1. UNCHANGED registry
    BY <1>3, SubmittingSteps
  <2>2. ASSUME NEW i \in Units, analysis[i] \in {"running", "ok"} PROVE analysis'[i] = analysis[i]
    BY <1>3, <2>2, SubmittingSteps
  <2>3. ASSUME NEW i \in Units, registry[i] = "open", analysis[i] = "ok",
               i \in tracked \cup waiting \cup converting
        PROVE  i \in (tracked \cup waiting \cup converting)'
    <3>1. CASE \E j \in Units : CoordinatorAsksAnalysis(j) \/ CoordinatorAsksConversion(j)
      BY <2>3, <3>1 DEF CoordinatorAsksAnalysis, CoordinatorAsksConversion, Asks, Collected
    <3>2. CASE CoordinatorSubmits
      BY <2>3, <3>2 DEF CoordinatorSubmits
    <3>3. CASE CallerStep
      <4>1. /\ converting' = converting \ {delivered - 1} /\ UNCHANGED <<tracked, waiting>>
            /\ consumer = "yielded"
        BY <3>3 DEF CallerStep, Resume, CallerCloses, ReleaseBatch
      <4>2. i # delivered - 1
        <5>1. conversion[i] # "ok"
          BY <2>3 DEF PrefixInv, UnitInv
        <5>2. ~(i < delivered)
          BY <5>1 DEF PrefixInv, UnitInv
        <5>3. delivered \in Nat
          BY PipelineAssumption DEF TypeOK
        <5>4. QED BY <5>2, <5>3
      <4>3. QED BY <2>3, <4>1, <4>2
    <3>4. CASE \/ CoordinatorStops \/ CoordinatorSettles \/ CoordinatorLooks
               \/ CoordinatorSeesRequestFailure \/ CoordinatorSeesFailure
      BY <2>3, <3>4 DEF CoordinatorStops, CoordinatorSettles, CoordinatorLooks,
                        CoordinatorSeesRequestFailure, CoordinatorSeesFailure
    <3>5. CASE \/ RaiseRequestFailure \/ RaiseFailure \/ RaiseResult \/ Yield \/ CheckIdentity
               \/ JoinCoordinator \/ FinishClosing \/ Unwind \/ ShutdownExecutors
      BY <2>3, <3>5 DEF RaiseRequestFailure, RaiseFailure, RaiseResult, Raise, Yield, CheckIdentity,
                  JoinCoordinator, FinishClosing, Unwind, ShutdownExecutors
    <3>6. CASE EnvironmentStep \/ Terminated \/ UNCHANGED vars
      BY <2>3, <3>6 DEF EnvironmentStep, ExternalFailure, SwapBinary, Terminated, vars
    <3>7. QED
      BY <1>3, <3>1, <3>2, <3>3, <3>4, <3>5, <3>6
      DEF Next, CoordinatorStep, GeneratorStep, MovesRegistry
  <2>4. QED BY <2>1, <2>2, <2>3 DEF OpenInv
<1>4. QED BY <1>1, <1>2, <1>3 DEF MovesRegistry

\* Nothing is taken up again after the executors' shutdown.
LEMMA QuietStep ==
  ASSUME TypeOK, OpenInv, QuietInv, [Next]_vars
  PROVE  QuietInv'
<1> USE DEF poolVars, scanVars, coordVars, consumerVars, envVars
<1>1. ASSUME NEW i \in Units, WorkerStep(i) PROVE QuietInv'
  <2>1. UNCHANGED <<coord, consumer>>
    BY <1>1 DEF WorkerStep, StartAnalysis, Spool, AnalysisSucceeds, AnalysisFails,
                StartConversion, ConversionSucceeds, ConversionFails, ConversionEnds
  <2>2. analysis[i] \in {"pending", "running"} \/ conversion[i] \in {"pending", "running"}
    BY <1>1 DEF WorkerStep, StartAnalysis, Spool, AnalysisSucceeds, AnalysisFails,
                StartConversion, ConversionSucceeds, ConversionFails, ConversionEnds
  <2>3. consumer \notin {"closing", "closed"}
    BY <2>2 DEF QuietInv
  <2>4. QED BY <2>1, <2>3 DEF QuietInv
<1>2. CASE CoordinatorStep
  <2>1. coord # "done" /\ UNCHANGED consumer
    BY <1>2 DEF CoordinatorStep, CoordinatorStops, CoordinatorSeesRequestFailure, CoordinatorLooks,
                CoordinatorAsksAnalysis, CoordinatorAsksConversion, Asks, Asked,
                CoordinatorSeesFailure, CoordinatorSubmits, CoordinatorSettles, Continuing
  <2>2. QED BY <2>1 DEF QuietInv
<1>3. CASE JoinCoordinator
  BY <1>3 DEF JoinCoordinator, QuietInv
<1>4. CASE ShutdownExecutors
  <2>1. /\ consumer = "shutdown" /\ consumer' = "closing" /\ UNCHANGED coord
        /\ analysis' = CancelPending(analysis, Units)
        /\ conversion' = CancelPending(conversion, Units)
        /\ \A i \in Units : analysis[i] # "running" /\ conversion[i] # "running"
    BY <1>4 DEF ShutdownExecutors
  <2>2. ASSUME NEW i \in Units
        PROVE  analysis'[i] \notin {"pending", "running"} /\ conversion'[i] \notin {"pending", "running"}
    BY <2>1 DEF CancelPending
  <2>3. QED BY <2>1, <2>2 DEF QuietInv
<1>5. ASSUME NEW i \in Units, CloseReachable(i) PROVE QuietInv'
  BY <1>5 DEF CloseReachable, QuietInv
<1>6. CASE FinishClosing
  <2>1. /\ consumer = "closing" /\ consumer' = "closed" /\ Unclosed = {}
        /\ UNCHANGED <<coord, analysis, conversion, registry>>
    BY <1>6 DEF FinishClosing
  <2>2. ASSUME NEW i \in Units PROVE registry[i] # "open"
    <3>1. analysis[i] # "running"
      BY <2>1 DEF QuietInv
    <3>2. registry[i] = "open" => i \in Unclosed
      BY <3>1 DEF OpenInv, Unclosed, Reachable
    <3>3. QED BY <2>1, <3>2
  <2>3. QED BY <2>1, <2>2 DEF QuietInv
<1>7. CASE \/ RaiseRequestFailure \/ RaiseFailure \/ RaiseResult \/ Yield \/ CheckIdentity
           \/ Unwind \/ CallerStep
  <2>1. consumer' \in {"seek", "yielded", "unwind", "join"}
    BY <1>7 DEF RaiseRequestFailure, RaiseFailure, RaiseResult, Raise, EndWith, Yield,
                CheckIdentity, Unwind, CallerStep, Resume, CallerCloses
  <2>2. QED BY <2>1 DEF QuietInv
<1>8. CASE EnvironmentStep \/ Terminated \/ UNCHANGED vars
  BY <1>8 DEF EnvironmentStep, ExternalFailure, SwapBinary, Terminated, vars, QuietInv
<1>9. QED
  BY <1>1, <1>2, <1>3, <1>4, <1>5, <1>6, <1>7, <1>8 DEF Next, GeneratorStep

\* The run starts with nothing open and the budget unused.
LEMMA EndInit == Init => SpoolInv /\ OpenInv /\ QuietInv
<1> SUFFICES ASSUME Init PROVE SpoolInv /\ OpenInv /\ QuietInv
  OBVIOUS
<1>1. /\ spooled \in [Units -> Nat] /\ \A i \in Units : spooled[i] = 0
      /\ spoolUsed = 0 /\ SpoolLimit \in Nat
  BY PipelineAssumption DEF Init
<1>2. SpoolTotal(spooled) = 0
  BY <1>1, TotalOfNothing
<1>3. SpoolAccounting
  BY <1>1, <1>2 DEF SpoolAccounting
<1>4. QED BY <1>3 DEF Init, SpoolInv, OpenInv, QuietInv

\* What the account of the budget needs of the whole pipeline is inductive.
LEMMA EndInvariant == Spec => [](TypeOK /\ PrefixInv /\ SpoolInv /\ OpenInv /\ QuietInv)
BY TypeCorrect, PrefixInit, PrefixStep, EndInit, SpoolStep, OpenStep, QuietStep, PTL DEF Spec

\* The budget is exactly what the open registries hold in every state, never
\* over its limit and never below zero; and when the generator has ended, by
\* whatever path, no registry is open, nothing of the budget is in use, the
\* coordinator is gone and no future is left to run.
THEOREM NothingIsLeaked == Spec => []NothingLeaks
<1>1. TypeOK /\ SpoolInv /\ OpenInv /\ QuietInv => NothingLeaks
  <2> SUFFICES ASSUME TypeOK, SpoolInv, QuietInv, consumer = "closed"
               PROVE  /\ OpenRegistries = {} /\ spoolUsed = 0 /\ coord = "done"
                      /\ \A i \in Units : {analysis[i], conversion[i]} \cap {"pending", "running"} = {}
    BY DEF NothingLeaks, SpoolInv
  <2>1. /\ \A i \in Units : registry[i] # "open"
        /\ coord = "done"
        /\ \A i \in Units : {analysis[i], conversion[i]} \cap {"pending", "running"} = {}
    BY DEF QuietInv
  <2>2. spooled \in [Units -> Nat] /\ \A i \in Units : spooled[i] = 0
    BY <2>1 DEF TypeOK, SpoolInv, SpoolAccounting
  <2>3. spoolUsed = 0
    BY <2>2, TotalOfNothing DEF SpoolInv, SpoolAccounting
  <2>4. QED BY <2>1, <2>3 DEF OpenRegistries
<1>2. QED BY <1>1, EndInvariant, PTL

-----------------------------------------------------------------------------
(* One analyzer.                                                           *)

\* A replacement that is not undone before the final check is always seen.
LEMMA BinaryStep ==
  ASSUME TypeOK, PrefixInv, OutcomeInv, BinaryInv, MaxSwaps <= 1, [Next]_vars
  PROVE  BinaryInv'
<1> USE DEF poolVars, scanVars, coordVars, consumerVars, envVars
<1>1. ASSUME NEW i \in Units, WorkerStep(i) PROVE BinaryInv'
  <2>1. UNCHANGED <<swaps, binary, outcome>>
    BY <1>1 DEF WorkerStep, StartAnalysis, Spool, AnalysisSucceeds, AnalysisFails,
                StartConversion, ConversionSucceeds, ConversionFails, ConversionEnds
  <2>2. /\ \A j \in Units : analyzedBy'[j] \in {analyzedBy[j], binary}
        /\ \A j \in Units : analysis[j] = "ok" =>
             analysis'[j] = "ok" /\ analyzedBy'[j] = analyzedBy[j]
    <3>1. CASE StartAnalysis(i)
      BY <3>1 DEF TypeOK, StartAnalysis
    <3>2. CASE Spool(i) \/ AnalysisSucceeds(i) \/ \E c \in TaskCauses : AnalysisFails(i, c)
      BY <3>2 DEF TypeOK, Spool, AnalysisSucceeds, AnalysisFails
    <3>3. CASE StartConversion(i) \/ ConversionSucceeds(i) \/ \E c \in TaskCauses : ConversionFails(i, c)
      BY <3>3 DEF StartConversion, ConversionSucceeds, ConversionFails, ConversionEnds
    <3>4. QED BY <1>1, <3>1, <3>2, <3>3 DEF WorkerStep
  <2>3. QED BY <2>1, <2>2 DEF BinaryInv
<1>2. ASSUME NEW i \in Units, CloseReachable(i) PROVE BinaryInv'
  BY <1>2 DEF CloseReachable, BinaryInv
<1>3. CASE SwapBinary
  <2>1. /\ swaps < MaxSwaps /\ swaps' = swaps + 1 /\ binary' = 1 - binary
        /\ UNCHANGED <<analysis, analyzedBy, outcome>>
    BY <1>3 DEF SwapBinary
  <2>2. swaps = 0 /\ swaps' = 1 /\ binary = 0 /\ binary' = 1 /\ MaxSwaps = 1
    BY <2>1, PipelineAssumption DEF TypeOK, BinaryInv
  <2>3. QED BY <2>1, <2>2 DEF BinaryInv
<1>4. CASE ~MovesRegistry /\ ~SwapBinary
  <2>1. UNCHANGED <<swaps, binary>>
    <3>1. CASE CoordinatorStep
      BY <3>1 DEF CoordinatorStep, CoordinatorStops, CoordinatorSeesRequestFailure, CoordinatorLooks,
                  CoordinatorAsksAnalysis, CoordinatorAsksConversion, Asks,
                  CoordinatorSeesFailure, CoordinatorSubmits, CoordinatorSettles
    <3>2. CASE GeneratorStep
      BY <3>2 DEF GeneratorStep, RaiseRequestFailure, RaiseFailure, RaiseResult, Raise, Yield,
                  CheckIdentity, Unwind, JoinCoordinator, ShutdownExecutors, CloseReachable,
                  FinishClosing
    <3>3. CASE CallerStep \/ (\E c \in {"request", "telemetry"} : ExternalFailure(c))
      BY <3>3 DEF CallerStep, Resume, CallerCloses, ReleaseBatch, ExternalFailure
    <3>4. CASE Terminated \/ UNCHANGED vars
      BY <3>4 DEF Terminated, vars
    <3>5. QED
      BY <1>4, <3>1, <3>2, <3>3, <3>4 DEF Next, EnvironmentStep, MovesRegistry
  <2>2. /\ UNCHANGED analyzedBy
        /\ \A j \in Units : analysis[j] = "ok" => analysis'[j] = "ok"
    BY <1>4, SubmittingSteps
  <2>3. outcome'.cause = "complete" =>
          outcome.cause = "complete" \/ (binary = 0 /\ delivered = N)
    <3>1. CASE CheckIdentity
      BY <3>1 DEF CheckIdentity, AllDelivered, IdentityEnd, EndWith, Whole
    <3>2. CASE RaiseRequestFailure
      BY <3>2 DEF RaiseRequestFailure, Raise, EndWith, RequestEnd, Whole
    <3>3. CASE RaiseFailure
      BY <3>3 DEF RaiseFailure, Raise, EndWith, OutcomeInv
    <3>4. CASE RaiseResult
      <4>1. delivered \in Units
        BY <3>4, PipelineAssumption DEF TypeOK, RaiseResult, Raise, Units
      <4>2. outcome'.cause # "complete"
        BY <3>4, <4>1 DEF TypeOK, TaskCauses, RaiseResult, Raise, EndWith
      <4>3. QED BY <4>2
    <3>5. CASE FinishClosing \/ CallerStep
      BY <3>5 DEF FinishClosing, CallerStep, Resume, CallerCloses, ReleaseBatch, EndWith, Whole
    <3>6. CASE CoordinatorStep
      BY <3>6 DEF CoordinatorStep, CoordinatorStops, CoordinatorSeesRequestFailure, CoordinatorLooks,
                  CoordinatorAsksAnalysis, CoordinatorAsksConversion, Asks,
                  CoordinatorSeesFailure, CoordinatorSubmits, CoordinatorSettles
    <3>7. CASE Yield \/ Unwind \/ JoinCoordinator \/ ShutdownExecutors
      BY <3>7 DEF Yield, Unwind, JoinCoordinator, ShutdownExecutors
    <3>8. CASE EnvironmentStep \/ Terminated \/ UNCHANGED vars
      BY <3>8 DEF EnvironmentStep, ExternalFailure, SwapBinary, Terminated, vars
    <3>9. QED
      BY <1>4, <3>1, <3>2, <3>3, <3>4, <3>5, <3>6, <3>7, <3>8
      DEF Next, GeneratorStep, MovesRegistry
  <2>4. ASSUME binary = 0, delivered = N, NEW j \in Units
        PROVE  analyzedBy[j] = 0 /\ analysis[j] = "ok"
    <3>1. analyzedBy[j] = 0
      BY <2>4 DEF BinaryInv
    <3>2. j < delivered
      BY <2>4, PipelineAssumption DEF Units
    <3>3. UnitInv(j)
      BY DEF PrefixInv
    <3>4. QED BY <3>1, <3>2, <3>3 DEF UnitInv
  <2>5. outcome'.cause = "complete" =>
          \A j \in Units : analyzedBy'[j] = 0 /\ analysis'[j] = "ok"
    BY <2>2, <2>3, <2>4 DEF BinaryInv
  <2>6. QED BY <2>1, <2>2, <2>5 DEF BinaryInv
<1>5. QED BY <1>1, <1>2, <1>3, <1>4 DEF MovesRegistry

\* With at most one replacement during a run (a second one may put the first
\* binary back, which the comparison of digests at the end cannot see), a
\* stream that ends complete has facts of one analyzer only.
THEOREM OneAnalyzer ==
  ASSUME MaxSwaps <= 1
  PROVE  Spec => []CompleteMeansOneAnalyzer
<1>1. BinaryInv => CompleteMeansOneAnalyzer
  BY DEF BinaryInv, CompleteMeansOneAnalyzer
<1>2. Init => BinaryInv /\ OutcomeInv
  BY PipelineAssumption DEF Init, BinaryInv, OutcomeInv, NoEnd, Whole
<1>3. TypeOK /\ PrefixInv /\ OutcomeInv /\ BinaryInv /\ [Next]_vars => BinaryInv'
  BY BinaryStep
<1>4. QED
  BY <1>1, <1>2, <1>3, PrefixInit, PrefixStep, OutcomeStep, TypeCorrect, PTL DEF Spec
=============================================================================
