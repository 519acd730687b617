------------------------------- MODULE Telemetry -------------------------------
(***************************************************************************)
(* The telemetry of an analysis pipeline: _TelemetryDispatcher             *)
(* (src/cpp_context_engine/ingestion/native.py) and AnalyzerSlotIdleGate   *)
(* (telemetry.py).  The coordinator and the analyzer slots enqueue events  *)
(* under a lock, a dispatcher thread hands them to an observer that may    *)
(* be slow, hang or raise, and the gate fails the run when a slot is idle  *)
(* too long although units wait and a registry is free.                    *)
(*                                                                         *)
(* Events are their sequence numbers.  The scheduler is reduced to what    *)
(* the events say of it; events of conversions, which change nothing the   *)
(* gate looks at, are left out.                                            *)
(***************************************************************************)
EXTENDS Integers, Sequences, FiniteSets

CONSTANTS
  Slots,          \* analyzer slots
  Configurations, \* number of translation units
  Held,           \* max_spool_registries
  QueueLimit,     \* capacity of the event queue
  MaxIdle,        \* max_idle_seconds
  MaxTime         \* bound of the model: the clock

ASSUME TelemetryAssumption ==
  /\ {Configurations, Held, QueueLimit, MaxIdle, MaxTime} \subseteq Nat \ {0}
  /\ IsFiniteSet(Slots)

NotIdle == -1

VARIABLES
  now,
  unscheduled, held, slot,  \* scheduler: units waiting, registries, "free", "assigned" or "active"
  cancelFlag,   \* the event that cancels the pipeline
  polled,       \* the coordinator read "failure" in this unit of time
  sequence,     \* number of the last event
  queue,        \* events to be dispatched
  failed,       \* _failure
  stopAsked,    \* _stop_requested
  idleSince,    \* the gate's idle_since of every slot
  dispatcher,   \* "waiting", "deciding", "observing" or "gone"
  inHand,       \* the event it took
  seen,         \* events the observer received
  closing,      \* "open", "joining" or "closed"
  idleFor       \* history: how long a slot has been idle without a good reason

telemetryVars == <<now, unscheduled, held, slot, cancelFlag, polled, sequence, queue,
                   failed, stopAsked, idleSince, dispatcher, inHand, seen, closing, idleFor>>
schedulerVars == <<unscheduled, held, slot>>
gateVars == <<sequence, queue, failed, idleSince>>
dispatcherVars == <<dispatcher, inHand, seen>>

-----------------------------------------------------------------------------
(* The gate.                                                               *)

ChecksEnabled == ~stopAsked /\ ~cancelFlag

\* _measure_idle
IdleTooLong == \E s \in Slots : idleSince[s] # NotIdle /\ now - idleSince[s] > MaxIdle

\* _idle_is_actionable with the scheduler's next state
Actionable == unscheduled' > 0 /\ held' < Held

\* _apply_current_idle_state
\* Mutant: every event starts the interval again.
RestartIdle(s) == IF slot'[s] = "active" \/ ~Actionable THEN NotIdle ELSE now
ApplyIdle(s) ==
  CASE slot'[s] = "active" \/ ~Actionable -> NotIdle
    [] OTHER -> IF idleSince[s] = NotIdle THEN now ELSE idleSince[s]

\* The property "failure", read by the coordinator and the dispatcher.
FailureRead == failed \/ (ChecksEnabled /\ IdleTooLong)

\* _enqueue_locked: nothing after a failure; the gate, then the queue.
Enqueue ==
  IF failed
  THEN UNCHANGED gateVars
  ELSE LET late == ChecksEnabled /\ IdleTooLong
           full == Len(queue) >= QueueLimit
       IN /\ sequence' = sequence + 1
          /\ failed' = (late \/ full)
          /\ queue' = IF late \/ full THEN queue ELSE Append(queue, sequence')
          /\ idleSince' = IF ChecksEnabled /\ ~late
                          THEN [s \in Slots |-> ApplyIdle(s)] ELSE idleSince

\* A slot is idle without a good reason: what the gate is to measure.
KeepIdleFor ==
  idleFor' = [s \in Slots |-> IF slot'[s] = "active" \/ ~Actionable THEN 0 ELSE idleFor[s]]

\* The first event is enqueued by the constructor.
TelemetryInit ==
  /\ now = 0 /\ unscheduled = Configurations /\ held = 0
  /\ slot = [s \in Slots |-> "free"]
  /\ cancelFlag = FALSE /\ polled = TRUE
  /\ sequence = 1 /\ queue = <<1>> /\ failed = FALSE /\ stopAsked = FALSE
  /\ idleSince = [s \in Slots |-> 0] /\ idleFor = [s \in Slots |-> 0]
  /\ dispatcher = "waiting" /\ inHand = 0 /\ seen = <<>> /\ closing = "open"

-----------------------------------------------------------------------------
(* Producers: the coordinator, the analyzer slots and the generator.       *)

Produce ==
  /\ closing = "open" /\ Enqueue /\ KeepIdleFor
  /\ UNCHANGED <<now, cancelFlag, polled, stopAsked, dispatcherVars, closing>>

\* The state is recorded before the unit is submitted.
Schedule(s) ==
  /\ ~cancelFlag /\ unscheduled > 0 /\ held < Held /\ slot[s] = "free"
  /\ unscheduled' = unscheduled - 1 /\ held' = held + 1
  /\ slot' = [slot EXCEPT ![s] = "assigned"]
  /\ Produce

SlotStarts(s) ==
  /\ slot[s] = "assigned"
  /\ slot' = [slot EXCEPT ![s] = "active"] /\ UNCHANGED <<unscheduled, held>>
  /\ Produce

SlotFinishes(s) ==
  /\ slot[s] = "active"
  /\ slot' = [slot EXCEPT ![s] = "free"] /\ UNCHANGED <<unscheduled, held>>
  /\ Produce

\* The generator gives back the registry of a batch.
ReleaseRegistry ==
  /\ held > Cardinality({s \in Slots : slot[s] # "free"})
  /\ held' = held - 1 /\ UNCHANGED <<unscheduled, slot>>
  /\ Produce

-----------------------------------------------------------------------------
(* The failure as the coordinator sees it, cancellation and time.          *)

ReadFailure ==
  /\ closing = "open" /\ failed' = FailureRead /\ polled' = TRUE
  /\ UNCHANGED <<now, schedulerVars, cancelFlag, sequence, queue, stopAsked, idleSince,
                 dispatcherVars, closing, idleFor>>

\* A request, or the coordinator because of a failure.
CancelPipeline ==
  /\ cancelFlag' = TRUE
  /\ UNCHANGED <<now, schedulerVars, polled, gateVars, stopAsked, dispatcherVars, closing, idleFor>>

\* A unit of time is longer than the 0.05 s between two looks of the coordinator.
Tick ==
  /\ now < MaxTime /\ (polled \/ closing # "open")
  /\ now' = now + 1 /\ polled' = FALSE
  /\ idleFor' = [s \in Slots |->
       IF slot[s] # "active" /\ unscheduled > 0 /\ held < Held THEN idleFor[s] + 1 ELSE 0]
  /\ UNCHANGED <<schedulerVars, cancelFlag, gateVars, stopAsked, dispatcherVars, closing>>

-----------------------------------------------------------------------------
(* The dispatcher thread.                                                  *)

\* Mutant: it leaves as soon as it is asked to.
LeaveAtOnce == stopAsked
MayLeave == stopAsked /\ queue = <<>>

DispatcherLeaves ==
  /\ dispatcher = "waiting" /\ MayLeave
  /\ dispatcher' = "gone"
  /\ UNCHANGED <<now, schedulerVars, cancelFlag, polled, gateVars, stopAsked, inHand, seen,
                 closing, idleFor>>

Take ==
  /\ dispatcher = "waiting" /\ ~MayLeave /\ queue # <<>>
  /\ inHand' = Head(queue) /\ queue' = Tail(queue) /\ dispatcher' = "deciding"
  /\ UNCHANGED <<now, schedulerVars, cancelFlag, polled, sequence, failed, stopAsked,
                 idleSince, seen, closing, idleFor>>

\* The queue is empty: open intervals are looked at without an event.
TakeTimesOut ==
  /\ dispatcher = "waiting" /\ ~MayLeave /\ queue = <<>>
  /\ failed' = FailureRead
  /\ UNCHANGED <<now, schedulerVars, cancelFlag, polled, sequence, queue, stopAsked,
                 idleSince, dispatcherVars, closing, idleFor>>

\* Nothing is handed on after a failure.
Decide ==
  /\ dispatcher = "deciding"
  /\ failed' = FailureRead
  /\ IF FailureRead
     THEN dispatcher' = "waiting" /\ UNCHANGED seen
     ELSE dispatcher' = "observing" /\ seen' = Append(seen, inHand)
  /\ UNCHANGED <<now, schedulerVars, cancelFlag, polled, sequence, queue, stopAsked,
                 idleSince, inHand, closing, idleFor>>

\* The observer returns or raises.
Observed ==
  /\ dispatcher = "observing" /\ dispatcher' = "waiting"
  /\ \/ UNCHANGED failed
     \/ failed' = TRUE
  /\ UNCHANGED <<now, schedulerVars, cancelFlag, polled, sequence, queue, stopAsked,
                 idleSince, inHand, seen, closing, idleFor>>

-----------------------------------------------------------------------------
(* close, at the end of the pipeline: no producer is left.                 *)

CloseTelemetry ==
  /\ closing = "open" /\ cancelFlag /\ \A s \in Slots : slot[s] # "active"
  /\ stopAsked' = TRUE /\ closing' = "joining"
  /\ UNCHANGED <<now, schedulerVars, cancelFlag, polled, gateVars, dispatcherVars, idleFor>>

\* The dispatcher is gone, or two seconds are over.
DispatcherJoined ==
  /\ closing = "joining"
  /\ closing' = "closed" /\ failed' = (failed \/ dispatcher # "gone")
  /\ UNCHANGED <<now, schedulerVars, cancelFlag, polled, sequence, queue, stopAsked,
                 idleSince, dispatcherVars, idleFor>>

ProducerStep ==
  \/ \E s \in Slots : Schedule(s) \/ SlotStarts(s) \/ SlotFinishes(s)
  \/ ReleaseRegistry

TelemetryNext ==
  \/ ProducerStep \/ ReadFailure \/ CancelPipeline \/ Tick
  \/ DispatcherLeaves \/ Take \/ TakeTimesOut \/ Decide \/ Observed
  \/ CloseTelemetry \/ DispatcherJoined

TelemetrySpec == TelemetryInit /\ [][TelemetryNext]_telemetryVars

-----------------------------------------------------------------------------
(* Properties.                                                             *)

TelemetryTypes ==
  /\ {now, unscheduled, held, sequence, inHand} \subseteq Nat
  /\ held <= Held /\ Len(queue) <= QueueLimit
  /\ slot \in [Slots -> {"free", "assigned", "active"}]
  /\ idleSince \in [Slots -> Int] /\ idleFor \in [Slots -> Nat]
  /\ {cancelFlag, polled, failed, stopAsked} \subseteq BOOLEAN
  /\ dispatcher \in {"waiting", "deciding", "observing", "gone"}
  /\ closing \in {"open", "joining", "closed"}

\* Telemetry that closes without a failure has handed every event to the
\* observer, once and in order: a full queue, an observer that raises or hangs
\* and events skipped after a failure all show in the failure.
DeliveredWhole ==
  TelemetryTypes /\ (closing = "closed" /\ ~failed => seen = [i \in 1 .. sequence |-> i])

\* As long as the gate is on, no slot is idle much longer than allowed while
\* units wait and a registry is free: other slots' events do not hide it.
LongIdleIsNoticed ==
  ChecksEnabled /\ ~failed => \A s \in Slots : idleFor[s] <= MaxIdle + 1
=============================================================================
