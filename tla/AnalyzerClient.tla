---------------------------- MODULE AnalyzerClient ----------------------------
(***************************************************************************)
(* One run of the native analyzer: NativeAnalyzerClient._invoke with the   *)
(* response checks of _analyze_stream (src/cpp_context_engine/ingestion/   *)
(* native.py).  The calling thread watches the process; a thread writes    *)
(* its input, one reads its records, one reads its diagnostics.            *)
(*                                                                         *)
(* The analyzer is any process: it may answer out of order or not at all,  *)
(* write too much, hang, fail, leave descendants that hold its pipes, in   *)
(* its process group or out of it.  Times are flags of the environment.    *)
(* A symbol whose text comes in chunks has one chunk here; the fragments   *)
(* and the bytes of records are the matter of AnalyzerProtocol.            *)
(***************************************************************************)
EXTENDS Naturals, Sequences, SequencesExt

CONSTANT MaxRecords   \* bound of the model: records the analyzer writes

\* "oversized" is a record beyond a byte limit; a record out of its place stands
\* for all that the response does not accept, malformed ones among them.
Records == {"hello", "begin", "fact", "symbol", "chunk", "complete", "oversized"}

VARIABLES
  process,      \* "none", "running", "dying" of a signal, "exited"
  exitCode,
  descendant,   \* "none", "grouped" or "detached": who else holds the pipes
  written,      \* records written to standard output
  caller,       \* "starting", "polling", "reaping", "joining", "ended"
  whyStopped,   \* was_cancelled, timed_out, or an exception in the caller
  outcome,      \* what the caller is told
  writerDone, readerDone, diagnosticsDone,
  consumed,     \* records read
  response,     \* state of the response: what is expected next
  delivered,    \* facts handed on
  failures,     \* of the reading threads
  cancelAsked, late, cleanupOver  \* cancellation event, deadline, two seconds of cleanup

processVars == <<process, exitCode, descendant, written>>
threadVars == <<writerDone, readerDone, diagnosticsDone, consumed, response, delivered, failures>>
clockVars == <<cancelAsked, late, cleanupOver>>
clientVars == <<processVars, threadVars, clockVars, caller, whyStopped, outcome>>

ClientInit ==
  /\ process = "none" /\ exitCode = 0 /\ descendant = "none" /\ written = <<>>
  /\ caller = "starting" /\ whyStopped = "none" /\ outcome = "none"
  /\ writerDone = TRUE /\ readerDone = TRUE /\ diagnosticsDone = TRUE
  /\ consumed = 0 /\ response = "hello" /\ delivered = <<>> /\ failures = <<>>
  /\ cancelAsked = FALSE /\ late = FALSE /\ cleanupOver = FALSE

-----------------------------------------------------------------------------
(* The response: accept of _analyze_stream.                                *)

\* Mutant: a symbol may stay without its chunk.
AcceptedCarelessly(state, record) ==
  IF state = "chunk" /\ record = "complete" THEN "complete" ELSE
  CASE state = "hello" /\ record = "hello" -> "begin"
    [] state = "begin" /\ record = "begin" -> "facts"
    [] state = "facts" /\ record = "fact" -> "facts"
    [] state = "facts" /\ record = "symbol" -> "chunk"
    [] state = "chunk" /\ record = "chunk" -> "facts"
    [] state = "facts" /\ record = "complete" -> "complete"
    [] OTHER -> "error"

\* The state after a record, or "error".
Accepted(state, record) ==
  CASE state = "hello" /\ record = "hello" -> "begin"
    [] state = "begin" /\ record = "begin" -> "facts"
    [] state = "facts" /\ record = "fact" -> "facts"
    [] state = "facts" /\ record = "symbol" -> "chunk"
    [] state = "chunk" /\ record = "chunk" -> "facts"
    [] state = "facts" /\ record = "complete" -> "complete"
    [] OTHER -> "error"

\* The state after all the records of a response, whatever was read of it.
StateAfter(records) ==
  LET state[k \in 0 .. Len(records)] ==
        IF k = 0 THEN "hello" ELSE Accepted(state[k - 1], records[k])
  IN state[Len(records)]

Response == StateAfter(written)

-----------------------------------------------------------------------------
(* The process.                                                            *)

\* Mutant: the signal goes to the process alone.
KillLeader ==
  /\ process' = IF process = "running" THEN "dying" ELSE process
  /\ UNCHANGED descendant

\* stop_process: the signal goes to the group, whose leader may be gone.
Kill ==
  /\ process' = IF process = "running" THEN "dying" ELSE process
  /\ descendant' = IF descendant = "grouped" THEN "none" ELSE descendant

WriteRecord ==
  /\ process = "running" /\ Len(written) < MaxRecords /\ Response # "error"
  /\ \E r \in Records : written' = Append(written, r)
  /\ UNCHANGED <<process, exitCode, descendant, threadVars, clockVars,
                 caller, whyStopped, outcome>>

Fork ==
  /\ process = "running" /\ descendant = "none"
  /\ descendant' \in {"grouped", "detached"}
  /\ UNCHANGED <<process, exitCode, written, threadVars, clockVars,
                 caller, whyStopped, outcome>>

\* By itself or by the signal.
Exit ==
  /\ \/ process = "running" /\ exitCode' \in {0, 1}
     \/ process = "dying" /\ exitCode' = 9
  /\ process' = "exited"
  /\ UNCHANGED <<descendant, written, threadVars, clockVars,
                 caller, whyStopped, outcome>>

DescendantEnds ==
  /\ descendant # "none" /\ descendant' = "none"
  /\ UNCHANGED <<process, exitCode, written, threadVars, clockVars,
                 caller, whyStopped, outcome>>

\* The pipes are at their end when nobody holds them.
PipesClosed == process = "exited" /\ descendant = "none"

-----------------------------------------------------------------------------
(* The reading and writing threads.                                        *)

Fail(error) == failures' = Append(failures, error) /\ Kill

\* Facts, symbols and chunks are handed on as they are (_analyze_registry).
ReadRecord ==
  /\ ~readerDone /\ consumed < Len(written)
  /\ consumed' = consumed + 1
  /\ LET record == written[consumed'] next == Accepted(response, record)
     IN IF next = "error"
        THEN /\ Fail(IF record = "oversized" THEN "limit" ELSE "protocol")
             /\ readerDone' = TRUE /\ UNCHANGED <<response, delivered>>
        ELSE /\ response' = next
             /\ delivered' = IF record \in {"fact", "symbol", "chunk"}
                             THEN Append(delivered, record) ELSE delivered
             /\ UNCHANGED <<process, descendant, readerDone, failures>>
  /\ UNCHANGED <<exitCode, written, writerDone, diagnosticsDone,
                 clockVars, caller, whyStopped, outcome>>

\* decoder.finish: the last line may have been cut.
ReadEnd ==
  /\ ~readerDone /\ consumed = Len(written) /\ PipesClosed
  /\ readerDone' = TRUE
  /\ \/ UNCHANGED <<failures, process, descendant>>
     \/ (exitCode # 0 \/ Response # "complete") /\ Fail("protocol")
  /\ UNCHANGED <<exitCode, written, writerDone, diagnosticsDone,
                 consumed, response, delivered, clockVars, caller, whyStopped, outcome>>

\* Too many diagnostics, or the end of the pipe.
ReadDiagnostics ==
  /\ ~diagnosticsDone
  /\ \/ Fail("limit")
     \/ PipesClosed /\ UNCHANGED <<failures, process, descendant>>
  /\ diagnosticsDone' = TRUE
  /\ UNCHANGED <<exitCode, written, writerDone, readerDone, consumed,
                 response, delivered, clockVars, caller, whyStopped, outcome>>

\* The process took the whole input, or the pipe is broken.
WriteEnds ==
  /\ ~writerDone /\ (process = "running" \/ PipesClosed)
  /\ writerDone' = TRUE
  /\ UNCHANGED <<processVars, readerDone, diagnosticsDone, consumed, response, delivered,
                 failures, clockVars, caller, whyStopped, outcome>>

ThreadsStep == ReadRecord \/ ReadEnd \/ ReadDiagnostics \/ WriteEnds

-----------------------------------------------------------------------------
(* The calling thread.                                                     *)

ReturnWith(what) == caller' = "ended" /\ outcome' = what

\* check_request, the binary, the size of the input, Popen.
CannotStart ==
  /\ caller = "starting"
  /\ \/ cancelAsked /\ ReturnWith("cancelled")
     \/ ~cancelAsked /\ late /\ ReturnWith("timeout")
     \/ ~cancelAsked /\ ~late /\ \E e \in {"unavailable", "limit"} : ReturnWith(e)
  /\ UNCHANGED <<processVars, threadVars, clockVars, whyStopped>>

StartProcess ==
  /\ caller = "starting" /\ ~cancelAsked /\ ~late
  /\ process' = "running" /\ caller' = "polling"
  /\ writerDone' = FALSE /\ readerDone' = FALSE /\ diagnosticsDone' = FALSE
  /\ UNCHANGED <<exitCode, descendant, written, consumed, response,
                 delivered, failures, clockVars, whyStopped, outcome>>

\* The polling loop ends: the process is gone, a cancellation, a deadline, a
\* failure of a reader (which killed the process), or an exception.
PollEnds ==
  /\ caller = "polling" /\ caller' = "reaping"
  /\ \/ process = "exited" /\ UNCHANGED <<process, descendant, whyStopped>>
     \/ process # "exited" /\ cancelAsked /\ whyStopped' = "cancelled" /\ Kill
     \/ process # "exited" /\ ~cancelAsked /\ failures # <<>>
        /\ UNCHANGED <<process, descendant, whyStopped>>
     \/ process # "exited" /\ ~cancelAsked /\ late
        /\ whyStopped' = "timeout" /\ Kill
     \/ process # "exited" /\ whyStopped' = "interrupted" /\ Kill
  /\ UNCHANGED <<exitCode, written, threadVars, clockVars, outcome>>

\* wait, and the signal for what is left of the group.
Reap ==
  /\ caller = "reaping" /\ (process = "exited" \/ cleanupOver)
  /\ caller' = "joining" /\ Kill
  /\ UNCHANGED <<exitCode, written, threadVars, clockVars,
                 whyStopped, outcome>>

ThreadsDone == writerDone /\ readerDone /\ diagnosticsDone

\* Mutant: what the readers saw comes before the caller's own reasons.
JudgedByReaders ==
  CASE failures # <<>> -> IF Contains(failures, "limit") THEN "limit" ELSE "protocol"
    [] failures = <<>> /\ whyStopped # "none" -> whyStopped
    [] failures = <<>> /\ whyStopped = "none" ->
         IF ~ThreadsDone THEN "cleanup"
         ELSE IF exitCode # 0 \/ response # "complete" THEN "protocol" ELSE "success"

\* The order in which the reasons are looked at.
Judged ==
  CASE whyStopped = "interrupted" -> "interrupted"
    [] ~ThreadsDone /\ whyStopped # "interrupted" -> "cleanup"
    [] ThreadsDone /\ whyStopped \in {"cancelled", "timeout"} -> whyStopped
    [] ThreadsDone /\ whyStopped = "none" /\ failures # <<>> ->
         IF Contains(failures, "limit") THEN "limit" ELSE "protocol"
    [] ThreadsDone /\ whyStopped = "none" /\ failures = <<>> ->
         IF exitCode # 0 \/ response # "complete" THEN "protocol" ELSE "success"

\* Mutant: the threads are joined without a time limit.
JoinedAll == ThreadsDone
Joined == ThreadsDone \/ cleanupOver

JoinThreads ==
  /\ caller = "joining" /\ Joined
  /\ ReturnWith(Judged)
  /\ IF ThreadsDone THEN UNCHANGED <<process, descendant>> ELSE Kill
  /\ UNCHANGED <<exitCode, written, threadVars, clockVars, whyStopped>>

CallerStep == CannotStart \/ StartProcess \/ PollEnds \/ Reap \/ JoinThreads

-----------------------------------------------------------------------------
(* The environment.                                                        *)

\* The event and the deadline matter as long as the caller looks at them.
AskCancel ==
  /\ caller \in {"starting", "polling"} /\ cancelAsked' = TRUE
  /\ UNCHANGED <<processVars, threadVars, late, cleanupOver, caller, whyStopped, outcome>>

DeadlinePasses ==
  /\ caller \in {"starting", "polling"} /\ late' = TRUE
  /\ UNCHANGED <<processVars, threadVars, cancelAsked, cleanupOver, caller, whyStopped, outcome>>

CleanupTimePasses ==
  /\ caller \in {"reaping", "joining"} /\ cleanupOver' = TRUE
  /\ UNCHANGED <<processVars, threadVars, cancelAsked, late, caller, whyStopped, outcome>>

ClientNext ==
  \/ WriteRecord \/ Fork \/ Exit \/ DescendantEnds
  \/ ThreadsStep \/ CallerStep
  \/ AskCancel \/ DeadlinePasses \/ CleanupTimePasses

ClientSpec == ClientInit /\ [][ClientNext]_clientVars

\* The caller runs, and clocks go on.  Nothing is assumed of the analyzer or
\* of the threads that depend on it.
ClientFairness ==
  WF_clientVars(CallerStep) /\ WF_clientVars(DeadlinePasses) /\ WF_clientVars(CleanupTimePasses)

-----------------------------------------------------------------------------
(* Properties.                                                             *)

ClientTypes ==
  /\ process \in {"none", "running", "dying", "exited"} /\ exitCode \in {0, 1, 9}
  /\ descendant \in {"none", "grouped", "detached"}
  /\ written \in Seq(Records) /\ delivered \in Seq(Records)
  /\ caller \in {"starting", "polling", "reaping", "joining", "ended"}
  /\ whyStopped \in {"none", "cancelled", "timeout", "interrupted"}
  /\ outcome \in {"none", "success", "cancelled", "timeout", "interrupted", "cleanup",
                  "limit", "protocol", "unavailable"}
  /\ consumed \in 0 .. Len(written)
  /\ response \in {"hello", "begin", "facts", "chunk", "complete"}
  /\ failures \in Seq({"limit", "protocol"})
  /\ {writerDone, readerDone, diagnosticsDone, cancelAsked, late,
      cleanupOver} \subseteq BOOLEAN

\* A whole response: a header, facts, each symbol with its text, one last record.
WholeResponse(records) ==
  LET n == Len(records)
  IN  /\ n >= 3 /\ records[1] = "hello" /\ records[2] = "begin" /\ records[n] = "complete"
      /\ \A i \in 3 .. n - 1 :
           /\ records[i] \in {"fact", "symbol", "chunk"}
           /\ records[i] = "symbol" <=> records[i + 1] = "chunk"

\* Success means that the process ended well, that it wrote one whole response,
\* and that every fact of it was handed on; no earlier kill cut it short.
SuccessIsWhole ==
  /\ ClientTypes
  /\ outcome = "success" =>
    /\ process = "exited" /\ exitCode = 0 /\ WholeResponse(written)
    /\ delivered = SubSeq(written, 3, Len(written) - 1)

\* However a run ends, no process of the group is left to run, and no thread is
\* left behind unless the caller is told so (or was itself interrupted).
NothingLeftBehind ==
  caller = "ended" =>
    /\ process # "running" /\ descendant # "grouped"
    /\ ThreadsDone \/ outcome \in {"cleanup", "interrupted"}

\* The analyzer is blamed for its response only if it did something wrong by
\* itself: not for what a cancellation or a deadline cut off.
BlameIsJust ==
  outcome = "protocol" =>
    \/ exitCode = 1                                   \* it failed
    \/ Response = "error"                             \* it broke the protocol
    \/ exitCode = 0 /\ Response # "complete"          \* it stopped halfway

\* What must hold in the end: a run is over, whatever the analyzer, its descendants
\* and its pipes do.
RunOver == caller = "ended"
=============================================================================
