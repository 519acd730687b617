----------------------------- MODULE BatchStream -----------------------------
(***************************************************************************)
(* What a consumer of NativeClangIngestor.iter_configuration_batches may   *)
(* rely on, without threads, futures, spools or bounds: the batches of the *)
(* selected translation units come out one at a time, in selection order,  *)
(* and the stream then ends exactly once, as "complete" only after every   *)
(* batch came out.  docs/indexing.md calls this "compilation-database      *)
(* admission order".                                                       *)
(***************************************************************************)
EXTENDS Naturals

CONSTANT N    \* number of selected translation units

VARIABLES
  emitted,    \* how many batches the consumer has received (units 0 .. emitted-1)
  ending      \* "open", then "complete" or "aborted"

streamVars == <<emitted, ending>>

StreamInit == emitted = 0 /\ ending = "open"

\* The next batch, in order, and nothing after the stream has ended.
Emit == /\ ending = "open"
        /\ emitted < N
        /\ emitted' = emitted + 1
        /\ UNCHANGED ending

\* Normal end: every batch has come out.
Complete == /\ ending = "open"
            /\ emitted = N
            /\ ending' = "complete"
            /\ UNCHANGED emitted

\* A failure, a cancellation, or the consumer closing the stream early.
Abort == /\ ending = "open"
         /\ ending' = "aborted"
         /\ UNCHANGED emitted

StreamNext == Emit \/ Complete \/ Abort

StreamSafe == StreamInit /\ [][StreamNext]_streamVars

StreamSpec == StreamSafe /\ WF_streamVars(StreamNext)
=============================================================================
