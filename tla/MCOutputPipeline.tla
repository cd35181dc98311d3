-------------------------- MODULE MCOutputPipeline --------------------------
(***************************************************************************)
(* Instances of OutputPipeline for TLC.                                    *)
(***************************************************************************)
EXTENDS OutputPipeline

\* Chunks of one, three, one and two units: removing the oldest may reclaim
\* too little or more than is needed.
Lengths == <<1, 3, 1, 2>>

MCBytes == [S \in SUBSET Chunk |-> MapThenSumSet(LAMBDA n : Lengths[n + 1], S)]

\* One chunk more, the first of them three units long: retention can remove rows of a
\* full page before its notice is read, with a chunk left that the viewer never
\* asks for.
ViewedLengths == <<3, 1, 1, 2, 2>>

ViewedBytes == [S \in SUBSET Chunk |-> MapThenSumSet(LAMBDA n : ViewedLengths[n + 1], S)]

\* Bound of Viewing: a job whose row ends early and a failing transaction are not
\* combined (Persistence combines them).
EarlyOrFailed == ~early \/ failures = 0
=============================================================================
