--------------------------- MODULE MCTracerThreads ---------------------------
(* Instances of TracerThreads for TLC.                                       *)
EXTENDS TracerThreads, TLC

CONSTANTS t1, t2, t3, a, b, c

(* A run for each thread; two threads on one run and one on its own.         *)
MCOwnRuns == (t1 :> a) @@ (t2 :> b) @@ (t3 :> c)

MCSharedRun == (t1 :> a) @@ (t2 :> a) @@ (t3 :> b)
=============================================================================
