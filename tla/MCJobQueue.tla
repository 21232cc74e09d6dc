------------------------------ MODULE MCJobQueue ------------------------------
(* Instances of JobQueue for TLC: two jobs share a context object, a third   *)
(* one has its own; one job is enqueued without a future.                    *)
EXTENDS JobQueue, TLC

CONSTANTS j1, j2, j3, shared, own, w1, w2

MCJobs == {j1, j2, j3}
MCContexts == {shared, own}
MCContextOf == [j \in Jobs |-> IF j = j3 THEN own ELSE shared]
WorkerSymmetry == Permutations(Workers)
================================================================================
