----------------------------- MODULE MCWorkerHealth -----------------------------
(***************************************************************************)
(* WorkerHealth with workers that have names of their own, as they have by *)
(* default, or share one. Names are interchangeable, so one worker's is    *)
(* fixed (a symmetry set would not be sound for the liveness property).    *)
(***************************************************************************)
EXTENDS WorkerHealth

CONSTANTS w1, w2, a, b

MCNamings == {f \in [{w1, w2} -> {a, b}] : f[w1] = a}
==============================================================================
