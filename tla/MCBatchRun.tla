----------------------------- MODULE MCBatchRun -----------------------------
(* A batch of two scrapers, the first with a run more than the second; its  *)
(* first job may be tried again.                                           *)
EXTENDS BatchRun, TLC

CONSTANTS c1, c2, f1, f2, s1

MCMaxRuns == [c \in Configs |-> IF c = c1 THEN 2 ELSE 1]
MCSilent == {<<c1, 1>>}
MCMaxRetries == [j \in Jobs |-> IF j \in MCSilent THEN 1 ELSE 0]
MCFinalizers == Permutations(Finalizers)
=============================================================================
