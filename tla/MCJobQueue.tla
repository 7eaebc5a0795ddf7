----------------------------- MODULE MCJobQueue -----------------------------
(* Job 2 depends on job 1; job 1 has two opcodes.                           *)
EXTENDS JobQueue

MCJobs == {1, 2}
MCNumOps == <<2, 1>>
MCDeps == <<{}, {1}>>
=============================================================================
