---------------------------- MODULE MCGithubSync ----------------------------
(* Small instances of GithubSync: two live jobs, one of which reads every  *)
(* state, over shared repositories, and a manual job.                      *)
EXTENDS GithubSync, TLC

CONSTANTS j1, j2, j3, r1, r2

TwoRepositories == [j \in Jobs |-> IF j = j1 THEN {r1, r2} ELSE {r1}]
OneRepository == [j \in Jobs |-> {r1}]
WorkerSymmetry == Permutations(Workers)
=============================================================================
