------------------------------ MODULE MCIngest ------------------------------
(* Ingest for TLC: jobs are alike, and so are requests.                    *)
EXTENDS Ingest, TLC

Alike == Permutations(Job) \cup Permutations(Call)
=============================================================================
