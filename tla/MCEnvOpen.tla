------------------------------ MODULE MCEnvOpen ------------------------------
(***************************************************************************)
(* EnvOpen on small instances, from no data file at all.  Three processes: *)
(* one may open while another works and a third closes or dies.            *)
(***************************************************************************)
EXTENDS EnvOpen, TLC

Symmetry == Permutations(Procs)
=============================================================================
