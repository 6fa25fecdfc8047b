------------------------------ MODULE MCEnvCopy ------------------------------
(***************************************************************************)
(* EnvCopy on a small database: buffers of three pages; both buffers are   *)
(* used twice, one is handed over full, others early because of a tail,    *)
(* and a tail follows a chain whose first page opens a buffer.             *)
(***************************************************************************)
EXTENDS EnvCopy

SmallItems == <<1, 1, 3, 2, 1, 1, 1, 1, 4, 1>>
=============================================================================
