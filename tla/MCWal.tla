------------------------------- MODULE MCWal -------------------------------
(***************************************************************************)
(* An instance of the group-commit log for TLC.  Two writers are enough to *)
(* have a record in the batch being written and one in the batch being     *)
(* collected; the liveness properties name writers, so they are not taken  *)
(* as symmetric.                                                           *)
(***************************************************************************)
EXTENDS Wal

CONSTANTS w1, w2
TwoWriters == {w1, w2}
=============================================================================
