------------------------------- MODULE MCTftp -------------------------------
(* A file of four blocks, the last one short; three rounds of each loop.   *)
EXTENDS Tftp
=============================================================================
