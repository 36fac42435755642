------------------------------ MODULE MCDhcps ------------------------------
(* Three stations for a table of two.  Of the three addresses of the pool  *)
(* the first is the server's own and the last is the end of a word.  The   *)
(* stations can change places: no definition tells one from another.       *)
EXTENDS Dhcps, TLC

ClientSymmetry == Permutations(Clients)
=============================================================================
