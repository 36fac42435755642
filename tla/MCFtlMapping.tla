---------------------------- MODULE MCFtlMapping ----------------------------
(* A table of a few addresses; the entries written tell every nibble apart. *)
EXTENDS FtlMapping

FourHalves == {1, 1383, 2748, 4095}   \* 0x001, 0x567, 0xabc, 0xfff
=============================================================================
