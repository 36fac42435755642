------------------------------- MODULE MCNand -------------------------------
(* Two user blocks of two pages, the second bad from the factory.          *)
EXTENDS Nand, TLC

CONSTANT v1

OneValue == {v1}
SecondBad == {1}
Request(op, b, p, v) == [op |-> op, block |-> b, page |-> p, value |-> v]
(* The block that is bad is read and erased, both pages of the good one are *)
(* written.                                                                 *)
SomeRequests == {Request("read", 1, 0, Blank), Request("erase", 1, 0, Blank),
                 Request("write", 0, 0, v1), Request("write", 0, 1, v1)}
=============================================================================
