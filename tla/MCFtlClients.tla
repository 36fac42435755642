---------------------------- MODULE MCFtlClients ----------------------------
(* Three tasks that share a block of two words on the smallest ring.        *)
EXTENDS FtlClients, TLC

CONSTANTS v1, v2, s1, s2, r1

AllTasks == {s1, s2, r1}
TwoValues == {v1, v2}
OneValue == {v1}
JustS1 == {s1}
JustS2 == {s2}
JustR1 == {r1}
BothS == {s1, s2}
NoTasks == {}
None == {}
BlockSaves == Index \X Values
DefaultGcCalls == {<<1, 4>>}   \* idle_gc_page_thres, idle_gc_cell_thres
=============================================================================
