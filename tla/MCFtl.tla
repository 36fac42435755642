------------------------------- MODULE MCFtl -------------------------------
(* The smallest ring ftl_init accepts, with pages of two pairs: three       *)
(* logical addresses, one fewer than two pages hold, as in the code.        *)
EXTENDS Ftl, TLC

CONSTANTS v1, v2

AllValues == {v1, v2, Blank}
FourSaves == {<<0, v1>>, <<0, v2>>, <<1, v1>>, <<2, v1>>}
BlankSaves == {<<0, v1>>, <<0, Blank>>, <<1, v1>>}
EachAddress == {<<0, v1>>, <<1, v1>>, <<2, v1>>}
TwoAddresses == {<<0, v1>>, <<1, v1>>}
NoGcCalls == {}
NoIoctls == {}
AllIoctls == {"clear", "eraseInvalid"}
=============================================================================
