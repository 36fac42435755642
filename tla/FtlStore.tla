------------------------------ MODULE FtlStore ------------------------------
(***************************************************************************)
(* What ftl_save and ftl_load promise to the applications: a map from      *)
(* logical addresses to words in which the save of one word is atomic,     *)
(* whatever power losses come in between.  A save that power loss cuts     *)
(* short has happened or has not; every other word is untouched.  The      *)
(* promise is withdrawn for good once the store is broken.                 *)
(***************************************************************************)
CONSTANTS Addr, Word, NoWord, NoItem

VARIABLES store,    \* what is saved
          pending,  \* the save in progress
          intact    \* whether the promise stands

svars == <<store, pending, intact>>

Empty == [a \in Addr |-> NoWord]

Init == store = Empty /\ pending = NoItem /\ intact = TRUE

Begin == /\ pending = NoItem
         /\ \E a \in Addr, w \in Word : pending' = [addr |-> a, val |-> w]
         /\ UNCHANGED <<store, intact>>

\* The save takes effect and returns.
Commit == /\ pending # NoItem
          /\ store' = [store EXCEPT ![pending.addr] = pending.val]
          /\ pending' = NoItem
          /\ UNCHANGED intact

Cut == /\ pending # NoItem
       /\ pending' = NoItem
       /\ UNCHANGED <<store, intact>>

Clear == /\ pending = NoItem
         /\ store' = Empty
         /\ UNCHANGED <<pending, intact>>

Break == intact /\ intact' = FALSE

Next == Break \/ ~intact \/ (intact' /\ (Begin \/ Commit \/ Cut \/ Clear))

Spec == Init /\ [][Next]_svars
=============================================================================
