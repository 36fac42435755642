----------------------------- MODULE FtlClients -----------------------------
(***************************************************************************)
(* The callers of the FTL: ftl_save_to_storage and ftl_load_from_storage   *)
(* move a block of words under ftl_mutex_lock, which they wait for 100 ms  *)
(* at most; each ftl_write and each collection holds the recursive mutex   *)
(* ftl_sem, ftl_read does not.  A collection asked for by a task           *)
(* (FTL_IOCTL_DO_GC_IN_APP, or the idle task) takes ftl_sem alone.         *)
(*                                                                         *)
(* Ftl is the log underneath, one step per flash operation; a task is busy *)
(* while Ftl runs on its behalf.  A page that is to be written next or     *)
(* that was collected may not take its erased mark (the read-back of       *)
(* ftl_page_write), the only failure ftl_page_erase reports.               *)
(***************************************************************************)
EXTENDS Ftl

CONSTANTS
    Tasks, NoTask,
    Savers, Loaders, Collectors,  \* the tasks that make each kind of call
    Words,        \* the words of the block they share, at addresses 0, 1, ...
    MarksFail     \* whether writing an erased mark may fail

ASSUME TaskAssumption ==
    /\ NoTask \notin Tasks
    /\ Savers \subseteq Tasks /\ Loaders \subseteq Tasks /\ Collectors \subseteq Tasks
    /\ Words \in 1 .. MAX_logical
    /\ (0 .. Words - 1) \X Values \subseteq Saves
    /\ MarksFail \in BOOLEAN

VARIABLES
    mutex,   \* who holds ftl_mutex_lock
    sem,     \* who holds ftl_sem
    leaked,  \* a level of ftl_sem was taken and not given back
    task     \* the call each task is in

clientVars == <<mutex, sem, leaked, task>>
allVars    == <<vars, clientVars>>

Index == 0 .. Words - 1

(* at: "lock" waits for the mutex, "word" is before the next word (for ftl_sem,   *)
(* if it writes), "busy" is inside ftl_write or the collector, "key" and "data"   *)
(* are before the two flash reads of ftl_read, "unlock" is before rtw_mutex_put.  *)
Ready == [op |-> "none", at |-> "ready", word |-> 0, val |-> Blank,
          pair |-> 0, got |-> [i \in Index |-> Blank], ok |-> TRUE]

ClientInit == /\ Init
              /\ mutex = NoTask /\ sem = NoTask /\ leaked = FALSE
              /\ task = [t \in Tasks |-> Ready]

Booting == \/ pc \in {"off", "scan", "cell", "map", "recover", "rec", "recount"}
           \/ target.next = "init" \/ walk.loop = "rec"

Goto(t, at) == task' = [task EXCEPT ![t].at = at]

-----------------------------------------------------------------------------
(* Calls and the mutex around them.                                         *)

\* The drivers are initialised before any task runs (app_ftl_init in main.c).
CallSave(t, v) ==
    /\ ~Booting /\ task[t].at = "ready"
    /\ task' = [task EXCEPT ![t] = [Ready EXCEPT !.op = "save", !.at = "lock", !.val = v]]
    /\ UNCHANGED <<vars, mutex, sem, leaked>>

CallLoad(t) ==
    /\ ~Booting /\ task[t].at = "ready"
    /\ task' = [task EXCEPT ![t] = [Ready EXCEPT !.op = "load", !.at = "lock"]]
    /\ UNCHANGED <<vars, mutex, sem, leaked>>

CallCollect(t) ==
    /\ ~Booting /\ task[t].at = "ready"
    /\ task' = [task EXCEPT ![t] = [Ready EXCEPT !.op = "gc", !.at = "word"]]
    /\ UNCHANGED <<vars, mutex, sem, leaked>>

\* Mutant: a load does not wait for the mutex.
Mut_GetMutex(t) ==
    /\ task[t].at = "lock" /\ (mutex = NoTask \/ task[t].op = "load")
    /\ mutex' = t
    /\ Goto(t, "word")
    /\ UNCHANGED <<vars, sem, leaked>>

GetMutex(t) ==
    /\ task[t].at = "lock" /\ mutex = NoTask
    /\ mutex' = t
    /\ Goto(t, "word")
    /\ UNCHANGED <<vars, sem, leaked>>

\* Mutants: the result of rtw_mutex_get_timeout is ignored; it waits for ever.
Mut_MutexTimeout(t) ==
    /\ task[t].at = "lock" /\ mutex # NoTask
    /\ Goto(t, "word")
    /\ UNCHANGED <<vars, mutex, sem, leaked>>
Mut_NoTimeout(t) == FALSE

\* ERROR_MUTEX_GET_TIMEOUT.
MutexTimeout(t) ==
    /\ task[t].at = "lock" /\ mutex # NoTask
    /\ task' = [task EXCEPT ![t] = Ready]
    /\ UNCHANGED <<vars, mutex, sem, leaked>>

PutMutex(t) ==
    /\ task[t].at = "unlock"
    /\ mutex' = NoTask
    /\ task' = [task EXCEPT ![t] = Ready]
    /\ UNCHANGED <<vars, sem, leaked>>

-----------------------------------------------------------------------------
(* ftl_sem, and what the task that holds it does in Ftl.                    *)

CanTakeSem(t) == pc = "idle" /\ sem \in {NoTask, t}

WriteWord(t) ==
    /\ task[t].op = "save" /\ task[t].at = "word" /\ CanTakeSem(t)
    /\ Save(task[t].word, task[t].val)
    /\ sem' = t
    /\ Goto(t, "busy")
    /\ UNCHANGED <<mutex, leaked>>

StartCollect(t, thresholds) ==
    /\ task[t].op = "gc" /\ task[t].at = "word" /\ CanTakeSem(t)
    /\ Collect(thresholds)
    /\ sem' = t
    /\ Goto(t, "busy")
    /\ UNCHANGED <<mutex, leaked>>

\* The thresholds are not met: ftl_sem is taken and given back.
SkipCollect(t, thresholds) ==
    /\ task[t].op = "gc" /\ task[t].at = "word" /\ CanTakeSem(t)
    /\ ~(freeCount <= thresholds[1] /\ free <= thresholds[2])
    /\ task' = [task EXCEPT ![t] = Ready]
    /\ UNCHANGED <<vars, mutex, sem, leaked>>

\* Mutant: one word too many.
Mut_NextWord(r) ==
    [r EXCEPT !.word = @ + 1, !.at = IF r.word < Words THEN "word" ELSE "unlock"]

\* The loop over the words of the block.
NextWord(r) ==
    [r EXCEPT !.word = @ + 1, !.at = IF r.word + 1 < Words THEN "word" ELSE "unlock"]

AfterCall(r) == IF r.op = "gc" THEN Ready ELSE NextWord(r)

Fail(r) == [r EXCEPT !.at = "unlock", !.ok = FALSE]

\* Mutant: ftl_sem is not given back.
Mut_GiveSem == sem' = sem

\* The mutex is recursive: one level not given back keeps it taken.
GiveSem == sem' = IF leaked' THEN sem ELSE NoTask

\* The boot, or the task inside ftl_write or the collector, runs on.
Run ==
    /\ Step
    /\ leaked' = leaked
    /\ IF pc' = "idle"
       THEN /\ GiveSem
            /\ task' = [t \in Tasks |-> IF task[t].at = "busy" THEN AfterCall(task[t])
                                                               ELSE task[t]]
       ELSE UNCHANGED <<sem, task>>
    /\ UNCHANGED mutex

-----------------------------------------------------------------------------
(* The erased mark of a page does not read back: ftl_page_erase fails.      *)

MarkFails == MarksFail /\ pc = "mark" /\ target.next \in {"write", "gc"}

\* ftl_write could not format the next page: it returns
\* FTL_WRITE_ERROR_ERASE_FAIL without giving ftl_sem back.
OpenFails(t) ==
    /\ MarkFails /\ target.next = "write" /\ walk.loop = "none"
    /\ task[t].op = "save" /\ task[t].at = "busy"
    /\ pc' = "idle" /\ target' = NoTarget /\ item' = NoItem /\ call' = NoItem
    /\ leaked' = TRUE
    /\ task' = [task EXCEPT ![t] = Fail(@)]
    /\ UNCHANGED <<flash, ram, walk, damage, mutex, sem>>

\* The same in the collector's ftl_write, whose result it ignores.
CopyFails ==
    /\ MarkFails /\ target.next = "write" /\ walk.loop = "gc"
    /\ pc' = "gc" /\ target' = NoTarget /\ item' = NoItem
    /\ leaked' = TRUE
    /\ UNCHANGED <<flash, ram, walk, call, damage, mutex, sem, task>>

\* Mutant: the free pages are not counted.
Mut_EraseFails ==
    /\ MarkFails /\ target.next = "gc"
    /\ walk' = NoWalk /\ target' = NoTarget
    /\ item' = call
    /\ leaked' = leaked
    /\ IF call = NoItem
       THEN /\ pc' = "idle"
            /\ GiveSem
            /\ task' = [t \in Tasks |-> IF task[t].at = "busy" THEN Ready ELSE task[t]]
       ELSE pc' = "write" /\ UNCHANGED <<sem, task>>
    /\ UNCHANGED <<flash, ram, call, damage, mutex>>

\* The collected page itself: the collection ends, whatever it dropped.
EraseFails ==
    /\ MarkFails /\ target.next = "gc"
    /\ freeCount' = ftl_get_free_page_count
    /\ walk' = NoWalk /\ target' = NoTarget
    /\ item' = call
    /\ leaked' = leaked
    /\ IF call = NoItem
       THEN /\ pc' = "idle"
            /\ GiveSem
            /\ task' = [t \in Tasks |-> IF task[t].at = "busy" THEN Ready ELSE task[t]]
       ELSE pc' = "write" /\ UNCHANGED <<sem, task>>
    /\ UNCHANGED <<flash, cur, free, map, call, damage, mutex>>

-----------------------------------------------------------------------------
(* ftl_read, which takes no ftl_sem.                                        *)

ReadEntry(t) ==
    /\ task[t].op = "load" /\ task[t].at = "word"
    /\ LET e == map[task[t].word]
       IN  task' = [task EXCEPT ![t] = IF e = 0 THEN Fail(@)
                                       ELSE [@ EXCEPT !.pair = e, !.at = "key"]]
    /\ UNCHANGED <<vars, mutex, sem, leaked>>

ReadKey(t) ==
    /\ task[t].at = "key"
    /\ LET e == task[t].pair
           w == flash[EntryPage(e)].word[EntryCell(e) + 1]
       IN  task' = [task EXCEPT ![t] = IF w = Key(task[t].word)
                                       THEN [@ EXCEPT !.at = "data"] ELSE Fail(@)]
    /\ UNCHANGED <<vars, mutex, sem, leaked>>

ReadData(t) ==
    /\ task[t].at = "data"
    /\ LET e == task[t].pair
           w == flash[EntryPage(e)].word[EntryCell(e)]
       IN  task' = [task EXCEPT ![t] = NextWord([@ EXCEPT !.pair = 0,
                                                          !.got[task[t].word] = w])]
    /\ UNCHANGED <<vars, mutex, sem, leaked>>

-----------------------------------------------------------------------------
Calls == \/ \E t \in Savers, v \in Values : CallSave(t, v)
         \/ \E t \in Loaders : CallLoad(t)
         \/ \E t \in Collectors : CallCollect(t)

Go(t) == \/ GetMutex(t) \/ PutMutex(t) \/ WriteWord(t)
         \/ ReadEntry(t) \/ ReadKey(t) \/ ReadData(t)
         \/ \E g \in GcCalls : StartCollect(t, g) \/ SkipCollect(t, g)

Failures == (\E t \in Tasks : OpenFails(t)) \/ CopyFails \/ EraseFails

ClientNext == \/ Calls \/ Run \/ Failures
              \/ \E t \in Tasks : Go(t) \/ MutexTimeout(t)

ClientSpec == ClientInit /\ [][ClientNext]_allVars

\* Ready tasks run on; a mutex goes to one of its waiters, not to all in turn.
ClientFairSpec == ClientSpec /\ WF_allVars(Run \/ Failures)
                             /\ \A t \in Tasks : WF_allVars(Go(t) \/ MutexTimeout(t))

-----------------------------------------------------------------------------
(* Properties.                                                              *)

Places == {"ready", "lock", "word", "busy", "key", "data", "unlock"}

\* Type invariant.
ClientTypeOK ==
    /\ TypeOK
    /\ mutex \in Tasks \cup {NoTask} /\ sem \in Tasks \cup {NoTask}
    /\ leaked \in BOOLEAN
    /\ task \in [Tasks -> [op : {"none", "save", "load", "gc"}, at : Places,
                          word : 0 .. Words, val : Values \cup {Blank}, pair : Entry,
                          got : [Index -> Word], ok : BOOLEAN]]

Block == [i \in Index |-> Contents[i]]

\* "return 0 success" of ftl_load_from_storage: a load that reports success has
\* read, word by word, what the flash holds.
LoadReturnsBlock ==
    \A t \in Tasks : task[t].op = "load" /\ task[t].at = "unlock" /\ task[t].ok
                       => task[t].got = Block

\* All words a load returns are those of one save, although they are read one
\* by one and saves are written one by one.
LoadIsOneSave ==
    \A t \in Tasks : task[t].op = "load" /\ task[t].at = "unlock" /\ task[t].ok
                       => \E v \in Values : \A i \in Index : task[t].got[i] = v

\* "return 0 success" of ftl_save_to_storage: when it reports success the whole
\* block is on flash.
SaveIsOnFlash ==
    \A t \in Tasks : task[t].op = "save" /\ task[t].at = "unlock" /\ task[t].ok
                       => \A i \in Index : Block[i] = task[t].val

\* Whatever fails, only one task at a time is inside a block, and whoever is
\* inside ftl_write or the collector holds ftl_sem.
InBlock(t) == task[t].op \in {"save", "load"} /\ task[t].at # "lock"
ExclusiveCalls ==
    \A t \in Tasks : /\ InBlock(t) => mutex = t
                     /\ task[t].at = "busy" => sem = t

\* "get mutex fail. please try again": a caller that timed out may try again
\* because whoever holds ftl_mutex_lock gives it back.
TryAgain == []<>(mutex = NoTask)

\* A load always returns, with the words or a time-out, even when ftl_sem was
\* lost on a failure.
LoadsReturn == \A t \in Tasks : task[t].op = "load" ~> task[t].op # "load"
=============================================================================
