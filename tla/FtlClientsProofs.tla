-------------------------- MODULE FtlClientsProofs --------------------------
(* Proofs about FtlClients: calls exclude each other, also when marks fail; *)
(* without such failures the tasks drive the log as Ftl says, so that what  *)
(* is proved of Ftl holds below them, a save that reports success is on     *)
(* flash, and a load without collector beside it returns one whole save.    *)
EXTENDS FtlClients, FtlRingProofs

Fields == {"op", "at", "word", "val", "pair", "got", "ok"}

\* A call record has its seven fields; its word is one of the block.
CallOK(r) ==
    /\ r = [f \in Fields |-> r[f]]
    /\ r.op \in {"none", "save", "load", "gc"}
    /\ r.op = "none" => r.at = "ready"
    /\ r.op = "gc" => r.at \in {"word", "busy"}
    /\ r.op = "save" => r.val \in Values
    /\ r.op # "gc" /\ r.at \in {"lock", "word", "busy", "key", "data"} => r.word \in Index

CallsOK == /\ task = [t \in Tasks |-> task[t]]
           /\ \A t \in Tasks : CallOK(task[t])

CallInv == CallsOK /\ ExclusiveCalls

-----------------------------------------------------------------------------
(* The records the actions make.                                            *)

LEMMA ReadyOK == CallOK(Ready) /\ Ready.op = "none" /\ Ready.at = "ready"
  BY DEF CallOK, Ready, Fields

LEMMA NewCallOK ==
    /\ \A v \in Values : CallOK([Ready EXCEPT !.op = "save", !.at = "lock", !.val = v])
    /\ CallOK([Ready EXCEPT !.op = "load", !.at = "lock"])
    /\ CallOK([Ready EXCEPT !.op = "gc", !.at = "word"])
  <1>1. 0 \in Index
    BY TaskAssumption DEF Index
  <1>2. Ready = [f \in Fields |-> Ready[f]] /\ Ready.word = 0
    BY DEF Ready, Fields
  <1>3. ASSUME NEW v \in Values
        PROVE  CallOK([Ready EXCEPT !.op = "save", !.at = "lock", !.val = v])
    BY <1>1, <1>2 DEF CallOK, Fields
  <1>4. CallOK([Ready EXCEPT !.op = "load", !.at = "lock"])
    BY <1>1, <1>2 DEF CallOK, Fields
  <1>5. CallOK([Ready EXCEPT !.op = "gc", !.at = "word"])
    BY <1>1, <1>2 DEF CallOK, Fields
  <1> QED
    BY <1>3, <1>4, <1>5

LEMMA NextWordOK ==
    ASSUME NEW r, CallOK(r), r.op \in {"save", "load"}, r.word \in Index
    PROVE  /\ CallOK(NextWord(r)) /\ NextWord(r).op = r.op
           /\ NextWord(r).at \in {"word", "unlock"}
  <1>1. /\ NextWord(r).op = r.op /\ NextWord(r).val = r.val
        /\ NextWord(r).at = IF r.word + 1 < Words THEN "word" ELSE "unlock"
        /\ NextWord(r).word = r.word + 1
        /\ NextWord(r) = [f \in Fields |-> NextWord(r)[f]]
    BY DEF NextWord, CallOK, Fields
  <1>2. r.word + 1 < Words => r.word + 1 \in Index
    BY TaskAssumption DEF Index
  <1> QED
    BY <1>1, <1>2 DEF CallOK

LEMMA GotoOK ==
    ASSUME NEW r, CallOK(r), NEW at \in {"word", "busy", "key", "data"},
           r.op \in {"save", "load"} \/ (r.op = "gc" /\ at = "busy"),
           r.at \in {"lock", "word", "key"}
    PROVE  CallOK([r EXCEPT !.at = at]) /\ [r EXCEPT !.at = at].op = r.op
           /\ [r EXCEPT !.at = at].at = at
  BY DEF CallOK, Fields

LEMMA FailOK ==
    ASSUME NEW r, CallOK(r), r.op \in {"save", "load"}
    PROVE  CallOK(Fail(r)) /\ Fail(r).op = r.op /\ Fail(r).at = "unlock"
  BY DEF Fail, CallOK, Fields

LEMMA AfterCallOK ==
    ASSUME NEW r, CallOK(r), r.at = "busy"
    PROVE  CallOK(AfterCall(r)) /\ AfterCall(r).op \in {r.op, "none"}
           /\ AfterCall(r).at \in {"ready", "word", "unlock"}
  <1>1. CASE r.op = "gc"
    BY <1>1, ReadyOK DEF AfterCall
  <1>2. CASE r.op # "gc"
    <2>1. r.op \in {"save", "load"} /\ r.word \in Index
      BY <1>2 DEF CallOK
    <2> QED
      BY <1>2, <2>1, NextWordOK DEF AfterCall
  <1> QED
    BY <1>1, <1>2

LEMMA ReadDataOK ==
    ASSUME NEW r, CallOK(r), r.op \in {"save", "load"}, r.at = "data", NEW got
    PROVE  /\ CallOK(NextWord([r EXCEPT !.pair = 0, !.got = got]))
           /\ NextWord([r EXCEPT !.pair = 0, !.got = got]).op = r.op
           /\ NextWord([r EXCEPT !.pair = 0, !.got = got]).at \in {"word", "unlock"}
  <1>1. r.word \in Index
    BY DEF CallOK
  <1>2. /\ CallOK([r EXCEPT !.pair = 0, !.got = got])
        /\ [r EXCEPT !.pair = 0, !.got = got].op = r.op
        /\ [r EXCEPT !.pair = 0, !.got = got].word = r.word
    BY DEF CallOK, Fields
  <1> QED
    BY <1>1, <1>2, NextWordOK

LEMMA ReadEntryOK ==
    ASSUME NEW r, CallOK(r), r.op \in {"save", "load"}, r.at = "word", NEW e
    PROVE  /\ CallOK([r EXCEPT !.pair = e, !.at = "key"])
           /\ [r EXCEPT !.pair = e, !.at = "key"].op = r.op
           /\ [r EXCEPT !.pair = e, !.at = "key"].at = "key"
  BY DEF CallOK, Fields

-----------------------------------------------------------------------------
(* A task that moves within a block or returns keeps the others out.        *)

\* Task t goes from record task[t] to r; mutex and sem may change with it.
Moves(t, r) == task' = [task EXCEPT ![t] = r]

LEMMA MoveOK ==
    ASSUME CallInv, NEW t \in Tasks, NEW r, Moves(t, r), CallOK(r),
           r.op \in {"save", "load"} /\ r.at # "lock" => mutex' = t,
           r.at = "busy" => sem' = t,
           \A u \in Tasks \ {t} : InBlock(u) => mutex' = u,
           \A u \in Tasks \ {t} : task[u].at = "busy" => sem' = u
    PROVE  CallInv'
  <1>1. /\ task'[t] = r
        /\ \A u \in Tasks \ {t} : task'[u] = task[u]
        /\ task' = [u \in Tasks |-> task'[u]]
    BY DEF CallInv, CallsOK, Moves
  <1>2. CallsOK'
    BY <1>1 DEF CallInv, CallsOK, CallOK
  <1>3. ExclusiveCalls'
    BY <1>1 DEF ExclusiveCalls, InBlock
  <1> QED
    BY <1>2, <1>3 DEF CallInv

LEMMA CallStep == CallInv /\ [ClientNext]_allVars => CallInv'
  <1> SUFFICES ASSUME CallInv, [ClientNext]_allVars PROVE CallInv'
    OBVIOUS
  <1>0. /\ \A t \in Tasks : CallOK(task[t])
        /\ \A t \in Tasks : InBlock(t) => mutex = t
        /\ \A t \in Tasks : task[t].at = "busy" => sem = t
        /\ NoTask \notin Tasks
    BY TaskAssumption DEF CallInv, CallsOK, ExclusiveCalls
  <1>CallSave. ASSUME NEW t \in Savers, NEW v \in Values, CallSave(t, v) PROVE CallInv'
    <2> DEFINE r == [Ready EXCEPT !.op = "save", !.at = "lock", !.val = v]
    <2>1. CallOK(r) /\ r.at = "lock" /\ t \in Tasks
      BY NewCallOK, TaskAssumption DEF Ready
    <2>2. Moves(t, r) /\ mutex' = mutex /\ sem' = sem
      BY <1>CallSave DEF CallSave, Moves
    <2> HIDE DEF r
    <2> QED
      BY <1>0, <2>1, <2>2, MoveOK
  <1>CallLoad. ASSUME NEW t \in Loaders, CallLoad(t) PROVE CallInv'
    <2> DEFINE r == [Ready EXCEPT !.op = "load", !.at = "lock"]
    <2>1. CallOK(r) /\ r.at = "lock" /\ t \in Tasks
      BY NewCallOK, TaskAssumption DEF Ready
    <2>2. Moves(t, r) /\ mutex' = mutex /\ sem' = sem
      BY <1>CallLoad DEF CallLoad, Moves
    <2> HIDE DEF r
    <2> QED
      BY <1>0, <2>1, <2>2, MoveOK
  <1>CallCollect. ASSUME NEW t \in Collectors, CallCollect(t) PROVE CallInv'
    <2> DEFINE r == [Ready EXCEPT !.op = "gc", !.at = "word"]
    <2>1. CallOK(r) /\ r.at = "word" /\ r.op = "gc" /\ t \in Tasks
      BY NewCallOK, TaskAssumption DEF Ready
    <2>2. Moves(t, r) /\ mutex' = mutex /\ sem' = sem
      BY <1>CallCollect DEF CallCollect, Moves
    <2> HIDE DEF r
    <2> QED
      BY <1>0, <2>1, <2>2, MoveOK
  <1>GetMutex. ASSUME NEW t \in Tasks, GetMutex(t) PROVE CallInv'
    <2> DEFINE r == [task[t] EXCEPT !.at = "word"]
    <2>1. task[t].op \in {"save", "load"} /\ task[t].at = "lock" /\ mutex = NoTask
      BY <1>0, <1>GetMutex DEF GetMutex, CallOK
    <2>2. CallOK(r) /\ r.at = "word"
      BY <1>0, <2>1, GotoOK
    <2>3. Moves(t, r) /\ mutex' = t /\ sem' = sem
      BY <1>GetMutex DEF GetMutex, Goto, Moves
    <2>4. \A u \in Tasks : ~InBlock(u)
      BY <1>0, <2>1
    <2> HIDE DEF r
    <2> QED
      BY <1>0, <2>2, <2>3, <2>4, MoveOK
  <1>MutexTimeout. ASSUME NEW t \in Tasks, MutexTimeout(t) PROVE CallInv'
    <2>1. Moves(t, Ready) /\ mutex' = mutex /\ sem' = sem
      BY <1>MutexTimeout DEF MutexTimeout, Moves
    <2> QED
      BY <1>0, <2>1, ReadyOK, MoveOK
  <1>PutMutex. ASSUME NEW t \in Tasks, PutMutex(t) PROVE CallInv'
    <2>1. Moves(t, Ready) /\ mutex' = NoTask /\ sem' = sem
      BY <1>PutMutex DEF PutMutex, Moves
    <2>2. InBlock(t)
      BY <1>0, <1>PutMutex DEF PutMutex, InBlock, CallOK
    <2>3. \A u \in Tasks \ {t} : ~InBlock(u)
      BY <1>0, <2>2
    <2> QED
      BY <1>0, <2>1, <2>3, ReadyOK, MoveOK
  <1>WriteWord. ASSUME NEW t \in Tasks, WriteWord(t) PROVE CallInv'
    <2> DEFINE r == [task[t] EXCEPT !.at = "busy"]
    <2>1. /\ task[t].op = "save" /\ task[t].at = "word" /\ sem \in {NoTask, t}
          /\ InBlock(t)
      BY <1>WriteWord DEF WriteWord, CanTakeSem, InBlock
    <2>2. CallOK(r) /\ r.at = "busy"
      BY <1>0, <2>1, GotoOK
    <2>3. Moves(t, r) /\ mutex' = mutex /\ sem' = t
      BY <1>WriteWord DEF WriteWord, Goto, Moves
    <2>4. \A u \in Tasks \ {t} : task[u].at # "busy"
      BY <1>0, <2>1
    <2> HIDE DEF r
    <2> QED
      BY <1>0, <2>1, <2>2, <2>3, <2>4, MoveOK
  <1>StartCollect. ASSUME NEW t \in Tasks, NEW g \in GcCalls, StartCollect(t, g)
                   PROVE  CallInv'
    <2> DEFINE r == [task[t] EXCEPT !.at = "busy"]
    <2>1. task[t].op = "gc" /\ task[t].at = "word" /\ sem \in {NoTask, t}
      BY <1>StartCollect DEF StartCollect, CanTakeSem
    <2>2. CallOK(r) /\ r.op = "gc"
      BY <1>0, <2>1, GotoOK
    <2>3. Moves(t, r) /\ mutex' = mutex /\ sem' = t
      BY <1>StartCollect DEF StartCollect, Goto, Moves
    <2>4. \A u \in Tasks \ {t} : task[u].at # "busy"
      BY <1>0, <2>1
    <2> HIDE DEF r
    <2> QED
      BY <1>0, <2>2, <2>3, <2>4, MoveOK
  <1>SkipCollect. ASSUME NEW t \in Tasks, NEW g \in GcCalls, SkipCollect(t, g)
                  PROVE  CallInv'
    <2>1. Moves(t, Ready) /\ mutex' = mutex /\ sem' = sem
      BY <1>SkipCollect DEF SkipCollect, Moves
    <2> QED
      BY <1>0, <2>1, ReadyOK, MoveOK
  <1>ReadEntry. ASSUME NEW t \in Tasks, ReadEntry(t) PROVE CallInv'
    <2> DEFINE e == map[task[t].word]
               r == IF e = 0 THEN Fail(task[t])
                    ELSE [task[t] EXCEPT !.pair = e, !.at = "key"]
    <2>1. task[t].op = "load" /\ task[t].at = "word" /\ mutex = t
      BY <1>0, <1>ReadEntry DEF ReadEntry, InBlock
    <2>2. CallOK(r) /\ r.at # "busy"
      BY <1>0, <2>1, FailOK, ReadEntryOK
    <2>3. Moves(t, r) /\ mutex' = mutex /\ sem' = sem
      BY <1>ReadEntry DEF ReadEntry, Moves
    <2> HIDE DEF r
    <2> QED
      BY <1>0, <2>1, <2>2, <2>3, MoveOK
  <1>ReadKey. ASSUME NEW t \in Tasks, ReadKey(t) PROVE CallInv'
    <2> DEFINE w == flash[EntryPage(task[t].pair)].word[EntryCell(task[t].pair) + 1]
               r == IF w = Key(task[t].word) THEN [task[t] EXCEPT !.at = "data"]
                    ELSE Fail(task[t])
    <2>1. task[t].op \in {"save", "load"} /\ task[t].at = "key" /\ mutex = t
      BY <1>0, <1>ReadKey DEF ReadKey, InBlock, CallOK
    <2>2. CallOK(r) /\ r.at # "busy"
      BY <1>0, <2>1, FailOK, GotoOK
    <2>3. Moves(t, r) /\ mutex' = mutex /\ sem' = sem
      BY <1>ReadKey DEF ReadKey, Moves
    <2> HIDE DEF r
    <2> QED
      BY <1>0, <2>1, <2>2, <2>3, MoveOK
  <1>ReadData. ASSUME NEW t \in Tasks, ReadData(t) PROVE CallInv'
    <2> DEFINE w == flash[EntryPage(task[t].pair)].word[EntryCell(task[t].pair)]
               got == [task[t].got EXCEPT ![task[t].word] = w]
               r == NextWord([task[t] EXCEPT !.pair = 0, !.got = got])
    <2>1. task[t].op \in {"save", "load"} /\ task[t].at = "data" /\ mutex = t
      BY <1>0, <1>ReadData DEF ReadData, InBlock, CallOK
    <2>2. CallOK(r) /\ r.at # "busy"
      BY <1>0, <2>1, ReadDataOK
    <2>3. Moves(t, r) /\ mutex' = mutex /\ sem' = sem
      BY <1>ReadData DEF ReadData, Moves
    <2> HIDE DEF r
    <2> QED
      BY <1>0, <2>1, <2>2, <2>3, MoveOK
  <1>Run. CASE Run
    <2>1. CASE pc' = "idle"
      <3>1. /\ task' = [t \in Tasks |-> IF task[t].at = "busy" THEN AfterCall(task[t])
                                                              ELSE task[t]]
            /\ mutex' = mutex
        BY <1>Run, <2>1 DEF Run
      <3>2. \A t \in Tasks : CallOK(task'[t]) /\ task'[t].at # "busy"
        BY <1>0, <3>1, AfterCallOK
      <3>3. \A t \in Tasks : InBlock(t)' => InBlock(t)
        BY <1>0, <3>1, AfterCallOK DEF InBlock
      <3> QED
        BY <1>0, <3>1, <3>2, <3>3 DEF CallInv, CallsOK, ExclusiveCalls
    <2>2. CASE pc' # "idle"
      BY <1>Run, <2>2 DEF Run, CallInv, CallsOK, ExclusiveCalls, InBlock, CallOK
    <2> QED
      BY <2>1, <2>2
  <1>OpenFails. ASSUME NEW t \in Tasks, OpenFails(t) PROVE CallInv'
    <2>1. task[t].op = "save" /\ task[t].at = "busy" /\ mutex = t
      BY <1>0, <1>OpenFails DEF OpenFails, InBlock
    <2>2. Moves(t, Fail(task[t])) /\ mutex' = mutex /\ sem' = sem
      BY <1>OpenFails DEF OpenFails, Moves
    <2> QED
      BY <1>0, <2>1, <2>2, FailOK, MoveOK
  <1>CopyFails. CASE CopyFails
    BY <1>CopyFails DEF CopyFails, CallInv, CallsOK, ExclusiveCalls, InBlock, CallOK
  <1>EraseFails. CASE EraseFails
    <2>1. CASE call = NoItem
      <3>1. /\ task' = [t \in Tasks |-> IF task[t].at = "busy" THEN Ready ELSE task[t]]
            /\ mutex' = mutex
        BY <1>EraseFails, <2>1 DEF EraseFails
      <3>2. \A t \in Tasks : CallOK(task'[t]) /\ task'[t].at # "busy"
        BY <1>0, <3>1, ReadyOK
      <3>3. \A t \in Tasks : InBlock(t)' => InBlock(t)
        BY <3>1, ReadyOK DEF InBlock
      <3> QED
        BY <1>0, <3>1, <3>2, <3>3 DEF CallInv, CallsOK, ExclusiveCalls
    <2>2. CASE call # NoItem
      BY <1>EraseFails, <2>2 DEF EraseFails, CallInv, CallsOK, ExclusiveCalls, InBlock, CallOK
    <2> QED
      BY <2>1, <2>2
  <1>Stutter. CASE UNCHANGED allVars
    BY <1>Stutter DEF allVars, clientVars, CallInv, CallsOK, ExclusiveCalls, InBlock, CallOK
  <1> QED
    BY <1>CallSave, <1>CallLoad, <1>CallCollect, <1>GetMutex, <1>MutexTimeout, <1>PutMutex,
       <1>WriteWord, <1>StartCollect, <1>SkipCollect, <1>ReadEntry, <1>ReadKey, <1>ReadData,
       <1>Run, <1>OpenFails, <1>CopyFails, <1>EraseFails, <1>Stutter
       DEF ClientNext, Calls, Go, Failures

LEMMA CallInit == ClientInit => CallInv
  BY ReadyOK DEF ClientInit, CallInv, CallsOK, ExclusiveCalls, InBlock

LEMMA CallInvariant == ClientSpec => []CallInv
  BY CallInit, CallStep, PTL DEF ClientSpec

\* For any number of tasks, and whatever fails: one task at a time is inside a
\* block, and whoever is inside ftl_write or the collector holds ftl_sem.
THEOREM CallsAreExclusive == ClientSpec => []ExclusiveCalls
  <1>1. CallInv => ExclusiveCalls
    BY DEF CallInv
  <1> QED
    BY CallInvariant, <1>1, PTL

-----------------------------------------------------------------------------
(* Without failing marks the tasks drive the log as Ftl describes it.       *)

\* What the tasks do to the log: they neither clear nor erase invalid pages,
\* and power stays on.
Driven == \/ Step
          \/ \E s \in Saves : Save(s[1], s[2])
          \/ \E g \in GcCalls : Collect(g)

\* Every step of a task is a step of Ftl or leaves the log alone.
LEMMA DrivenStep ==
    ASSUME CallInv, ~MarksFail, [ClientNext]_allVars
    PROVE  [Driven]_vars
  <1>1. CASE Run
    BY <1>1 DEF Run, Driven
  <1>2. ASSUME NEW t \in Tasks, WriteWord(t) PROVE Driven
    <2>1. CallOK(task[t])
      BY DEF CallInv, CallsOK
    <2>2. <<task[t].word, task[t].val>> \in Saves
      BY <1>2, <2>1, TaskAssumption DEF WriteWord, CallOK, Index
    <2>3. Save(<<task[t].word, task[t].val>>[1], <<task[t].word, task[t].val>>[2])
      BY <1>2 DEF WriteWord
    <2> QED
      BY <2>2, <2>3 DEF Driven
  <1>3. ASSUME NEW t \in Tasks, NEW g \in GcCalls, StartCollect(t, g) PROVE Driven
    BY <1>3 DEF StartCollect, Driven
  <1>4. ~Failures
    BY DEF Failures, OpenFails, CopyFails, EraseFails, MarkFails
  <1>5. CASE Calls
    BY <1>5 DEF Calls, CallSave, CallLoad, CallCollect
  <1>6. ASSUME NEW t \in Tasks, Go(t) \/ MutexTimeout(t) PROVE [Driven]_vars
    BY <1>2, <1>3, <1>6
       DEF Go, GetMutex, PutMutex, MutexTimeout, ReadEntry, ReadKey, ReadData, SkipCollect
  <1>7. CASE UNCHANGED allVars
    BY <1>7 DEF allVars
  <1> QED
    BY <1>1, <1>4, <1>5, <1>6, <1>7 DEF ClientNext

LEMMA LogStep ==
    ASSUME CallInv, ~MarksFail, [ClientNext]_allVars
    PROVE  [Next]_vars
  BY DrivenStep DEF Driven, Next, Request

\* The log below the tasks is the one of Ftl: what holds of every behaviour of
\* Ftl holds whatever the tasks call and however their calls interleave.
THEOREM ClientsRunFtl == ~MarksFail /\ ClientSpec => Spec
  <1>1. ClientInit => Init
    BY DEF ClientInit
  <1>2. CallInv /\ ~MarksFail /\ [ClientNext]_allVars => [Next]_vars
    BY LogStep
  <1>3. CASE MarksFail
    BY <1>3
  <1>4. CASE ~MarksFail
    <2>1. CallInv /\ [ClientNext]_allVars => [Next]_vars
      BY <1>2, <1>4
    <2> QED
      BY <1>1, <2>1, CallInvariant, PTL DEF ClientSpec, Spec
  <1> QED
    BY <1>3, <1>4

\* However calls interleave, their words are only written over blank ones, as
\* long as no collection selects the page that is being written.
THEOREM ClientsAppendToBlank ==
    ~MarksFail /\ ClientSpec /\ []OldestIsNotCurrent => []AppendsToBlank
  BY ClientsRunFtl, AppendsOnlyToBlank

-----------------------------------------------------------------------------
(* What the log does below the tasks: it boots once, and then changes what  *)
(* is saved only with the key word of a save.                               *)

\* Nothing is cleared, and the table is built in one go.
QuietInv ==
    /\ Intact
    /\ pc \notin {"clear", "invalid"} /\ target.next \notin {"clear", "invalid"}
    /\ walk.loop # "invalid"
    /\ walk.loop = "map" => pc = "map"

\* Every step of the tasks keeps it so.
LEMMA QuietStep == TypeInv /\ KeepInv /\ QuietInv /\ [Driven]_vars => QuietInv'
  <1> SUFFICES ASSUME TypeInv, KeepInv, QuietInv, [Driven]_vars PROVE QuietInv'
    OBVIOUS
  <1> USE DEF TypeInv
  <1>Stutter. CASE UNCHANGED vars
    BY <1>Stutter DEF vars, work, QuietInv, Intact
  <1>PowerOn. CASE PowerOn
    BY <1>PowerOn
       DEF PowerOn, QuietInv, Intact, work, ram, NoWalk, NoTarget, FormatAs, Return,
          AfterErase, Walk, TypeOK, Control, Target
  <1>ScanPage. CASE ScanPage
    BY <1>ScanPage
       DEF ScanPage, QuietInv, Intact, work, ram, NoWalk, NoTarget, FormatAs,
          Return, AfterErase, Walk, TypeOK, Control, Target
  <1>ScanNone. CASE ScanNone
    BY <1>ScanNone
       DEF ScanNone, QuietInv, Intact, work, ram, NoWalk, NoTarget, FormatAs,
          Return, AfterErase, Walk, TypeOK, Control, Target
  <1>FindCell. CASE FindCell
    BY <1>FindCell
       DEF FindCell, QuietInv, Intact, work, ram, NoWalk, NoTarget, FormatAs,
          Return, AfterErase, Walk, TypeOK, Control, Target
  <1>MapKey. CASE MapKey
    BY <1>MapKey
       DEF MapKey, QuietInv, Intact, work, ram, NoWalk, NoTarget, FormatAs, Return,
          AfterErase, Walk, TypeOK, Control, Target
  <1>MapPrev. CASE MapPrev
    <2>1. /\ damage' = damage /\ target' = target /\ pc' \in {"map", "recover"}
          /\ pc = "map" /\ walk.loop = "map" /\ walk \in Walk
      BY <1>MapPrev DEF MapPrev, TypeOK, Control
    <2>2. \/ walk' = NoWalk /\ pc' = "recover"
          \/ pc' = "map" /\ walk'.loop = "map"
      <3>2. \/ walk' = NoWalk /\ pc' = "recover"
            \/ /\ pc' = "map"
               /\ walk' = [walk EXCEPT !.page = PrevPage(walk.page), !.key = LastKey(PrevPage(walk.page))]
        BY <1>MapPrev, <2>1 DEF MapPrev
      <3> DEFINE p == PrevPage(walk.page)
                 k == LastKey(PrevPage(walk.page))
                 w == [walk EXCEPT !.page = p, !.key = k]
      <3>3. \/ walk' = NoWalk /\ pc' = "recover"
            \/ pc' = "map" /\ walk' = w
        BY <3>2
      <3>4. w.loop = "map"
        <4> HIDE DEF p, k
        <4> QED
          BY <2>1 DEF Walk
      <3> HIDE DEF w
      <3> QED
        BY <3>3, <3>4
    <2> QED
      BY <2>1, <2>2 DEF QuietInv, Intact, NoWalk
  <1>RecoverNone. CASE RecoverNone
    BY <1>RecoverNone
       DEF RecoverNone, QuietInv, Intact, work, ram, NoWalk, NoTarget, FormatAs,
          Return, AfterErase, Walk, TypeOK, Control, Target
  <1>Recover. CASE Recover
    BY <1>Recover
       DEF Recover, QuietInv, Intact, work, ram, NoWalk, NoTarget, FormatAs, Return,
          AfterErase, Walk, TypeOK, Control, Target
  <1>RecoverKey. CASE RecoverKey
    BY <1>RecoverKey
       DEF RecoverKey, QuietInv, Intact, work, ram, NoWalk, NoTarget, FormatAs,
          Return, AfterErase, Walk, TypeOK, Control, Target
  <1>RecoverDone. CASE RecoverDone
    BY <1>RecoverDone
       DEF RecoverDone, QuietInv, Intact, work, ram, NoWalk, NoTarget, FormatAs,
          Return, AfterErase, Walk, TypeOK, Control, Target, KeepInv, RingInv,
          RoomInv, LogInv, ErasedInv, ScanInv, CopyInv
  <1>Recount. CASE Recount
    BY <1>Recount
       DEF Recount, QuietInv, Intact, work, ram, NoWalk, NoTarget, FormatAs, Return,
          AfterErase, Walk, TypeOK, Control, Target
  <1>Save. CASE \E s \in Saves : Save(s[1], s[2])
    BY <1>Save
       DEF Save, QuietInv, Intact, work, ram, NoWalk, NoTarget, FormatAs, Return,
          AfterErase, Walk, TypeOK, Control, Target
  <1>WriteData. CASE WriteData
    BY <1>WriteData
       DEF WriteData, QuietInv, Intact, work, ram, NoWalk, NoTarget, FormatAs,
          Return, AfterErase, Walk, TypeOK, Control, Target, KeepInv, RingInv,
          RoomInv, LogInv, ErasedInv, ScanInv, CopyInv
  <1>WriteKey. CASE WriteKey
    <2>1. damage' = damage /\ target' = target /\ walk' = walk /\ pc' = Return /\ Appending
      BY <1>WriteKey DEF WriteKey, Appending
    <2>2. walk.loop \in {"none", "gc", "rec"}
      BY <1>WriteKey, <2>1 DEF WriteKey, KeepInv, RingInv, RoomInv
    <2> QED
      BY <1>WriteKey, <2>1, <2>2, <1>WriteKey DEF WriteKey, QuietInv, Intact, Return
  <1>SetEndPosition. CASE SetEndPosition
    BY <1>SetEndPosition
       DEF SetEndPosition, QuietInv, Intact, work, ram, NoWalk, NoTarget, FormatAs,
          Return, AfterErase, Walk, TypeOK, Control, Target, KeepInv, RingInv,
          RoomInv, LogInv, ErasedInv, ScanInv, CopyInv
  <1>OpenNextPage. CASE OpenNextPage
    BY <1>OpenNextPage
       DEF OpenNextPage, QuietInv, Intact, work, ram, NoWalk, NoTarget, FormatAs,
          Return, AfterErase, Walk, TypeOK, Control, Target, KeepInv, RingInv,
          RoomInv, LogInv, ErasedInv, ScanInv, CopyInv
  <1>PageErase. CASE PageErase
    BY <1>PageErase
       DEF PageErase, QuietInv, Intact, work, ram, NoWalk, NoTarget, FormatAs,
          Return, AfterErase, Walk, TypeOK, Control, Target, KeepInv, RingInv,
          RoomInv, LogInv, ErasedInv, ScanInv, CopyInv
  <1>PageMark. CASE PageMark
    BY <1>PageMark
       DEF PageMark, QuietInv, Intact, work, ram, NoWalk, NoTarget, FormatAs,
          Return, AfterErase, Walk, TypeOK, Control, Target, KeepInv, RingInv,
          RoomInv, LogInv, ErasedInv, ScanInv, CopyInv
  <1>FormatNext. CASE FormatNext
    BY <1>FormatNext
       DEF FormatNext, QuietInv, Intact, work, ram, NoWalk, NoTarget, FormatAs,
          Return, AfterErase, Walk, TypeOK, Control, Target, KeepInv, RingInv,
          RoomInv, LogInv, ErasedInv, ScanInv, CopyInv
  <1>FormatFirst. CASE FormatFirst
    BY <1>FormatFirst
       DEF FormatFirst, QuietInv, Intact, work, ram, NoWalk, NoTarget, FormatAs,
          Return, AfterErase, Walk, TypeOK, Control, Target, KeepInv, RingInv,
          RoomInv, LogInv, ErasedInv, ScanInv, CopyInv
  <1>Collect. CASE \E g \in GcCalls : Collect(g)
    BY <1>Collect
       DEF Collect, QuietInv, Intact, work, ram, NoWalk, NoTarget, FormatAs, Return,
          AfterErase, Walk, TypeOK, Control, Target
  <1>CollectPage. CASE CollectPage
    BY <1>CollectPage
       DEF CollectPage, QuietInv, Intact, work, ram, NoWalk, NoTarget, FormatAs,
          Return, AfterErase, Walk, TypeOK, Control, Target
  <1>CollectKey. CASE CollectKey
    BY <1>CollectKey
       DEF CollectKey, QuietInv, Intact, work, ram, NoWalk, NoTarget, FormatAs,
          Return, AfterErase, Walk, TypeOK, Control, Target
  <1>CollectErase. CASE CollectErase
    BY <1>CollectErase
       DEF CollectErase, QuietInv, Intact, work, ram, NoWalk, NoTarget, FormatAs,
          Return, AfterErase, Walk, TypeOK, Control, Target
  <1>CollectRetry. CASE CollectRetry
    BY <1>CollectRetry
       DEF CollectRetry, QuietInv, Intact, work, ram, NoWalk, NoTarget, FormatAs,
          Return, AfterErase, Walk, TypeOK, Control, Target
  <1>CollectDone. CASE CollectDone
    BY <1>CollectDone
       DEF CollectDone, QuietInv, Intact, work, ram, NoWalk, NoTarget, FormatAs,
          Return, AfterErase, Walk, TypeOK, Control, Target
  <1>ClearPage. CASE ClearPage
    BY <1>ClearPage DEF ClearPage, QuietInv
  <1>ClearReset. CASE ClearReset
    BY <1>ClearReset DEF ClearReset, QuietInv
  <1>EraseInvalidPage. CASE EraseInvalidPage
    BY <1>EraseInvalidPage DEF EraseInvalidPage, QuietInv
  <1>EraseInvalidDone. CASE EraseInvalidDone
    BY <1>EraseInvalidDone DEF EraseInvalidDone, QuietInv
  <1> QED
    BY <1>Stutter, <1>PowerOn, <1>ScanPage, <1>ScanNone, <1>FindCell, <1>MapKey,
       <1>MapPrev, <1>RecoverNone, <1>Recover, <1>RecoverKey, <1>RecoverDone,
       <1>Recount, <1>Save, <1>WriteData, <1>WriteKey, <1>SetEndPosition,
       <1>OpenNextPage, <1>PageErase, <1>PageMark, <1>FormatNext, <1>FormatFirst,
       <1>Collect, <1>CollectPage, <1>CollectKey, <1>CollectErase, <1>CollectRetry,
       <1>CollectDone, <1>ClearPage, <1>ClearReset, <1>EraseInvalidPage,
       <1>EraseInvalidDone
       DEF Driven, Step, Boot, Append, Format, Gc, Clear

\* The boot ends once and for all, with nothing in progress.
LEMMA BootEnds == TypeInv /\ KeepInv /\ QuietInv /\ [Driven]_vars =>
    (~Booting => ~Booting') /\ (Booting => Booting' \/ pc' = "idle")
  <1> SUFFICES ASSUME TypeInv, KeepInv, QuietInv, [Driven]_vars
               PROVE  (~Booting => ~Booting') /\ (Booting => Booting' \/ pc' = "idle")
    OBVIOUS
  <1> USE DEF TypeInv
  <1>Stutter. CASE UNCHANGED vars
    BY <1>Stutter DEF vars, work, Booting
  <1>PowerOn. CASE PowerOn
    BY <1>PowerOn
       DEF PowerOn, Booting, work, ram, NoWalk, NoTarget, FormatAs, Return,
          AfterErase, Walk, TypeOK, Control, Target
  <1>ScanPage. CASE ScanPage
    BY <1>ScanPage
       DEF ScanPage, Booting, work, ram, NoWalk, NoTarget, FormatAs, Return,
          AfterErase, Walk, TypeOK, Control, Target
  <1>ScanNone. CASE ScanNone
    BY <1>ScanNone
       DEF ScanNone, Booting, work, ram, NoWalk, NoTarget, FormatAs, Return,
          AfterErase, Walk, TypeOK, Control, Target
  <1>FindCell. CASE FindCell
    BY <1>FindCell
       DEF FindCell, Booting, work, ram, NoWalk, NoTarget, FormatAs, Return,
          AfterErase, Walk, TypeOK, Control, Target
  <1>MapKey. CASE MapKey
    BY <1>MapKey
       DEF MapKey, Booting, work, ram, NoWalk, NoTarget, FormatAs, Return,
          AfterErase, Walk, TypeOK, Control, Target
  <1>MapPrev. CASE MapPrev
    <2>1. Booting /\ pc' \in {"map", "recover"}
      BY <1>MapPrev DEF MapPrev, Booting
    <2> QED
      BY <2>1 DEF Booting
  <1>RecoverNone. CASE RecoverNone
    BY <1>RecoverNone
       DEF RecoverNone, Booting, work, ram, NoWalk, NoTarget, FormatAs, Return,
          AfterErase, Walk, TypeOK, Control, Target
  <1>Recover. CASE Recover
    BY <1>Recover
       DEF Recover, Booting, work, ram, NoWalk, NoTarget, FormatAs, Return,
          AfterErase, Walk, TypeOK, Control, Target
  <1>RecoverKey. CASE RecoverKey
    BY <1>RecoverKey
       DEF RecoverKey, Booting, work, ram, NoWalk, NoTarget, FormatAs, Return,
          AfterErase, Walk, TypeOK, Control, Target
  <1>RecoverDone. CASE RecoverDone
    <2>1. Booting /\ pc' = "recount"
      BY <1>RecoverDone DEF RecoverDone, Booting, KeepInv, CopyInv
    <2> QED
      BY <2>1 DEF Booting
  <1>Recount. CASE Recount
    BY <1>Recount
       DEF Recount, Booting, work, ram, NoWalk, NoTarget, FormatAs, Return,
          AfterErase, Walk, TypeOK, Control, Target
  <1>Save. CASE \E s \in Saves : Save(s[1], s[2])
    BY <1>Save
       DEF Save, Booting, work, ram, NoWalk, NoTarget, FormatAs, Return, AfterErase,
          Walk, TypeOK, Control, Target
  <1>WriteData. CASE WriteData
    BY <1>WriteData
       DEF WriteData, Booting, work, ram, NoWalk, NoTarget, FormatAs, Return,
          AfterErase, Walk, TypeOK, Control, Target, KeepInv, RingInv, RoomInv,
          LogInv, ErasedInv, ScanInv, CopyInv, QuietInv
  <1>WriteKey. CASE WriteKey
    <2>1. target' = target /\ walk' = walk /\ pc' = Return /\ Appending /\ pc = "key"
      BY <1>WriteKey DEF WriteKey, Appending
    <2>2. walk.loop \in {"none", "gc", "rec"} /\ target.next # "init"
      BY <1>WriteKey, <2>1 DEF WriteKey, KeepInv, RingInv, RoomInv, Control
    <2> QED
      BY <1>WriteKey, <2>1, <2>2, <1>WriteKey DEF WriteKey, Booting, Return
  <1>SetEndPosition. CASE SetEndPosition
    BY <1>SetEndPosition
       DEF SetEndPosition, Booting, work, ram, NoWalk, NoTarget, FormatAs, Return,
          AfterErase, Walk, TypeOK, Control, Target, KeepInv, RingInv, RoomInv,
          LogInv, ErasedInv, ScanInv, CopyInv, QuietInv
  <1>OpenNextPage. CASE OpenNextPage
    BY <1>OpenNextPage
       DEF OpenNextPage, Booting, work, ram, NoWalk, NoTarget, FormatAs, Return,
          AfterErase, Walk, TypeOK, Control, Target, KeepInv, RingInv, RoomInv,
          LogInv, ErasedInv, ScanInv, CopyInv, QuietInv
  <1>PageErase. CASE PageErase
    BY <1>PageErase
       DEF PageErase, Booting, work, ram, NoWalk, NoTarget, FormatAs, Return,
          AfterErase, Walk, TypeOK, Control, Target, KeepInv, RingInv, RoomInv,
          LogInv, ErasedInv, ScanInv, CopyInv, QuietInv
  <1>PageMark. CASE PageMark
    BY <1>PageMark
       DEF PageMark, Booting, work, ram, NoWalk, NoTarget, FormatAs, Return,
          AfterErase, Walk, TypeOK, Control, Target, KeepInv, RingInv, RoomInv,
          LogInv, ErasedInv, ScanInv, CopyInv, QuietInv
  <1>FormatNext. CASE FormatNext
    BY <1>FormatNext
       DEF FormatNext, Booting, work, ram, NoWalk, NoTarget, FormatAs, Return,
          AfterErase, Walk, TypeOK, Control, Target, KeepInv, RingInv, RoomInv,
          LogInv, ErasedInv, ScanInv, CopyInv, QuietInv
  <1>FormatFirst. CASE FormatFirst
    BY <1>FormatFirst
       DEF FormatFirst, Booting, work, ram, NoWalk, NoTarget, FormatAs, Return,
          AfterErase, Walk, TypeOK, Control, Target, KeepInv, RingInv, RoomInv,
          LogInv, ErasedInv, ScanInv, CopyInv, QuietInv
  <1>Collect. CASE \E g \in GcCalls : Collect(g)
    BY <1>Collect
       DEF Collect, Booting, work, ram, NoWalk, NoTarget, FormatAs, Return,
          AfterErase, Walk, TypeOK, Control, Target
  <1>CollectPage. CASE CollectPage
    BY <1>CollectPage
       DEF CollectPage, Booting, work, ram, NoWalk, NoTarget, FormatAs, Return,
          AfterErase, Walk, TypeOK, Control, Target, KeepInv, RingInv, RoomInv,
          LogInv, ErasedInv, ScanInv, CopyInv, QuietInv
  <1>CollectKey. CASE CollectKey
    BY <1>CollectKey
       DEF CollectKey, Booting, work, ram, NoWalk, NoTarget, FormatAs, Return,
          AfterErase, Walk, TypeOK, Control, Target
  <1>CollectErase. CASE CollectErase
    BY <1>CollectErase
       DEF CollectErase, Booting, work, ram, NoWalk, NoTarget, FormatAs, Return,
          AfterErase, Walk, TypeOK, Control, Target
  <1>CollectRetry. CASE CollectRetry
    BY <1>CollectRetry
       DEF CollectRetry, Booting, work, ram, NoWalk, NoTarget, FormatAs, Return,
          AfterErase, Walk, TypeOK, Control, Target
  <1>CollectDone. CASE CollectDone
    BY <1>CollectDone
       DEF CollectDone, Booting, work, ram, NoWalk, NoTarget, FormatAs, Return,
          AfterErase, Walk, TypeOK, Control, Target
  <1>ClearPage. CASE ClearPage
    BY <1>ClearPage DEF ClearPage, QuietInv
  <1>ClearReset. CASE ClearReset
    BY <1>ClearReset DEF ClearReset, QuietInv
  <1>EraseInvalidPage. CASE EraseInvalidPage
    BY <1>EraseInvalidPage DEF EraseInvalidPage, QuietInv
  <1>EraseInvalidDone. CASE EraseInvalidDone
    BY <1>EraseInvalidDone DEF EraseInvalidDone, QuietInv
  <1> QED
    BY <1>Stutter, <1>PowerOn, <1>ScanPage, <1>ScanNone, <1>FindCell, <1>MapKey,
       <1>MapPrev, <1>RecoverNone, <1>Recover, <1>RecoverKey, <1>RecoverDone,
       <1>Recount, <1>Save, <1>WriteData, <1>WriteKey, <1>SetEndPosition,
       <1>OpenNextPage, <1>PageErase, <1>PageMark, <1>FormatNext, <1>FormatFirst,
       <1>Collect, <1>CollectPage, <1>CollectKey, <1>CollectErase, <1>CollectRetry,
       <1>CollectDone, <1>ClearPage, <1>ClearReset, <1>EraseInvalidPage,
       <1>EraseInvalidDone
       DEF Driven, Step, Boot, Append, Format, Gc, Clear

\* Nothing was ever written before the boot: it finds nothing.
AllBlank(f) == \A p \in Pages, k \in Cells : f[p].word[k] = Blank

FreshInv == Booting => map = EmptyMap /\ AllBlank(flash)

LEMMA FreshStep == 
    TypeInv /\ KeepInv /\ QuietInv /\ Booting /\ map = EmptyMap /\ AllBlank(flash) /\ [Driven]_vars
      => map' = EmptyMap /\ AllBlank(flash')
  <1> SUFFICES ASSUME TypeInv, KeepInv, QuietInv, Booting, map = EmptyMap, AllBlank(flash), [Driven]_vars
               PROVE  map' = EmptyMap /\ AllBlank(flash')
    OBVIOUS
  <1> USE DEF TypeInv
  <1>a. /\ flash \in [Pages -> Page] /\ target.page \in Pages
        /\ walk.loop \in {"map", "rec"} => walk.page \in Pages
        /\ item \in Item \cup {NoItem}
    BY Ranges DEF TypeOK, Control, Target
  <1>b. ~Appending
    <2> SUFFICES ASSUME Appending PROVE FALSE
      OBVIOUS
    <2>1. walk.loop \in {"none", "gc", "rec"} /\ item \in Item
      BY <1>a DEF Appending, KeepInv, RingInv, RoomInv, Control
    <2>2. walk.loop = "rec"
      BY <2>1 DEF Appending, Booting, Control
    <2>3. item.addr \in Addr /\ map[item.addr] # 0
      BY <2>1, <2>2 DEF Item, KeepInv, CopyInv
    <2> QED
      BY <2>3 DEF EmptyMap
  <1>Stutter. CASE UNCHANGED vars
    BY <1>Stutter DEF vars, ram
  <1>PowerOn. CASE PowerOn
    BY <1>PowerOn DEF PowerOn, ram
  <1>ScanPage. CASE ScanPage
    BY <1>ScanPage DEF ScanPage, ram
  <1>ScanNone. CASE ScanNone
    BY <1>ScanNone DEF ScanNone, ram
  <1>FindCell. CASE FindCell
    BY <1>FindCell DEF FindCell, ram
  <1>MapKey. CASE MapKey
    <2>1. flash' = flash /\ walk.page \in Pages /\ walk.key \in 3 .. PageElement - 1
          /\ (map' = map \/ KeyAt(flash[walk.page].word[walk.key]))
      BY <1>MapKey, <1>a, WalkFields DEF MapKey, TypeOK, Control
    <2>2. walk.key \in Cells
      BY <2>1, Sizes DEF Cells, INFO_size
    <2>3. ~KeyAt(flash[walk.page].word[walk.key])
      BY <2>1, <2>2, WordAssumption DEF AllBlank, KeyAt
    <2> QED
      BY <2>1, <2>3
  <1>MapPrev. CASE MapPrev
    BY <1>MapPrev DEF MapPrev, ram
  <1>RecoverNone. CASE RecoverNone
    BY <1>RecoverNone DEF RecoverNone, ram
  <1>Recover. CASE Recover
    BY <1>Recover DEF Recover, ram
  <1>RecoverKey. CASE RecoverKey
    BY <1>RecoverKey DEF RecoverKey, ram
  <1>RecoverDone. CASE RecoverDone
    <2>1. /\ map' = map
          /\ flash' = [flash EXCEPT ![walk.page].mark = "zero", ![walk.page].seq = 0]
          /\ walk.page \in Pages
      BY <1>RecoverDone, <1>a DEF RecoverDone, FormatAs, ram, Control
    <2>2. \A q \in Pages : flash'[q].word = flash[q].word
      BY <1>a, <2>1, HeaderWritten
    <2> QED
      BY <2>1, <2>2 DEF AllBlank
  <1>Recount. CASE Recount
    BY <1>Recount DEF Recount, ram
  <1>Save. CASE \E s \in Saves : Save(s[1], s[2])
    BY <1>Save DEF Save, Booting, Control
  <1>WriteData. CASE WriteData
    BY <1>WriteData, <1>b DEF WriteData, Appending
  <1>WriteKey. CASE WriteKey
    BY <1>WriteKey, <1>b DEF WriteKey, Appending
  <1>SetEndPosition. CASE SetEndPosition
    BY <1>SetEndPosition, <1>b DEF SetEndPosition, Appending
  <1>OpenNextPage. CASE OpenNextPage
    BY <1>OpenNextPage, <1>b DEF OpenNextPage, Appending
  <1>PageErase. CASE PageErase
    <2>1. map' = map /\ (flash' = flash \/ flash' = [flash EXCEPT ![target.page] = BlankPage])
      BY <1>PageErase DEF PageErase, ram
    <2>2. flash' = [flash EXCEPT ![target.page] = BlankPage] => AllBlank(flash')
      BY <1>a, PageErased DEF AllBlank
    <2> QED
      BY <2>1, <2>2
  <1>PageMark. CASE PageMark
    <2>1. map' = map /\ flash' = [flash EXCEPT ![target.page].mark = "erased"]
      BY <1>PageMark, <1>a DEF PageMark, FormatAs, ram, Control
    <2>2. \A q \in Pages : flash'[q].word = flash[q].word
      BY <1>a, <2>1, MarkWritten
    <2> QED
      BY <2>1, <2>2 DEF AllBlank
  <1>FormatNext. CASE FormatNext
    BY <1>FormatNext, <1>b DEF FormatNext, Appending
  <1>FormatFirst. CASE FormatFirst
    <2>1. /\ map' = map
          /\ flash' = [flash EXCEPT ![target.page].mark = "valid", ![target.page].seq = 0]
      BY <1>FormatFirst, <1>a DEF FormatFirst, FormatAs, ram, Control
    <2>2. \A q \in Pages : flash'[q].word = flash[q].word
      BY <1>a, <2>1, HeaderWritten
    <2> QED
      BY <2>1, <2>2 DEF AllBlank
  <1>Collect. CASE \E g \in GcCalls : Collect(g)
    BY <1>Collect DEF Collect, Booting, Control
  <1>CollectPage. CASE CollectPage
    BY <1>CollectPage DEF CollectPage, ram
  <1>CollectKey. CASE CollectKey
    BY <1>CollectKey DEF CollectKey, ram
  <1>CollectErase. CASE CollectErase
    BY <1>CollectErase DEF CollectErase, ram
  <1>CollectRetry. CASE CollectRetry
    BY <1>CollectRetry DEF CollectRetry, ram
  <1>CollectDone. CASE CollectDone
    BY <1>CollectDone DEF CollectDone, ram
  <1>ClearPage. CASE ClearPage
    BY <1>ClearPage DEF ClearPage, QuietInv
  <1>ClearReset. CASE ClearReset
    BY <1>ClearReset DEF ClearReset, QuietInv
  <1>EraseInvalidPage. CASE EraseInvalidPage
    BY <1>EraseInvalidPage DEF EraseInvalidPage, QuietInv
  <1>EraseInvalidDone. CASE EraseInvalidDone
    BY <1>EraseInvalidDone DEF EraseInvalidDone, QuietInv
  <1> QED
    BY <1>Stutter, <1>PowerOn, <1>ScanPage, <1>ScanNone, <1>FindCell, <1>MapKey,
       <1>MapPrev, <1>RecoverNone, <1>Recover, <1>RecoverKey, <1>RecoverDone,
       <1>Recount, <1>Save, <1>WriteData, <1>WriteKey, <1>SetEndPosition,
       <1>OpenNextPage, <1>PageErase, <1>PageMark, <1>FormatNext, <1>FormatFirst,
       <1>Collect, <1>CollectPage, <1>CollectKey, <1>CollectErase, <1>CollectRetry,
       <1>CollectDone, <1>ClearPage, <1>ClearReset, <1>EraseInvalidPage,
       <1>EraseInvalidDone
       DEF Driven, Step, Boot, Append, Format, Gc, Clear

\* What a step does to what is saved after the boot: nothing, or it takes the
\* caller's pair.
LEMMA Effects ==
    ASSUME TypeInv, TypeInv', KeepInv, KeepInv', SaverInv, QuietInv, QuietInv', ~Booting, [Driven]_vars
    PROVE  \/ /\ ~(WriteKey /\ walk.loop = "none") /\ Contents' = Contents
              /\ \A a \in Addr : map'[a] = 0 <=> map[a] = 0
           \/ /\ WriteKey /\ walk.loop = "none" /\ call = item /\ call \in Item
              /\ Contents' = [Contents EXCEPT ![call.addr] = call.val]
              /\ \A a \in Addr : map'[a] = 0 <=> map[a] = 0 /\ a # call.addr
  <1>1. /\ Intact' /\ pc \notin {"clear", "invalid", "off", "scan", "cell", "map"}
        /\ target.next \notin {"clear", "init"}
    BY DEF QuietInv, Booting
  <1>2. [Next]_vars
    BY DEF Driven, Next, Request
  <1>3. CASE ~WriteKey
    <2>1. Contents' = Contents
      BY <1>1, <1>2, <1>3, ContentsKept
    <2>2. map' = map
      BY <1>1, <1>3
         DEF Driven, Step, Boot, Append, Format, Gc, Clear, vars, ram,
             PowerOn, ScanPage, ScanNone, FindCell, MapKey, MapPrev, RecoverNone, Recover,
             RecoverKey, RecoverDone, Recount, Save, WriteData, SetEndPosition, OpenNextPage,
             PageErase, PageMark, FormatNext, FormatFirst, FormatAs, Collect, CollectPage,
         CollectKey,
             CollectErase, CollectRetry, CollectDone, ClearPage, ClearReset, EraseInvalidPage,
             EraseInvalidDone
    <2> QED
      BY <1>3, <2>1, <2>2
  <1>4. CASE WriteKey
    <2>1. /\ pc = "key" /\ Booted /\ Appending /\ walk.loop \in {"none", "gc", "rec"}
          /\ item \in Item /\ map \in [Addr -> Entry] /\ cur \in Pages /\ free \in INFO_size .. PageElement
          /\ map' = [map EXCEPT ![item.addr] = PhysAddr(cur, free)]
      BY <1>1, <1>4
         DEF WriteKey, Booted, TypeInv, TypeOK, Control, Appending, KeepInv, RingInv, RoomInv
    <2>2. PhysAddr(cur, free) # 0
      <3>1. free \in Cells
        BY <2>1, Sizes DEF TypeInv, Control, Room, Cells, INFO_size
      <3>2. ~Odd(free)
        BY <2>1 DEF KeepInv, RingInv, WordsInv
      <3> QED
        BY <2>1, <3>1, <3>2, EntryPlace
    <2>3. item.addr \in Addr
      BY <2>1 DEF Item
    <2>4. CASE walk.loop = "none"
      <3>1. call = item
        BY <2>1, <2>4 DEF SaverInv
      <3>2. Contents' = [Contents EXCEPT ![item.addr] = item.val]
        BY <1>4, <2>4, ContentsSaved
      <3> QED
        BY <1>4, <2>1, <2>2, <2>3, <2>4, <3>1, <3>2
    <2>5. CASE walk.loop # "none"
      <3>1. map[item.addr] # 0
        BY <2>1, <2>5 DEF KeepInv, CopyInv
      <3>2. Contents' = Contents
        BY <1>4, <2>5, ContentsSaved
      <3> QED
        BY <2>1, <2>2, <2>3, <2>5, <3>1, <3>2
    <2> QED
      BY <2>4, <2>5
  <1> QED
    BY <1>3, <1>4

\* What a step does to the save it belongs to: the key word ends it.
LEMMA CallEffects ==
    ASSUME TypeInv, KeepInv, SaverInv, QuietInv, ~Booting, Step
    PROVE  /\ pc # "idle"
           /\ pc' # "idle" => call' = call /\ (call # NoItem => ~(WriteKey /\ walk.loop = "none"))
           /\ pc' = "idle" => call = NoItem \/ (WriteKey /\ walk.loop = "none")
           /\ WriteKey /\ walk.loop = "none" => pc' = "idle" /\ call # NoItem
  <1>1. /\ pc \notin {"clear", "invalid", "off", "scan", "cell", "map", "recover", "rec", "recount"}
        /\ target.next \notin {"clear", "init", "invalid"} /\ walk.loop \notin {"rec", "invalid"}
    BY DEF QuietInv, Booting
  <1>2. WriteKey => pc' = (IF walk.loop = "none" THEN "idle" ELSE walk.loop)
                    /\ call' = (IF walk.loop = "none" THEN NoItem ELSE call)
                    /\ item # NoItem /\ Appending
    BY DEF WriteKey, Return, TypeInv, Control, Appending
  <1>3. WriteKey => walk.loop \in {"none", "gc"} /\ (walk.loop = "none" => call = item)
    BY <1>1, <1>2 DEF SaverInv, KeepInv, RingInv, RoomInv
  <1>4. ~WriteKey => pc # "idle" /\ call' = call /\ (pc' = "idle" => call = NoItem)
    BY <1>1
       DEF Step, Boot, Append, Format, Gc, Clear, work,
           PowerOn, ScanPage, ScanNone, FindCell, MapKey, MapPrev, RecoverNone, Recover,
           RecoverKey, RecoverDone, Recount, WriteData, SetEndPosition, OpenNextPage,
           PageErase, PageMark, AfterErase, FormatNext, FormatFirst, CollectPage, CollectKey,
           CollectErase, CollectRetry, CollectDone, ClearPage, ClearReset, EraseInvalidPage,
           EraseInvalidDone
  <1> QED
    BY <1>2, <1>3, <1>4 DEF WriteKey

-----------------------------------------------------------------------------
(* The blocks that are saved.                                               *)

\* A save has written the words before the one it is at.
SaveOK(r, c, m) ==
    r.op = "save" =>
      /\ r.at \in {"lock", "word", "busy", "unlock"} /\ r.ok
      /\ r.at = "lock" => r.word = 0
      /\ r.at = "unlock" => r.word = Words
      /\ \A i \in Index : i < r.word => m[i] # 0 /\ c[i] = r.val

\* The save or the collection that runs is the one of the task inside it.
CallOf(r, c) ==
    r.at = "busy" => \/ r.op = "save" /\ c = [addr |-> r.word, val |-> r.val]
                     \/ r.op = "gc" /\ c = NoItem

InSave(r) == r.op = "save" /\ r.at \in {"word", "busy", "unlock"}

\* Nothing is saved, or one block.
Whole(c, m) == \/ \A i \in Index : m[i] = 0
               \/ \E v \in Values : \A i \in Index : m[i] # 0 /\ c[i] = v

SavesInv ==
    /\ \A t \in Tasks : task[t].at # "ready" => ~Booting
    /\ ~Booting /\ pc # "idle" => \E t \in Tasks : task[t].at = "busy"
    /\ \A t \in Tasks : task[t].at = "busy" => pc # "idle"
    /\ \A t \in Tasks : CallOf(task[t], call) /\ SaveOK(task[t], Contents, map)
    /\ ~Booting /\ (\A t \in Tasks : ~InSave(task[t])) => Whole(Contents, map)

LEMMA IndexAddr == /\ Index \subseteq Addr /\ \A i \in Index : i \in Nat /\ i < Words
                   /\ Words \in Nat /\ Words >= 1
  <1>1. MAX_logical \in Int
    <2>1. PAGE_element_data \in Int /\ NPages - 1 \in Int
      BY Sizes DEF PAGE_element_data
    <2> QED
      BY <2>1 DEF MAX_logical
  <1>2. Words \in Nat /\ Words >= 1 /\ Words <= MAX_logical
    BY <1>1, TaskAssumption
  <1> QED
    BY <1>1, <1>2 DEF Index, Addr

\* A task moves on while nothing that is saved changes.
LEMMA MoveKeeps ==
    ASSUME CallsOK, SavesInv, NEW t \in Tasks, NEW r, Moves(t, r),
           Contents' = Contents, map' = map, Booting' <=> Booting,
           r.at # "ready" => ~Booting,
           CallOf(r, call'), \A u \in Tasks \ {t} : CallOf(task[u], call'),
           SaveOK(r, Contents, map),
           pc' # "idle" => pc # "idle" \/ r.at = "busy",
           task[t].at = "busy" => r.at = "busy",
           (r.at = "busy" \/ \E u \in Tasks \ {t} : task[u].at = "busy") => pc' # "idle",
           InSave(task[t]) => InSave(r) \/ Whole(Contents, map)
    PROVE  SavesInv'
  <1>1. task'[t] = r /\ \A u \in Tasks \ {t} : task'[u] = task[u]
    BY DEF CallsOK, Moves
  <1>2. \A u \in Tasks : task'[u].at # "ready" => ~Booting'
    BY <1>1 DEF SavesInv
  <1>3. ~Booting' /\ pc' # "idle" => \E u \in Tasks : task'[u].at = "busy"
    BY <1>1 DEF SavesInv
  <1>4. \A u \in Tasks : task'[u].at = "busy" => pc' # "idle"
    BY <1>1
  <1>5. \A u \in Tasks : CallOf(task'[u], call') /\ SaveOK(task'[u], Contents', map')
    BY <1>1 DEF SavesInv
  <1>6. ASSUME ~Booting', \A u \in Tasks : ~InSave(task'[u]) PROVE Whole(Contents', map')
    BY <1>1, <1>6 DEF SavesInv
  <1> QED
    BY <1>2, <1>3, <1>4, <1>5, <1>6 DEF SavesInv

\* The log runs on.
LEMMA RunKeeps ==
    ASSUME TypeInv, TypeInv', KeepInv, KeepInv', SaverInv, QuietInv, QuietInv', FreshInv, CallInv,
           SavesInv, Run
    PROVE  SavesInv'
  <1>1. Step /\ [Driven]_vars
    BY DEF Run, Driven
  <1>2. /\ task = [t \in Tasks |-> task[t]] /\ \A t \in Tasks : CallOK(task[t])
        /\ \A t \in Tasks : InBlock(t) => mutex = t
        /\ \A t \in Tasks : task[t].at = "busy" => sem = t
    BY DEF CallInv, CallsOK, ExclusiveCalls
  <1>3. task' = IF pc' = "idle"
                THEN [t \in Tasks |-> IF task[t].at = "busy" THEN AfterCall(task[t]) ELSE task[t]]
                ELSE task
    BY DEF Run
  <1>4. CASE Booting
    <2>1. \A t \in Tasks : task[t].at = "ready" /\ task[t].op # "save"
      BY <1>4 DEF SavesInv, SaveOK
    <2>2. \A t \in Tasks : task'[t] = task[t]
      BY <1>2, <1>3, <2>1
    <2>3. Booting' \/ pc' = "idle"
      BY <1>1, <1>4, BootEnds
    <2>4. map' = EmptyMap
      BY <1>1, <1>4, FreshStep DEF FreshInv
    <2>5. Whole(Contents', map')
      BY <2>4, IndexAddr DEF Whole, EmptyMap
    <2> QED
      BY <2>1, <2>2, <2>3, <2>5 DEF SavesInv, CallOf, SaveOK
  <1>5. CASE ~Booting
    <2>1. pc # "idle" /\ ~Booting'
      BY <1>1, <1>5, CallEffects, BootEnds
    <2>2. PICK b \in Tasks : task[b].at = "busy"
      BY <1>5, <2>1 DEF SavesInv
    <2>3. \A u \in Tasks \ {b} : task[u].at # "busy"
      BY <1>2, <2>2
    <2>4. ASSUME Contents' = Contents, \A a \in Addr : map'[a] = 0 <=> map[a] = 0
          PROVE  /\ \A t \in Tasks : SaveOK(task[t], Contents', map')
                 /\ Whole(Contents, map) => Whole(Contents', map')
      BY <2>4, IndexAddr DEF SavesInv, SaveOK, Whole
    <2>5. CASE pc' # "idle"
      <3>1. call' = call /\ task' = task
        BY <1>1, <1>3, <1>5, <2>5, CallEffects
      <3>2. Contents' = Contents /\ \A a \in Addr : map'[a] = 0 <=> map[a] = 0
        BY <1>1, <1>5, <2>5, CallEffects, Effects
      <3> QED
        BY <1>5, <2>1, <2>2, <2>4, <2>5, <3>1, <3>2 DEF SavesInv
    <2>6. CASE pc' = "idle"
      <3>1. task'[b] = AfterCall(task[b]) /\ \A u \in Tasks \ {b} : task'[u] = task[u]
        BY <1>3, <2>2, <2>3, <2>6
      <3>2. \A u \in Tasks : task'[u].at # "busy"
        BY <1>2, <2>2, <2>3, <3>1, AfterCallOK
      <3>3. CASE task[b].op = "gc"
        <4>1. call = NoItem /\ task'[b] = Ready
          BY <2>2, <3>1, <3>3 DEF SavesInv, CallOf, AfterCall
        <4>2. Contents' = Contents /\ \A a \in Addr : map'[a] = 0 <=> map[a] = 0
          BY <1>1, <1>5, <4>1, WordAssumption, Effects
        <4>3. ~InSave(task[b]) /\ SaveOK(Ready, Contents', map')
          BY <3>3 DEF InSave, SaveOK, Ready
        <4>4. \A t \in Tasks : SaveOK(task'[t], Contents', map')
          BY <2>4, <3>1, <4>1, <4>2, <4>3
        <4>5. ASSUME \A t \in Tasks : ~InSave(task'[t]) PROVE Whole(Contents', map')
          BY <1>5, <2>4, <3>1, <4>2, <4>3, <4>5 DEF SavesInv
        <4> QED
          BY <2>1, <2>6, <3>2, <4>4, <4>5 DEF SavesInv, CallOf
      <3>4. CASE task[b].op # "gc"
        <4>1. /\ task[b].op = "save" /\ call = [addr |-> task[b].word, val |-> task[b].val]
              /\ task[b].word \in Index /\ task[b].val \in Values /\ InBlock(b)
          BY <1>2, <2>2, <3>4 DEF SavesInv, CallOf, CallOK, InBlock
        <4>2. /\ call \in Item /\ call # NoItem /\ call.addr = task[b].word
              /\ call.val = task[b].val
          BY <4>1, IndexAddr, WordAssumption DEF Item, Word
        <4>3. /\ Contents' = [Contents EXCEPT ![call.addr] = call.val]
              /\ \A a \in Addr : map'[a] = 0 <=> map[a] = 0 /\ a # call.addr
          BY <1>1, <1>5, <2>6, <4>2, CallEffects, Effects
        <4>4. /\ NextWord(task[b]).op = "save" /\ NextWord(task[b]).val = task[b].val
              /\ NextWord(task[b]).ok = task[b].ok
              /\ NextWord(task[b]).at = IF task[b].word + 1 < Words THEN "word" ELSE "unlock"
              /\ NextWord(task[b]).word = task[b].word + 1
          BY <1>2, <4>1 DEF NextWord, CallOK, Fields
        <4>5. task'[b] = NextWord(task[b])
          BY <3>1, <3>4 DEF AfterCall
        <4>6. Contents \in [Addr -> {Contents[a] : a \in Addr}]
          <5>1. Contents = [a \in Addr |-> ftl_read(a)]
            <6>1. Booted /\ walk.loop # "map"
              BY <1>5, <2>1 DEF Booted, Booting, QuietInv
            <6> QED
              BY <6>1, LogReads DEF LogIsRead
          <5> QED
            BY <5>1
        <4>7. ASSUME NEW i \in Index, i < task[b].word + 1
              PROVE  map'[i] # 0 /\ Contents'[i] = task[b].val
          <5>1. i \in Addr /\ i \in Nat /\ task[b].word \in Nat /\ task[b].word \in Addr
            BY <4>1, IndexAddr
          <5>2. CASE i = task[b].word
            BY <4>2, <4>3, <4>6, <5>1, <5>2
          <5>3. CASE i # task[b].word
            <6>1. i < task[b].word
              BY <4>7, <5>1, <5>3
            <6>2. map[i] # 0 /\ Contents[i] = task[b].val
              BY <4>1, <6>1 DEF SavesInv, SaveOK
            <6> QED
              BY <4>2, <4>3, <4>6, <5>1, <5>3, <6>2
          <5> QED
            BY <5>2, <5>3
        <4>8. SaveOK(task'[b], Contents', map')
          <5>1. task[b].ok /\ Words \in Nat /\ task[b].word \in Nat /\ task[b].word < Words
            BY <4>1, IndexAddr, TaskAssumption DEF SavesInv, SaveOK
          <5>2. /\ task'[b].val = task[b].val /\ task'[b].ok /\ task'[b].word = task[b].word + 1
                /\ task'[b].at \in {"word", "unlock"}
                /\ task'[b].at = "unlock" => task'[b].word = Words
            <6>1. /\ task'[b].val = task[b].val /\ task'[b].ok
                  /\ task'[b].word = task[b].word + 1
                  /\ task'[b].at = IF task[b].word + 1 < Words THEN "word" ELSE "unlock"
              BY <4>4, <4>5, <5>1, Zenon
            <6>2. ~(task[b].word + 1 < Words) => task[b].word + 1 = Words
              BY <5>1
            <6> QED
              BY <6>1, <6>2, Zenon
          <5>3. \A i \in Index : i < task'[b].word => map'[i] # 0 /\ Contents'[i] = task'[b].val
            BY <4>7, <5>2
          <5> QED
            BY <5>2, <5>3 DEF SaveOK
        <4>9. \A u \in Tasks \ {b} : SaveOK(task'[u], Contents', map')
          <5> SUFFICES ASSUME NEW u \in Tasks \ {b}, task[u].op = "save"
                       PROVE  SaveOK(task[u], Contents', map')
            BY <3>1 DEF SaveOK
          <5>1. ~InBlock(u)
            BY <1>2, <4>1
          <5>2. task[u].at = "lock" /\ task[u].word = 0
            BY <5>1 DEF InBlock, SavesInv, SaveOK
          <5> QED
            BY <5>2, IndexAddr DEF SavesInv, SaveOK
        <4>10. InSave(task'[b])
          BY <4>4, <4>5 DEF InSave
        <4> QED
          BY <2>1, <2>6, <3>2, <4>8, <4>9, <4>10 DEF SavesInv, CallOf
      <3> QED
        BY <3>3, <3>4
    <2> QED
      BY <2>5, <2>6
  <1> QED
    BY <1>4, <1>5

\* A task moves on and leaves the log alone.
LEMMA TaskKeeps ==
    ASSUME CallsOK, SavesInv, NEW t \in Tasks, NEW r, Moves(t, r), UNCHANGED vars,
           task[t].at # "busy", r.at # "busy", r.at # "ready" => ~Booting,
           SaveOK(r, Contents, map), InSave(task[t]) => InSave(r) \/ Whole(Contents, map)
    PROVE  SavesInv'
  <1>1. /\ flash' = flash /\ map' = map /\ pc' = pc /\ call' = call /\ walk' = walk
        /\ target' = target
    BY DEF vars, ram, work
  <1>2. Contents' = Contents /\ (Booting' <=> Booting)
    BY <1>1, SameFlash DEF Booting
  <1>3. CallOf(r, call') /\ \A u \in Tasks \ {t} : CallOf(task[u], call')
    BY <1>1 DEF SavesInv, CallOf
  <1>4. \A u \in Tasks : task[u].at = "busy" => pc' # "idle"
    BY <1>1 DEF SavesInv
  <1> QED
    BY <1>1, <1>2, <1>3, <1>4, MoveKeeps

\* Every step of the tasks keeps what is saved whole.
LEMMA SavesStep ==
    ASSUME TypeInv, TypeInv', KeepInv, KeepInv', SaverInv, QuietInv, QuietInv', FreshInv, CallInv,
           SavesInv, ~MarksFail, [ClientNext]_allVars
    PROVE  SavesInv'
  <1>0. /\ CallsOK /\ \A t \in Tasks : CallOK(task[t])
        /\ \A t \in Tasks : SaveOK(task[t], Contents, map)
        /\ \A t \in Tasks : task[t].at # "ready" => ~Booting
        /\ \A t \in Tasks : task[t].at = "busy" => pc # "idle"
    BY DEF CallInv, CallsOK, SavesInv
  <1>r. Ready.at = "ready" /\ Ready.op = "none" /\ SaveOK(Ready, Contents, map)
    BY DEF Ready, SaveOK
  <1>CallSave. ASSUME NEW t \in Savers, NEW v \in Values, CallSave(t, v) PROVE SavesInv'
    <2> DEFINE r == [Ready EXCEPT !.op = "save", !.at = "lock", !.val = v]
    <2>1. /\ r.at = "lock" /\ r.word = 0 /\ r.ok /\ t \in Tasks
      BY TaskAssumption DEF Ready
    <2>2. Moves(t, r) /\ UNCHANGED vars /\ ~Booting /\ task[t].at = "ready"
      BY <1>CallSave DEF CallSave, Moves
    <2> HIDE DEF r
    <2>3. SaveOK(r, Contents, map)
      BY <2>1, IndexAddr DEF SaveOK
    <2> QED
      BY <1>0, <2>1, <2>2, <2>3, TaskKeeps DEF InSave
  <1>CallLoad. ASSUME NEW t \in Loaders, CallLoad(t) PROVE SavesInv'
    <2> DEFINE r == [Ready EXCEPT !.op = "load", !.at = "lock"]
    <2>1. r.at = "lock" /\ r.op = "load" /\ t \in Tasks
      BY TaskAssumption DEF Ready
    <2>2. Moves(t, r) /\ UNCHANGED vars /\ ~Booting /\ task[t].at = "ready"
      BY <1>CallLoad DEF CallLoad, Moves
    <2> HIDE DEF r
    <2>3. SaveOK(r, Contents, map)
      BY <2>1 DEF SaveOK
    <2> QED
      BY <1>0, <2>1, <2>2, <2>3, TaskKeeps DEF InSave
  <1>CallCollect. ASSUME NEW t \in Collectors, CallCollect(t) PROVE SavesInv'
    <2> DEFINE r == [Ready EXCEPT !.op = "gc", !.at = "word"]
    <2>1. r.at = "word" /\ r.op = "gc" /\ t \in Tasks
      BY TaskAssumption DEF Ready
    <2>2. Moves(t, r) /\ UNCHANGED vars /\ ~Booting /\ task[t].at = "ready"
      BY <1>CallCollect DEF CallCollect, Moves
    <2> HIDE DEF r
    <2>3. SaveOK(r, Contents, map)
      BY <2>1 DEF SaveOK
    <2> QED
      BY <1>0, <2>1, <2>2, <2>3, TaskKeeps DEF InSave
  <1>GetMutex. ASSUME NEW t \in Tasks, GetMutex(t) PROVE SavesInv'
    <2> DEFINE r == [task[t] EXCEPT !.at = "word"]
    <2>1. /\ Moves(t, r) /\ UNCHANGED vars /\ task[t].at = "lock" /\ ~Booting
      BY <1>0, <1>GetMutex DEF GetMutex, Goto, Moves
    <2>2. /\ r.at = "word" /\ r.op = task[t].op /\ r.val = task[t].val /\ r.ok = task[t].ok
          /\ r.word = task[t].word
      BY <1>0 DEF CallOK, Fields
    <2> HIDE DEF r
    <2>3. SaveOK(r, Contents, map)
      BY <1>0, <2>2 DEF SaveOK
    <2> QED
      BY <1>0, <2>1, <2>2, <2>3, TaskKeeps DEF InSave
  <1>MutexTimeout. ASSUME NEW t \in Tasks, MutexTimeout(t) PROVE SavesInv'
    <2>1. /\ Moves(t, Ready) /\ UNCHANGED vars /\ task[t].at = "lock"
      BY <1>MutexTimeout DEF MutexTimeout, Moves
    <2> QED
      BY <1>0, <1>r, <2>1, TaskKeeps DEF InSave
  <1>PutMutex. ASSUME NEW t \in Tasks, PutMutex(t) PROVE SavesInv'
    <2>1. /\ Moves(t, Ready) /\ UNCHANGED vars /\ task[t].at = "unlock"
      BY <1>PutMutex DEF PutMutex, Moves
    <2>2. ASSUME InSave(task[t]) PROVE Whole(Contents, map)
      <3>1. task[t].val \in Values /\ task[t].word = Words
        BY <1>0, <2>1, <2>2 DEF InSave, SaveOK, CallOK
      <3>2. \A i \in Index : map[i] # 0 /\ Contents[i] = task[t].val
        BY <1>0, <2>2, <3>1, IndexAddr DEF InSave, SaveOK
      <3> QED
        BY <3>1, <3>2 DEF Whole
    <2> QED
      BY <1>0, <1>r, <2>1, <2>2, TaskKeeps
  <1>WriteWord. ASSUME NEW t \in Tasks, WriteWord(t) PROVE SavesInv'
    <2> DEFINE r == [task[t] EXCEPT !.at = "busy"]
    <2>1. /\ Moves(t, r) /\ task[t].op = "save" /\ task[t].at = "word" /\ pc = "idle"
          /\ pc' = "write"
          /\ flash' = flash /\ map' = map /\ walk' = walk /\ target' = target
          /\ call' = [addr |-> task[t].word, val |-> task[t].val]
      BY <1>WriteWord DEF WriteWord, CanTakeSem, Save, Goto, Moves, ram
    <2>2. /\ r.at = "busy" /\ r.op = task[t].op /\ r.val = task[t].val /\ r.ok = task[t].ok
          /\ r.word = task[t].word
      BY <1>0 DEF CallOK, Fields
    <2> HIDE DEF r
    <2>3. SaveOK(r, Contents, map) /\ CallOf(r, call') /\ InSave(r)
      BY <1>0, <2>1, <2>2 DEF SaveOK, CallOf, InSave
    <2>4. Contents' = Contents /\ ~Booting /\ ~Booting'
      BY <1>0, <2>1, SameFlash DEF Booting
    <2>5. \A u \in Tasks : task[u].at # "busy" /\ CallOf(task[u], call')
      BY <1>0, <2>1 DEF CallOf
    <2> QED
      BY <1>0, <2>1, <2>2, <2>3, <2>4, <2>5, MoveKeeps
  <1>StartCollect. ASSUME NEW t \in Tasks, NEW g \in GcCalls, StartCollect(t, g)
                   PROVE  SavesInv'
    <2> DEFINE r == [task[t] EXCEPT !.at = "busy"]
    <2>1. /\ Moves(t, r) /\ task[t].op = "gc" /\ task[t].at = "word" /\ pc = "idle"
          /\ pc' = "collect"
          /\ flash' = flash /\ map' = map /\ walk' = walk /\ target' = target /\ call' = call
      BY <1>StartCollect DEF StartCollect, CanTakeSem, Collect, Goto, Moves, ram, work
    <2>2. r.at = "busy" /\ r.op = task[t].op
      BY <1>0 DEF CallOK, Fields
    <2> HIDE DEF r
    <2>3. SaveOK(r, Contents, map) /\ CallOf(r, call') /\ ~InSave(task[t])
      BY <2>1, <2>2 DEF SaveOK, CallOf, InSave, SaverInv
    <2>4. Contents' = Contents /\ ~Booting /\ ~Booting'
      BY <1>0, <2>1, SameFlash DEF Booting
    <2>5. \A u \in Tasks : task[u].at # "busy" /\ CallOf(task[u], call')
      BY <1>0, <2>1 DEF CallOf
    <2> QED
      BY <1>0, <2>1, <2>2, <2>3, <2>4, <2>5, MoveKeeps
  <1>SkipCollect. ASSUME NEW t \in Tasks, NEW g \in GcCalls, SkipCollect(t, g)
                  PROVE  SavesInv'
    <2>1. /\ Moves(t, Ready) /\ UNCHANGED vars /\ task[t].at = "word" /\ task[t].op = "gc"
      BY <1>SkipCollect DEF SkipCollect, Moves
    <2> QED
      BY <1>0, <1>r, <2>1, TaskKeeps DEF InSave
  <1>f. ASSUME NEW t \in Tasks, task[t].op = "load" PROVE Fail(task[t]).at = "unlock" /\ Fail(task[t]).op = "load"
    BY <1>0, <1>f, FailOK
  <1>ReadEntry. ASSUME NEW t \in Tasks, ReadEntry(t) PROVE SavesInv'
    <2> DEFINE e == map[task[t].word]
               r == IF e = 0 THEN Fail(task[t])
                    ELSE [task[t] EXCEPT !.pair = e, !.at = "key"]
    <2>1. /\ Moves(t, r) /\ UNCHANGED vars /\ task[t].op = "load" /\ task[t].at = "word"
          /\ ~Booting
      BY <1>0, <1>ReadEntry DEF ReadEntry, Moves
    <2>2. r.op = "load" /\ r.at \in {"unlock", "key"}
      BY <1>0, <1>f, <2>1, ReadEntryOK
    <2> HIDE DEF r
    <2>3. SaveOK(r, Contents, map) /\ ~InSave(task[t])
      BY <2>1, <2>2 DEF SaveOK, InSave
    <2> QED
      BY <1>0, <2>1, <2>2, <2>3, TaskKeeps
  <1>ReadKey. ASSUME NEW t \in Tasks, ReadKey(t) PROVE SavesInv'
    <2> DEFINE w == flash[EntryPage(task[t].pair)].word[EntryCell(task[t].pair) + 1]
               r == IF w = Key(task[t].word) THEN [task[t] EXCEPT !.at = "data"]
                    ELSE Fail(task[t])
    <2>1. Moves(t, r) /\ UNCHANGED vars /\ task[t].op = "load" /\ task[t].at = "key" /\ ~Booting
      BY <1>0, <1>ReadKey DEF ReadKey, Moves, SaveOK, CallOK
    <2>2. r.op = "load" /\ r.at \in {"unlock", "data"}
      BY <1>0, <1>f, <2>1, GotoOK
    <2> HIDE DEF r
    <2>3. SaveOK(r, Contents, map) /\ ~InSave(task[t])
      BY <2>1, <2>2 DEF SaveOK, InSave
    <2> QED
      BY <1>0, <2>1, <2>2, <2>3, TaskKeeps
  <1>ReadData. ASSUME NEW t \in Tasks, ReadData(t) PROVE SavesInv'
    <2> DEFINE w == flash[EntryPage(task[t].pair)].word[EntryCell(task[t].pair)]
               got == [task[t].got EXCEPT ![task[t].word] = w]
               r == NextWord([task[t] EXCEPT !.pair = 0, !.got = got])
    <2>1. /\ Moves(t, r) /\ UNCHANGED vars /\ task[t].op = "load" /\ task[t].at = "data"
          /\ ~Booting
      BY <1>0, <1>ReadData DEF ReadData, Moves, SaveOK, CallOK
    <2>2. r.op = "load" /\ r.at \in {"word", "unlock"}
      BY <1>0, <2>1, ReadDataOK
    <2> HIDE DEF r
    <2>3. SaveOK(r, Contents, map) /\ ~InSave(task[t])
      BY <2>1, <2>2 DEF SaveOK, InSave
    <2> QED
      BY <1>0, <2>1, <2>2, <2>3, TaskKeeps
  <1>Run. CASE Run
    BY <1>Run, RunKeeps
  <1>Failures. ~Failures
    BY DEF Failures, OpenFails, CopyFails, EraseFails, MarkFails
  <1>Stutter. CASE UNCHANGED allVars
    <2>1. /\ flash' = flash /\ map' = map /\ pc' = pc /\ call' = call /\ walk' = walk
          /\ target' = target /\ task' = task
      BY <1>Stutter DEF allVars, clientVars, vars, ram, work
    <2>2. Contents' = Contents /\ (Booting' <=> Booting)
      BY <2>1, SameFlash DEF Booting
    <2> QED
      BY <2>1, <2>2 DEF SavesInv
  <1> QED
    BY <1>CallSave, <1>CallLoad, <1>CallCollect, <1>GetMutex, <1>MutexTimeout, <1>PutMutex,
       <1>WriteWord, <1>StartCollect, <1>SkipCollect, <1>ReadEntry, <1>ReadKey, <1>ReadData,
       <1>Run, <1>Failures, <1>Stutter DEF ClientNext, Calls, Go

\* Before the first call nothing is on flash.
LEMMA SavesInit == ClientInit => QuietInv /\ FreshInv /\ SavesInv
  <1> SUFFICES ASSUME ClientInit PROVE QuietInv /\ FreshInv /\ SavesInv
    OBVIOUS
  <1>1. /\ flash = [p \in Pages |-> BlankPage] /\ map = EmptyMap /\ pc = "off" /\ walk = NoWalk
        /\ target = NoTarget /\ damage = "none" /\ \A t \in Tasks : task[t] = Ready
    BY DEF ClientInit, Init
  <1>2. QuietInv
    BY <1>1 DEF QuietInv, Intact, NoWalk, NoTarget
  <1>3. FreshInv
    BY <1>1 DEF FreshInv, AllBlank, BlankPage
  <1>4. Booting /\ \A t \in Tasks : task[t].at = "ready" /\ task[t].op = "none"
    BY <1>1 DEF Booting, Ready
  <1> QED
    BY <1>2, <1>3, <1>4 DEF SavesInv, CallOf, SaveOK

\* What the tasks and the log keep up between them.
BlockInv == /\ TypeInv /\ KeepInv /\ SaverInv
            /\ QuietInv /\ FreshInv /\ CallInv /\ SavesInv

LEMMA BlockInvariant == ASSUME ~MarksFail, GcBelow PROVE ClientSpec => []BlockInv
  <1>1. ClientSpec => Spec
    BY ClientsRunFtl
  <1>2. Spec => []TypeInv /\ [](Intact => KeepInv /\ SaverInv)
    BY TypeInvariant, SaverInvariant
  <1>3. ASSUME TypeInv, TypeInv', Intact => KeepInv /\ SaverInv, (Intact => KeepInv /\ SaverInv)',
               CallInv, QuietInv, FreshInv, SavesInv, [ClientNext]_allVars
        PROVE  QuietInv' /\ FreshInv' /\ SavesInv'
    <2>1. KeepInv /\ SaverInv /\ [Driven]_vars
      BY <1>3, DrivenStep DEF QuietInv
    <2>2. QuietInv'
      BY <1>3, <2>1, QuietStep
    <2>3. KeepInv'
      BY <1>3, <2>2 DEF QuietInv
    <2>4. FreshInv'
      BY <1>3, <2>1, BootEnds, FreshStep DEF FreshInv
    <2> QED
      BY <1>3, <2>1, <2>2, <2>3, <2>4, SavesStep
  <1>4. QuietInv => Intact
    BY DEF QuietInv
  <1>5. TypeInv /\ KeepInv /\ SaverInv /\ QuietInv /\ FreshInv /\ CallInv /\ SavesInv => BlockInv
    BY DEF BlockInv
  <1> QED
    BY <1>1, <1>2, <1>3, <1>4, <1>5, CallInvariant, SavesInit, PTL DEF ClientSpec

\* "return 0 success" of ftl_save_to_storage, for any number of tasks that
\* save, load and collect and any block: when no erased mark fails and
\* collections leave the written page alone, a save that reports success has
\* the whole block on flash, whatever else ran beside it.
THEOREM SavesAreOnFlash == ASSUME ~MarksFail, GcBelow PROVE ClientSpec => []SaveIsOnFlash
  <1>1. BlockInv => SaveIsOnFlash
    <2> SUFFICES ASSUME BlockInv, NEW t \in Tasks, task[t].op = "save", task[t].at = "unlock",
                        NEW i \in Index
                 PROVE  Block[i] = task[t].val
      BY DEF SaveIsOnFlash
    <2>1. task[t].word = Words /\ i < Words
      BY IndexAddr DEF BlockInv, SavesInv, SaveOK
    <2>2. Contents[i] = task[t].val
      BY <2>1 DEF BlockInv, SavesInv, SaveOK
    <2> QED
      BY <2>2 DEF Block
  <1> QED
    BY <1>1, BlockInvariant, PTL

-----------------------------------------------------------------------------
(* The blocks that are loaded.  Nothing but a save changes the log below a  *)
(* load when no task collects; the mutex keeps saves out of it.             *)

\* A load has read, word by word, what the log holds.
LoadOK(r, c, m) ==
    r.op = "load" =>
      /\ r.at \in {"lock", "word", "key", "data", "unlock"}
      /\ r.got = [i \in Index |-> r.got[i]]
      /\ r.at = "lock" => r.word = 0
      /\ r.at # "unlock" => r.ok
      /\ r.at = "unlock" /\ r.ok => r.word = Words
      /\ r.at \in {"key", "data"} => r.pair # 0 /\ r.pair = m[r.word]
      /\ r.ok => \A i \in Index : i < r.word => m[i] # 0 /\ r.got[i] = c[i]

LoadsInv == \A t \in Tasks : task[t].op # "gc" /\ LoadOK(task[t], Contents, map)

\* A task moves on while the log is left alone.
LEMMA LoadMove ==
    ASSUME CallsOK, LoadsInv, NEW t \in Tasks, NEW r, Moves(t, r), flash' = flash, map' = map,
           r.op # "gc", LoadOK(r, Contents, map)
    PROVE  LoadsInv'
  <1>1. task'[t] = r /\ \A u \in Tasks \ {t} : task'[u] = task[u]
    BY DEF CallsOK, Moves
  <1>2. Contents' = Contents
    BY SameFlash
  <1> QED
    BY <1>1, <1>2 DEF LoadsInv

\* While a load is in the block, the log is at rest and no save is in it.
LEMMA LoadAlone ==
    ASSUME BlockInv, LoadsInv, NEW t \in Tasks, task[t].op = "load", task[t].at # "lock"
    PROVE  /\ pc = "idle" /\ ~Booting /\ Whole(Contents, map)
           /\ Contents = [a \in Addr |-> ftl_read(a)]
  <1>1. /\ \A u \in Tasks : CallOK(task[u])
        /\ \A u \in Tasks : InBlock(u) => mutex = u
        /\ \A u \in Tasks : task[u].op # "gc"
    BY DEF BlockInv, CallInv, CallsOK, ExclusiveCalls, LoadsInv
  <1>2. task[t].at # "ready" /\ task[t].at # "busy" /\ mutex = t
    BY <1>1 DEF LoadsInv, LoadOK, InBlock
  <1>3. ~Booting
    BY <1>2 DEF BlockInv, SavesInv
  <1>4. \A u \in Tasks \ {t} : ~InBlock(u)
    BY <1>1, <1>2
  <1>5. \A u \in Tasks : task[u].at # "busy" /\ ~InSave(task[u])
    BY <1>1, <1>2, <1>4 DEF InBlock, InSave, CallOK
  <1>6. pc = "idle" /\ Whole(Contents, map)
    BY <1>3, <1>5 DEF BlockInv, SavesInv
  <1>7. Booted /\ walk.loop # "map"
    BY <1>3, <1>6 DEF Booted, Booting, BlockInv, QuietInv
  <1> QED
    BY <1>3, <1>6, <1>7, LogReads DEF LogIsRead, BlockInv

\* The records a load makes of what it reads.
LEMMA LoadFails ==
    ASSUME NEW c, NEW m, NEW r, CallOK(r), r.op = "load", LoadOK(r, c, m)
    PROVE  LoadOK(Fail(r), c, m) /\ Fail(r).op = "load"
  BY DEF CallOK, LoadOK, Fail, Fields

LEMMA LoadGoes ==
    ASSUME NEW c, NEW m, NEW r, CallOK(r), r.op = "load", LoadOK(r, c, m), NEW at,
           (r.at = "lock" /\ at = "word") \/ (r.at = "key" /\ at = "data")
    PROVE  LoadOK([r EXCEPT !.at = at], c, m) /\ [r EXCEPT !.at = at].op = "load"
  BY DEF CallOK, LoadOK, Fields

\* The next word of the block is taken.
LEMMA LoadTakes ==
    ASSUME NEW c, NEW m, NEW r, CallOK(r), LoadOK(r, c, m), r.op = "load", r.at = "data",
           NEW n, n.op = "load", n.word = r.word + 1, n.ok = r.ok,
           n.at = IF r.word + 1 < Words THEN "word" ELSE "unlock",
           n.got = [i \in Index |-> IF i = r.word THEN c[i] ELSE r.got[i]]
    PROVE  LoadOK(n, c, m)
  <1>1. r.word \in Index /\ r.ok /\ m[r.word] # 0
    BY DEF CallOK, LoadOK
  <1>2. r.word + 1 < Words \/ r.word + 1 = Words
    BY <1>1, IndexAddr
  <1>3. ASSUME NEW i \in Index, i < r.word + 1 PROVE m[i] # 0 /\ n.got[i] = c[i]
    <2>1. i = r.word \/ i < r.word
      BY <1>1, <1>3, IndexAddr
    <2>2. i < r.word => m[i] # 0 /\ r.got[i] = c[i]
      BY <1>1 DEF LoadOK
    <2> QED
      BY <1>1, <2>1, <2>2
  <1>4. n.at \in {"word", "unlock"} /\ (n.at = "unlock" => n.word = Words)
    BY <1>1, <1>2
  <1>5. n.got = [i \in Index |-> n.got[i]]
    OBVIOUS
  <1> QED
    BY <1>1, <1>3, <1>4, <1>5 DEF LoadOK

\* Every step of the tasks keeps what is loaded right.
LEMMA LoadsStep ==
    ASSUME Collectors = {}, ~MarksFail, BlockInv, BlockInv', LoadsInv, [ClientNext]_allVars
    PROVE  LoadsInv'
  <1>0. /\ CallsOK /\ \A t \in Tasks : CallOK(task[t])
        /\ \A t \in Tasks : task[t].op # "gc" /\ LoadOK(task[t], Contents, map)
    BY DEF BlockInv, CallInv, CallsOK, LoadsInv
  <1>r. Ready.op = "none" /\ LoadOK(Ready, Contents, map)
    BY DEF Ready, LoadOK
  <1>v. UNCHANGED vars => flash' = flash /\ map' = map
    BY DEF vars, ram
  <1>CallSave. ASSUME NEW t \in Savers, NEW v \in Values, CallSave(t, v) PROVE LoadsInv'
    <2> DEFINE r == [Ready EXCEPT !.op = "save", !.at = "lock", !.val = v]
    <2>1. r.op = "save" /\ t \in Tasks
      BY TaskAssumption DEF Ready
    <2>2. Moves(t, r) /\ UNCHANGED vars
      BY <1>CallSave DEF CallSave, Moves
    <2> HIDE DEF r
    <2> QED
      BY <1>0, <1>v, <2>1, <2>2, LoadMove DEF LoadOK
  <1>CallLoad. ASSUME NEW t \in Loaders, CallLoad(t) PROVE LoadsInv'
    <2> DEFINE r == [Ready EXCEPT !.op = "load", !.at = "lock"]
    <2>1. /\ r.op = "load" /\ r.at = "lock" /\ r.word = 0 /\ r.ok /\ t \in Tasks
          /\ r.got = [i \in Index |-> Blank]
      BY TaskAssumption DEF Ready
    <2>2. Moves(t, r) /\ UNCHANGED vars
      BY <1>CallLoad DEF CallLoad, Moves
    <2> HIDE DEF r
    <2>3. LoadOK(r, Contents, map)
      BY <2>1, IndexAddr DEF LoadOK
    <2> QED
      BY <1>0, <1>v, <2>1, <2>2, <2>3, LoadMove
  <1>GetMutex. ASSUME NEW t \in Tasks, GetMutex(t) PROVE LoadsInv'
    <2> DEFINE r == [task[t] EXCEPT !.at = "word"]
    <2>1. Moves(t, r) /\ UNCHANGED vars /\ task[t].at = "lock"
      BY <1>GetMutex DEF GetMutex, Goto, Moves
    <2>2. r.op = task[t].op
      BY <1>0 DEF CallOK, Fields
    <2>3. task[t].op = "load" => LoadOK(r, Contents, map)
      BY <1>0, <2>1, LoadGoes
    <2> HIDE DEF r
    <2>4. LoadOK(r, Contents, map)
      BY <2>2, <2>3 DEF LoadOK
    <2> QED
      BY <1>0, <1>v, <2>1, <2>2, <2>4, LoadMove
  <1>MutexTimeout. ASSUME NEW t \in Tasks, MutexTimeout(t) PROVE LoadsInv'
    <2>1. Moves(t, Ready) /\ UNCHANGED vars
      BY <1>MutexTimeout DEF MutexTimeout, Moves
    <2> QED
      BY <1>0, <1>r, <1>v, <2>1, LoadMove
  <1>PutMutex. ASSUME NEW t \in Tasks, PutMutex(t) PROVE LoadsInv'
    <2>1. Moves(t, Ready) /\ UNCHANGED vars
      BY <1>PutMutex DEF PutMutex, Moves
    <2> QED
      BY <1>0, <1>r, <1>v, <2>1, LoadMove
  <1>WriteWord. ASSUME NEW t \in Tasks, WriteWord(t) PROVE LoadsInv'
    <2> DEFINE r == [task[t] EXCEPT !.at = "busy"]
    <2>1. Moves(t, r) /\ flash' = flash /\ map' = map /\ task[t].op = "save"
      BY <1>WriteWord DEF WriteWord, Save, Goto, Moves, ram
    <2>2. r.op = task[t].op
      BY <1>0 DEF CallOK, Fields
    <2> HIDE DEF r
    <2> QED
      BY <1>0, <2>1, <2>2, LoadMove DEF LoadOK
  <1>Collect. ASSUME NEW t \in Tasks, NEW g \in GcCalls, StartCollect(t, g) \/ SkipCollect(t, g)
              PROVE  FALSE
    BY <1>0, <1>Collect DEF StartCollect, SkipCollect
  <1>ReadEntry. ASSUME NEW t \in Tasks, ReadEntry(t) PROVE LoadsInv'
    <2> DEFINE e == map[task[t].word]
               r == IF e = 0 THEN Fail(task[t])
                    ELSE [task[t] EXCEPT !.pair = e, !.at = "key"]
    <2>1. Moves(t, r) /\ UNCHANGED vars /\ task[t].op = "load" /\ task[t].at = "word"
      BY <1>ReadEntry DEF ReadEntry, Moves
    <2>2. LoadOK(r, Contents, map) /\ r.op = "load"
      <3>1. ASSUME e # 0 PROVE LoadOK(r, Contents, map) /\ r.op = "load"
        <4>1. /\ r.op = task[t].op /\ r.at = "key" /\ r.word = task[t].word
              /\ r.got = task[t].got
              /\ r.ok = task[t].ok /\ r.pair = e
          <5> HIDE DEF e
          <5> QED
            BY <1>0, <3>1 DEF CallOK, Fields
        <4>2. LoadOK(task[t], Contents, map) /\ task[t].op = "load" /\ task[t].at = "word"
          BY <1>0, <2>1
        <4>3. r.pair # 0 /\ r.pair = map[r.word]
          BY <3>1, <4>1
        <4> HIDE DEF e, r
        <4> QED
          BY <4>1, <4>2, <4>3 DEF LoadOK
      <3>2. e = 0 => LoadOK(r, Contents, map) /\ r.op = "load"
        BY <1>0, <2>1, LoadFails
      <3> QED
        BY <3>1, <3>2
    <2> HIDE DEF r
    <2> QED
      BY <1>0, <1>v, <2>1, <2>2, LoadMove
  <1>l. ASSUME NEW t \in Tasks, task[t].at \in {"key", "data"} PROVE task[t].op = "load"
    BY <1>0, <1>l DEF CallOK, BlockInv, SavesInv, SaveOK
  <1>ReadKey. ASSUME NEW t \in Tasks, ReadKey(t) PROVE LoadsInv'
    <2> DEFINE w == flash[EntryPage(task[t].pair)].word[EntryCell(task[t].pair) + 1]
               r == IF w = Key(task[t].word) THEN [task[t] EXCEPT !.at = "data"]
                    ELSE Fail(task[t])
    <2>1. Moves(t, r) /\ UNCHANGED vars /\ task[t].at = "key" /\ task[t].op = "load"
      BY <1>l, <1>ReadKey DEF ReadKey, Moves
    <2>2. LoadOK(r, Contents, map) /\ r.op = "load"
      <3> HIDE DEF w
      <3> QED
        BY <1>0, <2>1, LoadFails, LoadGoes
    <2> HIDE DEF r
    <2> QED
      BY <1>0, <1>v, <2>1, <2>2, LoadMove
  <1>ReadData. ASSUME NEW t \in Tasks, ReadData(t) PROVE LoadsInv'
    <2> DEFINE w == flash[EntryPage(task[t].pair)].word[EntryCell(task[t].pair)]
               g == [task[t].got EXCEPT ![task[t].word] = w]
               r == NextWord([task[t] EXCEPT !.pair = 0, !.got = g])
    <2>1. Moves(t, r) /\ UNCHANGED vars /\ task[t].at = "data" /\ task[t].op = "load"
      BY <1>l, <1>ReadData DEF ReadData, Moves
    <2>2. w = Contents[task[t].word]
      <3>1. /\ Contents = [a \in Addr |-> ftl_read(a)] /\ ~Booting /\ pc = "idle"
        BY <2>1, LoadAlone
      <3>2. task[t].word \in Addr /\ task[t].pair = map[task[t].word] /\ map[task[t].word] # 0
        BY <1>0, <2>1, IndexAddr DEF CallOK, LoadOK
      <3>3. TypeInv /\ KeepInv /\ Booted
        BY <3>1 DEF BlockInv, Booting, QuietInv, Booted
      <3>4. flash[MapPage(task[t].word)].word[MapCell(task[t].word) + 1] = Key(task[t].word)
        BY <3>2, <3>3, MappedPair
      <3>5. ftl_read(task[t].word) = flash[MapPage(task[t].word)].word[MapCell(task[t].word)]
        BY <3>2, <3>4 DEF ftl_read
      <3> QED
        BY <3>1, <3>2, <3>5 DEF MapPage, MapCell
    <2>3. CallOK(task[t]) /\ LoadOK(task[t], Contents, map)
      BY <1>0
    <2>4. g = [i \in Index |-> IF i = task[t].word THEN Contents[i] ELSE task[t].got[i]]
      <3>1. task[t].got = [i \in Index |-> task[t].got[i]]
        BY <2>1, <2>3 DEF LoadOK
      <3>2. w = Contents[task[t].word]
        BY <2>2
      <3> HIDE DEF w
      <3> QED
        BY <3>1, <3>2
    <2> HIDE DEF g
    <2>5. /\ r.op = "load" /\ r.word = task[t].word + 1 /\ r.ok = task[t].ok /\ r.got = g
          /\ r.at = IF task[t].word + 1 < Words THEN "word" ELSE "unlock"
      BY <2>1, <2>3 DEF CallOK, NextWord, Fields
    <2> HIDE DEF r
    <2>6. LoadOK(r, Contents, map)
      BY <2>1, <2>3, <2>4, <2>5, LoadTakes
    <2> QED
      BY <1>0, <1>v, <2>1, <2>5, <2>6, LoadMove
  <1>Run. CASE Run
    <2>1. \A t \in Tasks : task[t].op = "load" => task[t].at = "lock" /\ task[t].word = 0
      <3> SUFFICES ASSUME NEW t \in Tasks, task[t].op = "load", task[t].at # "lock" PROVE FALSE
        BY <1>0 DEF LoadOK
      <3>1. pc = "idle" /\ ~Booting
        BY LoadAlone
      <3>2. pc # "idle"
        BY <1>Run, <3>1, CallEffects DEF Run, BlockInv
      <3> QED
        BY <3>1, <3>2
    <2>2. \A t \in Tasks : task'[t] = task[t] \/ (task[t].at = "busy" /\ task'[t] = AfterCall(task[t]))
      BY <1>0, <1>Run DEF Run, CallsOK
    <2>3. ASSUME NEW t \in Tasks PROVE task'[t].op # "gc" /\ LoadOK(task'[t], Contents', map')
      <3>1. CASE task'[t] = task[t]
        BY <1>0, <2>1, <3>1, IndexAddr DEF LoadOK
      <3>2. CASE task[t].at = "busy" /\ task'[t] = AfterCall(task[t])
        <4>1. task'[t].op \in {task[t].op, "none"} /\ task[t].op # "load" /\ task[t].op # "gc"
          BY <1>0, <2>1, <3>2, AfterCallOK
        <4> QED
          BY <4>1 DEF LoadOK
      <3> QED
        BY <2>2, <3>1, <3>2
    <2> QED
      BY <2>3 DEF LoadsInv
  <1>Failures. ~Failures
    BY DEF Failures, OpenFails, CopyFails, EraseFails, MarkFails
  <1>Stutter. CASE UNCHANGED allVars
    <2>1. flash' = flash /\ map' = map /\ task' = task
      BY <1>Stutter DEF allVars, clientVars, vars, ram
    <2> QED
      BY <2>1, SameFlash DEF LoadsInv
  <1> QED
    BY <1>CallSave, <1>CallLoad, <1>GetMutex, <1>MutexTimeout, <1>PutMutex, <1>WriteWord,
       <1>Collect, <1>ReadEntry, <1>ReadKey, <1>ReadData, <1>Run, <1>Failures, <1>Stutter
       DEF ClientNext, Calls, Go

LEMMA LoadsInvariant ==
    ASSUME ~MarksFail, GcBelow, Collectors = {} PROVE ClientSpec => [](BlockInv /\ LoadsInv)
  <1>1. ClientInit => LoadsInv
    BY DEF ClientInit, LoadsInv, LoadOK, Ready
  <1>2. BlockInv /\ BlockInv' /\ LoadsInv /\ [ClientNext]_allVars => LoadsInv'
    BY LoadsStep
  <1> QED
    BY <1>1, <1>2, BlockInvariant, PTL DEF ClientSpec

\* "return 0 success" of ftl_load_from_storage, for any number of tasks and any
\* block: without a task that collects beside it, a load that reports success
\* has read, word by word and without ftl_sem, what the flash holds.
THEOREM LoadsReturnBlock ==
    ASSUME ~MarksFail, GcBelow, Collectors = {} PROVE ClientSpec => []LoadReturnsBlock
  <1>1. BlockInv /\ LoadsInv => LoadReturnsBlock
    <2> SUFFICES ASSUME LoadsInv, NEW t \in Tasks, task[t].op = "load", task[t].at = "unlock", task[t].ok
                 PROVE  task[t].got = Block
      BY DEF LoadReturnsBlock
    <2>1. /\ task[t].got = [i \in Index |-> task[t].got[i]]
          /\ \A i \in Index : task[t].got[i] = Contents[i]
      BY IndexAddr DEF LoadsInv, LoadOK
    <2> QED
      BY <2>1 DEF Block
  <1> QED
    BY <1>1, LoadsInvariant, PTL

\* And what it returns is one save: although saves write and loads read word by
\* word, no load returns words of two saves.
THEOREM LoadsAreOneSave ==
    ASSUME ~MarksFail, GcBelow, Collectors = {} PROVE ClientSpec => []LoadIsOneSave
  <1>1. BlockInv /\ LoadsInv => LoadIsOneSave
    <2> SUFFICES ASSUME BlockInv, LoadsInv,
                        NEW t \in Tasks, task[t].op = "load", task[t].at = "unlock", task[t].ok
                 PROVE  \E v \in Values : \A i \in Index : task[t].got[i] = v
      BY DEF LoadIsOneSave
    <2>1. \A i \in Index : map[i] # 0 /\ task[t].got[i] = Contents[i]
      BY IndexAddr DEF LoadsInv, LoadOK
    <2>2. Whole(Contents, map) /\ 0 \in Index
      BY LoadAlone, IndexAddr DEF Index
    <2> QED
      BY <2>1, <2>2 DEF Whole
  <1> QED
    BY <1>1, LoadsInvariant, PTL

-----------------------------------------------------------------------------
(* The types of what the tasks keep.                                        *)

Record == [op : {"none", "save", "load", "gc"}, at : Places, word : 0 .. Words,
           val : Values \cup {Blank}, pair : Entry, got : [Index -> Word], ok : BOOLEAN]

\* A load that is about to read a pair means two cells of flash.
RecordOK(r) ==
    /\ r \in Record
    /\ r.at \in {"key", "data"} => EntryPage(r.pair) \in Pages /\ EntryCell(r.pair) \in Cells

TypesInv ==
    /\ mutex \in Tasks \cup {NoTask} /\ sem \in Tasks \cup {NoTask}
    /\ leaked \in BOOLEAN
    /\ \A t \in Tasks : RecordOK(task[t])

LEMMA RecordTypes ==
    /\ 0 \in Entry /\ 0 \in 0 .. Words /\ Blank \in Word
    /\ RecordOK(Ready)
    /\ \A v \in Values : RecordOK([Ready EXCEPT !.op = "save", !.at = "lock", !.val = v])
    /\ RecordOK([Ready EXCEPT !.op = "load", !.at = "lock"])
    /\ RecordOK([Ready EXCEPT !.op = "gc", !.at = "word"])
  <1>1. 0 \in Entry
    <2>1. 0 \in Addr
      BY IndexAddr DEF Index
    <2>2. EmptyMap[0] = 0
      BY <2>1 DEF EmptyMap
    <2> QED
      BY <2>1, <2>2, EmptyMapType
  <1>2. 0 \in 0 .. Words /\ Blank \in Word
    BY IndexAddr DEF Word
  <1>3. [i \in Index |-> Blank] \in [Index -> Word]
    BY <1>2
  <1>4. ASSUME NEW op \in {"none", "save", "load", "gc"}, NEW at \in {"ready", "lock", "word"},
               NEW v \in Values \cup {Blank}
        PROVE  RecordOK([op |-> op, at |-> at, word |-> 0, val |-> v, pair |-> 0,
                         got |-> [i \in Index |-> Blank], ok |-> TRUE])
    <2> DEFINE g == [i \in Index |-> Blank]
    <2>1. g \in [Index -> Word]
      BY <1>3
    <2> HIDE DEF g
    <2>2. /\ RecordOK([op |-> op, at |-> at, word |-> 0, val |-> v, pair |-> 0, got |-> g, ok |-> TRUE])
      BY <1>1, <1>2, <2>1 DEF RecordOK, Record, Places
    <2> QED
      BY <2>2 DEF g
  <1>5. Ready = [op |-> "none", at |-> "ready", word |-> 0, val |-> Blank, pair |-> 0,
                 got |-> [i \in Index |-> Blank], ok |-> TRUE]
    BY DEF Ready
  <1>6. RecordOK(Ready)
    BY <1>4, <1>5
  <1>7. ASSUME NEW v \in Values
        PROVE  RecordOK([Ready EXCEPT !.op = "save", !.at = "lock", !.val = v])
    BY <1>6 DEF RecordOK, Record, Places
  <1>8. RecordOK([Ready EXCEPT !.op = "load", !.at = "lock"])
    BY <1>6 DEF RecordOK, Record, Places
  <1>9. RecordOK([Ready EXCEPT !.op = "gc", !.at = "word"])
    BY <1>6 DEF RecordOK, Record, Places
  <1> QED
    BY <1>1, <1>2, <1>6, <1>7, <1>8, <1>9

LEMMA RecordMoves ==
    ASSUME NEW r, RecordOK(r)
    PROVE  /\ RecordOK(Fail(r))
           /\ \A at \in {"word", "busy"} : RecordOK([r EXCEPT !.at = at])
           /\ r.at = "key" => RecordOK([r EXCEPT !.at = "data"])
           /\ r.word \in Index => RecordOK(NextWord(r))
           /\ r.at = "busy" /\ r.word \in Index => RecordOK(AfterCall(r))
           /\ \A e \in Entry : EntryPage(e) \in Pages /\ EntryCell(e) \in Cells =>
                RecordOK([r EXCEPT !.pair = e, !.at = "key"])
           /\ \A g \in [Index -> Word] :
                r.word \in Index => RecordOK(NextWord([r EXCEPT !.pair = 0, !.got = g]))
  <1>1. /\ RecordOK(Fail(r))
        /\ \A at \in {"word", "busy"} : RecordOK([r EXCEPT !.at = at])
        /\ r.at = "key" => RecordOK([r EXCEPT !.at = "data"])
    BY DEF RecordOK, Record, Places, Fail
  <1>2. ASSUME NEW s, RecordOK(s), s.word \in Index PROVE RecordOK(NextWord(s))
    <2>1. s.word + 1 \in 0 .. Words
      BY <1>2, IndexAddr DEF Index
    <2> DEFINE at == IF s.word + 1 < Words THEN "word" ELSE "unlock"
               w == s.word + 1
    <2>2. at \in {"word", "unlock"} /\ w \in 0 .. Words
      BY <2>1
    <2> HIDE DEF at, w
    <2>3. RecordOK([s EXCEPT !.word = w, !.at = at])
      BY <1>2, <2>2 DEF RecordOK, Record, Places
    <2> QED
      BY <2>3 DEF NextWord, at, w
  <1>3. r.at = "busy" /\ r.word \in Index => RecordOK(AfterCall(r))
    BY <1>2, RecordTypes DEF AfterCall
  <1>4. ASSUME NEW e \in Entry, EntryPage(e) \in Pages, EntryCell(e) \in Cells
        PROVE  RecordOK([r EXCEPT !.pair = e, !.at = "key"])
    BY <1>4 DEF RecordOK, Record, Places
  <1>5. ASSUME NEW g \in [Index -> Word], r.word \in Index
        PROVE  RecordOK(NextWord([r EXCEPT !.pair = 0, !.got = g]))
    <2> DEFINE at == IF r.word + 1 < Words THEN "word" ELSE "unlock"
               w == r.word + 1
               s == [r EXCEPT !.pair = 0, !.got = g]
    <2>1. at \in {"word", "unlock"} /\ w \in 0 .. Words
      BY <1>5, IndexAddr DEF Index
    <2>2. s \in Record /\ s.word = r.word
      BY RecordTypes DEF RecordOK, Record
    <2>3. NextWord(s) = [s EXCEPT !.word = w, !.at = at]
      BY <2>2 DEF NextWord
    <2> HIDE DEF at, w, s
    <2>4. RecordOK([s EXCEPT !.word = w, !.at = at])
      BY <2>1, <2>2 DEF RecordOK, Record, Places
    <2> QED
      BY <2>3, <2>4 DEF s
  <1> QED
    BY <1>1, <1>2, <1>3, <1>4, <1>5

\* Every step of the tasks keeps the types.
LEMMA TypesStep ==
    ASSUME ~MarksFail, BlockInv, TypesInv, [ClientNext]_allVars
    PROVE  TypesInv'
  <1>0. /\ task = [t \in Tasks |-> task[t]] /\ \A t \in Tasks : CallOK(task[t])
        /\ \A t \in Tasks : RecordOK(task[t])
        /\ \A t \in Tasks : task[t].at # "ready" => ~Booting
    BY DEF BlockInv, CallInv, CallsOK, SavesInv, TypesInv
  <1>m. ASSUME NEW t \in Tasks, NEW r, Moves(t, r), RecordOK(r), leaked' = leaked,
               mutex' \in {mutex, t, NoTask}, sem' \in {sem, t}
        PROVE  TypesInv'
    <2>1. \A u \in Tasks : RecordOK(task'[u])
      BY <1>0, <1>m DEF Moves
    <2> QED
      BY <1>m, <2>1 DEF TypesInv
  <1>CallSave. ASSUME NEW t \in Savers, NEW v \in Values, CallSave(t, v) PROVE TypesInv'
    <2>1. Moves(t, [Ready EXCEPT !.op = "save", !.at = "lock", !.val = v]) /\ t \in Tasks
      BY <1>CallSave, TaskAssumption DEF CallSave, Moves
    <2> QED
      BY <1>m, <1>CallSave, <2>1, RecordTypes DEF CallSave
  <1>CallLoad. ASSUME NEW t \in Loaders, CallLoad(t) PROVE TypesInv'
    <2>1. Moves(t, [Ready EXCEPT !.op = "load", !.at = "lock"]) /\ t \in Tasks
      BY <1>CallLoad, TaskAssumption DEF CallLoad, Moves
    <2> QED
      BY <1>m, <1>CallLoad, <2>1, RecordTypes DEF CallLoad
  <1>CallCollect. ASSUME NEW t \in Collectors, CallCollect(t) PROVE TypesInv'
    <2>1. Moves(t, [Ready EXCEPT !.op = "gc", !.at = "word"]) /\ t \in Tasks
      BY <1>CallCollect, TaskAssumption DEF CallCollect, Moves
    <2> QED
      BY <1>m, <1>CallCollect, <2>1, RecordTypes DEF CallCollect
  <1>Goto. ASSUME NEW t \in Tasks, NEW at \in {"word", "busy"}, Goto(t, at), leaked' = leaked,
                  mutex' \in {mutex, t, NoTask}, sem' \in {sem, t}
           PROVE  TypesInv'
    <2>1. Moves(t, [task[t] EXCEPT !.at = at])
      BY <1>Goto DEF Goto, Moves
    <2> QED
      BY <1>0, <1>m, <1>Goto, <2>1, RecordMoves
  <1>Ready. ASSUME NEW t \in Tasks, task' = [task EXCEPT ![t] = Ready], leaked' = leaked,
                   mutex' \in {mutex, NoTask}, sem' = sem
            PROVE  TypesInv'
    BY <1>m, <1>Ready, RecordTypes DEF Moves
  <1>GetMutex. ASSUME NEW t \in Tasks, GetMutex(t) PROVE TypesInv'
    BY <1>Goto, <1>GetMutex DEF GetMutex
  <1>MutexTimeout. ASSUME NEW t \in Tasks, MutexTimeout(t) PROVE TypesInv'
    BY <1>Ready, <1>MutexTimeout DEF MutexTimeout
  <1>PutMutex. ASSUME NEW t \in Tasks, PutMutex(t) PROVE TypesInv'
    BY <1>Ready, <1>PutMutex DEF PutMutex
  <1>WriteWord. ASSUME NEW t \in Tasks, WriteWord(t) PROVE TypesInv'
    BY <1>Goto, <1>WriteWord DEF WriteWord
  <1>StartCollect. ASSUME NEW t \in Tasks, NEW g \in GcCalls, StartCollect(t, g) PROVE TypesInv'
    BY <1>Goto, <1>StartCollect DEF StartCollect
  <1>SkipCollect. ASSUME NEW t \in Tasks, NEW g \in GcCalls, SkipCollect(t, g) PROVE TypesInv'
    BY <1>Ready, <1>SkipCollect DEF SkipCollect
  <1>ReadEntry. ASSUME NEW t \in Tasks, ReadEntry(t) PROVE TypesInv'
    <2> DEFINE e == map[task[t].word]
               r == IF e = 0 THEN Fail(task[t])
                    ELSE [task[t] EXCEPT !.pair = e, !.at = "key"]
    <2>1. /\ Moves(t, r) /\ mutex' = mutex /\ sem' = sem /\ leaked' = leaked
          /\ task[t].op = "load" /\ task[t].at = "word"
      BY <1>ReadEntry DEF ReadEntry, Moves
    <2>2. task[t].word \in Addr /\ ~Booting
      BY <1>0, <2>1, IndexAddr DEF CallOK
    <2>3. /\ TypeInv /\ KeepInv /\ Booted
      BY <2>2 DEF BlockInv, Booting, QuietInv, Booted
    <2>4. e \in Entry
      BY <2>2, <2>3 DEF TypeInv, TypeOK
    <2>5. e # 0 => EntryPage(e) \in Pages /\ EntryCell(e) \in Cells
      BY <2>2, <2>3, MappedPair DEF MapPage, MapCell
    <2> HIDE DEF e
    <2>6. RecordOK(r)
      BY <1>0, <2>4, <2>5, RecordMoves
    <2> HIDE DEF r
    <2> QED
      BY <1>m, <2>1, <2>6
  <1>ReadKey. ASSUME NEW t \in Tasks, ReadKey(t) PROVE TypesInv'
    <2> DEFINE w == flash[EntryPage(task[t].pair)].word[EntryCell(task[t].pair) + 1]
               r == IF w = Key(task[t].word) THEN [task[t] EXCEPT !.at = "data"]
                    ELSE Fail(task[t])
    <2>1. /\ Moves(t, r) /\ mutex' = mutex /\ sem' = sem /\ leaked' = leaked
          /\ task[t].at = "key"
      BY <1>ReadKey DEF ReadKey, Moves
    <2> HIDE DEF w
    <2>2. RecordOK(r)
      BY <1>0, <2>1, RecordMoves
    <2> HIDE DEF r
    <2> QED
      BY <1>m, <2>1, <2>2
  <1>ReadData. ASSUME NEW t \in Tasks, ReadData(t) PROVE TypesInv'
    <2> DEFINE w == flash[EntryPage(task[t].pair)].word[EntryCell(task[t].pair)]
               g == [task[t].got EXCEPT ![task[t].word] = w]
               r == NextWord([task[t] EXCEPT !.pair = 0, !.got = g])
    <2>1. /\ Moves(t, r) /\ mutex' = mutex /\ sem' = sem /\ leaked' = leaked
          /\ task[t].at = "data"
      BY <1>ReadData DEF ReadData, Moves
    <2>2. EntryPage(task[t].pair) \in Pages /\ EntryCell(task[t].pair) \in Cells
      BY <1>0, <2>1 DEF RecordOK
    <2>3. w \in Word
      BY <2>2 DEF BlockInv, TypeInv, TypeOK, Page
    <2>4. /\ task[t].got \in [Index -> Word] /\ task[t].word \in Index
          /\ task[t].op \in {"none", "save", "load", "gc"}
      BY <1>0, <2>1 DEF RecordOK, Record, CallOK
    <2> HIDE DEF w
    <2>5. g \in [Index -> Word]
      BY <2>3, <2>4
    <2> HIDE DEF g
    <2>6. RecordOK(r)
      BY <1>0, <2>4, <2>5, RecordMoves
    <2> HIDE DEF r
    <2> QED
      BY <1>m, <2>1, <2>6
  <1>Run. CASE Run
    <2>1. sem' \in {sem, NoTask} /\ mutex' = mutex /\ leaked' = leaked
      BY <1>Run DEF Run, GiveSem
    <2>2. \A t \in Tasks : task'[t] = task[t] \/ (task[t].at = "busy" /\ task'[t] = AfterCall(task[t]))
      BY <1>0, <1>Run DEF Run
    <2>3. ASSUME NEW t \in Tasks, task[t].at = "busy" PROVE RecordOK(AfterCall(task[t]))
      <3>1. CASE task[t].op = "gc"
        BY <3>1, RecordTypes DEF AfterCall
      <3>2. CASE task[t].op # "gc"
        BY <1>0, <2>3, <3>2, RecordMoves DEF CallOK
      <3> QED
        BY <3>1, <3>2
    <2>4. \A t \in Tasks : RecordOK(task'[t])
      BY <1>0, <2>2, <2>3
    <2> QED
      BY <2>1, <2>4 DEF TypesInv
  <1>Failures. ~Failures
    BY DEF Failures, OpenFails, CopyFails, EraseFails, MarkFails
  <1>Stutter. CASE UNCHANGED allVars
    BY <1>Stutter DEF allVars, clientVars, TypesInv
  <1> QED
    BY <1>CallSave, <1>CallLoad, <1>CallCollect, <1>GetMutex, <1>MutexTimeout, <1>PutMutex,
       <1>WriteWord, <1>StartCollect, <1>SkipCollect, <1>ReadEntry, <1>ReadKey, <1>ReadData,
       <1>Run, <1>Failures, <1>Stutter DEF ClientNext, Calls, Go

\* Type correctness below any tasks: every pair a load is about to read means
\* two cells of flash, and every word counter stays in its block.
THEOREM ClientsTypeCorrect == ASSUME ~MarksFail, GcBelow PROVE ClientSpec => []ClientTypeOK
  <1>1. ClientInit => TypesInv
    BY RecordTypes DEF ClientInit, TypesInv
  <1>2. BlockInv /\ TypesInv /\ [ClientNext]_allVars => TypesInv'
    BY TypesStep
  <1>3. BlockInv /\ TypesInv => ClientTypeOK
    <2> SUFFICES ASSUME BlockInv, TypesInv PROVE ClientTypeOK
      OBVIOUS
    <2>1. task = [t \in Tasks |-> task[t]] /\ \A t \in Tasks : task[t] \in Record
      BY DEF BlockInv, CallInv, CallsOK, TypesInv, RecordOK
    <2>2. task \in [Tasks -> Record]
      BY <2>1
    <2> QED
      BY <2>2 DEF BlockInv, TypeInv, TypesInv, ClientTypeOK, Record
  <1> QED
    BY <1>1, <1>2, <1>3, BlockInvariant, PTL DEF ClientSpec
=============================================================================
