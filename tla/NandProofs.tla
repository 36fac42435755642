------------------------------ MODULE NandProofs ------------------------------
(***************************************************************************)
(* Proofs about Nand, for every size of the flash, every number of         *)
(* failures and every number of power losses.                              *)
(***************************************************************************)
EXTENDS Nand, TLAPS, FiniteSetTheorems

(* The remap blocks a table names are named once.                          *)
Injective(t) == \A b, c \in Block : b # c /\ t[b] \in Reserve => t[b] # t[c]

(* While bbm_update_table writes a copy it still has one to write.         *)
Counting == run.tables /\ run.at # "tables" => run.copies < 2 /\ run.tb < NTables

Inv == /\ TypeOK /\ Counting
       /\ Injective(table)
       /\ \A b \in TableBlocks : Injective(copy[b])

-----------------------------------------------------------------------------
(* The sets the constants define.                                          *)
LEMMA Sets ==
    /\ User \subseteq Block /\ Reserve \subseteq Block /\ TableBlocks \subseteq Block
    /\ User \cap Reserve = {}
    /\ Good \notin Block /\ NoRemap \notin Block /\ Good # NoRemap
    /\ 0 \in User /\ 0 \in Page
    /\ \A i \in 0 .. NTables - 1 : TableBlock(i) \in TableBlocks
    /\ \A i \in 0 .. NTables : i < NTables => TableBlock(i) \in TableBlocks
BY NandConstants DEF User, Reserve, TableBlocks, TableBlock, Block, Good, NoRemap, Page

LEMMA PageContents ==
    /\ BlankBlock \in [Page -> Content]
    /\ NoPromise \in [Page -> Values \cup {Blank, Unknown}]
    /\ BlankBlock \in [Page -> Values \cup {Blank, Unknown}]
BY DEF BlankBlock, NoPromise, Content

LEMMA FreshType ==
    ASSUME NEW at \in Places
    PROVE  Fresh(at) \in RunType /\ Fresh(at).tables = FALSE /\ Fresh(at).at = at
BY Sets, NandConstants DEF Fresh, RunType

(* The continuations keep the registers in their types.                    *)
LEMMA AfterFindType ==
    ASSUME NEW r \in RunType, NEW ok \in BOOLEAN, NEW b \in Block, call \in CallType
    PROVE  AfterFind(r, ok, b) \in RunType /\ AfterFind(r, ok, b).tables = FALSE
BY DEF AfterFind, Returns, RunType, CallType, Places

LEMMA AfterTablesType ==
    ASSUME NEW r \in RunType, call \in CallType
    PROVE  AfterTables(r) \in RunType /\ AfterTables(r).tables = FALSE
<1>1. CASE call.op = "init"
  BY <1>1 DEF AfterTables, RunType, Places
<1>2. CASE call.op # "init"
  BY <1>2, AfterFindType DEF AfterTables, RunType
<1> QED BY <1>1, <1>2

LEMMA AfterWriteType ==
    ASSUME NEW r \in RunType, NEW ok \in BOOLEAN,
           r.tables => r.copies < 2 /\ r.tb < NTables
    PROVE  /\ AfterWrite(r, ok) \in RunType
           /\ AfterWrite(r, ok).tables => AfterWrite(r, ok).at = "tables"
<1>1. CASE r.tables
  <2>1. r.tb + 1 \in 0 .. NTables /\ r.copies + 1 \in 0 .. 2
    BY <1>1, NandConstants DEF RunType
  <2> QED BY <1>1, <2>1 DEF AfterWrite, RunType, Places
<1>2. CASE ~r.tables
  <2>1. r.tries + 1 # MaxRetry => r.tries + 1 \in 0 .. MaxRetry - 1
    BY NandConstants DEF RunType
  <2> QED BY <1>2, <2>1 DEF AfterWrite, Returns, RunType, Places
<1> QED BY <1>1, <1>2 DEF RunType

LEMMA ToTablesType ==
    ASSUME NEW r \in RunType
    PROVE  ToTables(r) \in RunType /\ ToTables(r).at = "tables"
<1>1. /\ 0 \in 0 .. NTables /\ 0 \in 0 .. 2 /\ "tables" \in Places
      /\ TRUE \in BOOLEAN
  BY NandConstants DEF Places
<1>2. ToTables(r) \in RunType
  BY <1>1 DEF ToTables, RunType
<1>3. ToTables(r).at = "tables"
  BY DEF ToTables, RunType
<1> QED BY <1>2, <1>3

(* A flash operation keeps the flash in its type.                          *)
LEMMA FlashStep ==
    ASSUME TypeOK, NEW b \in Block, NEW p \in Page, NEW v \in Content,
           \/ EraseWorks(b) \/ EraseFails
           \/ ProgramWorks(b, p, v) \/ ProgramFails(b, p, v)
    PROVE  /\ flash' \in [Block -> [Page -> Content]] /\ tagged' \subseteq Block
           /\ copy' \in [TableBlocks -> TableType]
           /\ faults' \in 0 .. MaxFaults
           /\ \/ copy' = copy
              \/ \E c \in TableBlocks : copy' = [copy EXCEPT ![c] = table]
<1> USE DEF TypeOK
<1>1. CASE EraseWorks(b)
  BY <1>1, PageContents DEF EraseWorks
<1>2. CASE EraseFails
  BY <1>2, NandConstants DEF EraseFails, Fault, flashVars
<1>3. CASE ProgramWorks(b, p, v)
  BY <1>3 DEF ProgramWorks
<1>4. CASE ProgramFails(b, p, v)
  BY <1>4, NandConstants DEF ProgramFails, Fault, Content
<1> QED BY <1>1, <1>2, <1>3, <1>4

-----------------------------------------------------------------------------
LEMMA InitInv == Init => Inv
<1> SUFFICES ASSUME Init PROVE Inv
  OBVIOUS
<1> USE DEF Init
<1>1. TypeOK
  <2>1. NoCall \in CallType
    BY Sets, NandConstants DEF NoCall, CallType
  <2>2. Empty \in TableType
    BY DEF Empty, TableType
  <2> QED BY <2>1, <2>2, Sets, PageContents, FreshType, NandConstants
        DEF TypeOK, Places
<1>2. Counting
  BY FreshType DEF Counting, Places
<1>3. Injective(Empty)
  BY Sets DEF Injective, Empty
<1> QED BY <1>1, <1>2, <1>3 DEF Inv

(* What a step leaves alone stays typed: each action's proof cites the     *)
(* conjuncts it changes.                                                   *)
LEMMA LookupSteps ==
    ASSUME Inv, Find
    PROVE  Inv'
<1> USE Sets DEF Inv, Find
<1>0. /\ run \in RunType /\ call \in CallType /\ table \in TableType
      /\ call.block \in Block /\ call.block \in User /\ run.target \in Block
  BY DEF TypeOK, RunType, CallType
<1>1. CASE FindGood
  <2>1. run' \in RunType /\ run'.tables = FALSE
    BY <1>0, <1>1, AfterFindType DEF FindGood, Found
  <2> QED BY <1>1, <2>1 DEF FindGood, Found, flashVars, TypeOK, Counting
<1>2. CASE FindRemap
  <2>1. PICK r \in Reserve : run' = AfterFind([run EXCEPT !.target = r], TRUE, r)
    BY <1>2 DEF FindRemap, Found
  <2>2. [run EXCEPT !.target = r] \in RunType
    BY <1>0 DEF RunType
  <2>3. run' \in RunType /\ run'.tables = FALSE
    BY <1>0, <2>1, <2>2, AfterFindType
  <2> QED BY <1>2, <2>3 DEF FindRemap, Found, flashVars, TypeOK, Counting
<1>3. CASE FindFirst
  <2>1. PICK r \in Reserve :
            /\ FirstFree(r)
            /\ table' = [table EXCEPT ![call.block] = r]
            /\ run' = ToTables([run EXCEPT !.target = r])
    BY <1>3 DEF FindFirst
  <2>2. [run EXCEPT !.target = r] \in RunType
    BY <1>0 DEF RunType
  <2>3. run' \in RunType /\ run'.at = "tables"
    BY <2>1, <2>2, ToTablesType
  <2>4. table' \in TableType /\ Injective(table')
    BY <1>0, <2>1 DEF TableType, Injective, FirstFree, FreeBlocks, IsRemap
  <2> QED BY <1>3, <2>3, <2>4 DEF FindFirst, flashVars, TypeOK, Counting
<1>4. CASE FindAnother
  <2>1. PICK r \in Reserve :
            /\ FirstFree(r)
            /\ table' = [table EXCEPT ![call.block] = r]
            /\ run' = AfterFind([run EXCEPT !.target = r], TRUE, r)
    BY <1>4 DEF FindAnother, Found
  <2>2. [run EXCEPT !.target = r] \in RunType
    BY <1>0 DEF RunType
  <2>3. run' \in RunType /\ run'.tables = FALSE
    BY <1>0, <2>1, <2>2, AfterFindType
  <2>4. table' \in TableType /\ Injective(table')
    BY <1>0, <2>1 DEF TableType, Injective, FirstFree, FreeBlocks, IsRemap
  <2> QED BY <1>4, <2>3, <2>4 DEF FindAnother, Found, flashVars, TypeOK, Counting
<1>5. CASE FindNone
  <2>1. run' \in RunType /\ run'.tables = FALSE
    BY <1>0, <1>5, AfterFindType DEF FindNone
  <2>2. kept' \in [User -> [at : Block \cup {NoRemap},
                           data : [Page -> Values \cup {Blank, Unknown}]]]
    BY <1>5, PageContents DEF FindNone, TypeOK
  <2> QED BY <1>5, <2>1, <2>2 DEF FindNone, flashVars, TypeOK, Counting
<1> QED BY <1>1, <1>2, <1>3, <1>4, <1>5

(* After a flash operation, or one that may be left out, the table copies  *)
(* are still injective.                                                    *)
LEMMA CopiesInjective ==
    ASSUME Inv, \/ copy' = copy
                \/ \E c \in TableBlocks : copy' = [copy EXCEPT ![c] = table]
    PROVE  \A b \in TableBlocks : Injective(copy'[b])
BY DEF Inv, TypeOK

LEMMA WriteSteps ==
    ASSUME Inv, Look \/ Direct \/ Erase \/ Program \/ Programmed
    PROVE  Inv'
<1> USE Sets DEF Inv
<1>0. /\ run \in RunType /\ call \in CallType /\ run.blk \in Block
      /\ ThePage \in Page /\ TheValue \in Content
  BY DEF TypeOK, RunType, CallType, ThePage, TheValue, Content
<1>1. CASE Look
  <2>1. run' \in RunType /\ run' = [run EXCEPT !.at = run'.at]
    BY <1>0, <1>1 DEF Look, RunType, Places
  <2>2. buf' \in [Page -> Content]
    BY <1>0, <1>1 DEF Look, TypeOK
  <2>3. Counting'
    BY <1>0, <1>1, <2>1 DEF Look, Counting, RunType
  <2> QED BY <1>1, <2>1, <2>2, <2>3 DEF Look, flashVars, TypeOK
<1>2. CASE Direct
  <2>1. \/ ProgramWorks(run.blk, ThePage, TheValue)
        \/ ProgramFails(run.blk, ThePage, TheValue)
    BY <1>2 DEF Direct
  <2>2. /\ flash' \in [Block -> [Page -> Content]] /\ tagged' \subseteq Block
        /\ copy' \in [TableBlocks -> TableType] /\ faults' \in 0 .. MaxFaults
        /\ \A b \in TableBlocks : Injective(copy'[b])
    BY <1>0, <2>1, FlashStep, CopiesInjective
  <2>3. buf' \in [Page -> Content]
    <3>1. flash[run.blk] \in [Page -> Content] /\ buf \in [Page -> Content]
      BY <1>0 DEF TypeOK
    <3>2. buf' = buf \/ buf' = [flash[run.blk] EXCEPT ![ThePage] = TheValue]
      BY <1>2 DEF Direct
    <3> QED BY <1>0, <3>1, <3>2
  <2>4. run' \in RunType /\ Counting'
    <3>1. CASE run' = AfterWrite(run, TRUE)
      BY <1>0, <1>2, <3>1, AfterWriteType DEF Direct, Counting
    <3>2. CASE run' = [run EXCEPT !.at = "mark"]
      BY <1>0, <1>2, <3>2 DEF Direct, Counting, RunType, Places
    <3> QED BY <1>2, <3>1, <3>2 DEF Direct
  <2> QED BY <1>2, <2>2, <2>3, <2>4 DEF Direct, TypeOK
<1>3. CASE Erase
  <2>1. EraseWorks(run.blk) \/ EraseFails
    BY <1>3 DEF Erase
  <2>2. /\ flash' \in [Block -> [Page -> Content]] /\ tagged' \subseteq Block
        /\ copy' \in [TableBlocks -> TableType] /\ faults' \in 0 .. MaxFaults
        /\ \A b \in TableBlocks : Injective(copy'[b])
    BY <1>0, <2>1, FlashStep, CopiesInjective
  <2>3. 0 \in 0 .. NPages /\ "program" \in Places
    BY NandConstants DEF Places
  <2>4. run' = [run EXCEPT !.at = "program", !.todo = 0] /\ run.at = "erase"
    BY <1>3 DEF Erase
  <2>5. run' \in RunType
    BY <1>0, <2>3, <2>4 DEF RunType
  <2>6. Counting'
    BY <1>0, <2>4 DEF Counting, RunType
  <2> QED BY <1>3, <2>2, <2>5, <2>6 DEF Erase, TypeOK
<1>4. CASE Program
  <2>0. run.todo \in Page /\ run.todo + 1 \in 0 .. NPages /\ buf[run.todo] \in Content
    BY <1>0, <1>4, NandConstants DEF Program, RunType, Page, TypeOK
  <2>1. \/ UNCHANGED <<flash, tagged, copy, faults>>
        \/ ProgramWorks(run.blk, run.todo, buf[run.todo])
        \/ ProgramFails(run.blk, run.todo, buf[run.todo])
    BY <1>4 DEF Program, flashVars
  <2>2. /\ flash' \in [Block -> [Page -> Content]] /\ tagged' \subseteq Block
        /\ copy' \in [TableBlocks -> TableType] /\ faults' \in 0 .. MaxFaults
        /\ \A b \in TableBlocks : Injective(copy'[b])
    <3>1. CASE UNCHANGED <<flash, tagged, copy, faults>>
      BY <3>1 DEF TypeOK
    <3>2. CASE ~ UNCHANGED <<flash, tagged, copy, faults>>
      BY <1>0, <2>0, <2>1, <3>2, FlashStep, CopiesInjective
    <3> QED BY <3>1, <3>2
  <2>3. /\ run.at = "program" /\ "mark" \in Places
        /\ \/ run' = [run EXCEPT !.todo = run.todo + 1]
           \/ run' = [run EXCEPT !.at = "mark"]
    BY <1>4 DEF Program, Places
  <2>4. run' \in RunType
    BY <1>0, <2>0, <2>3 DEF RunType
  <2>5. Counting'
    BY <1>0, <2>3 DEF Counting, RunType
  <2> QED BY <1>4, <2>2, <2>4, <2>5 DEF Program, TypeOK
<1>5. CASE Programmed
  <2>1. run' \in RunType /\ Counting'
    BY <1>0, <1>5, AfterWriteType DEF Programmed, Counting
  <2> QED BY <1>5, <2>1 DEF Programmed, flashVars, TypeOK
<1> QED BY <1>1, <1>2, <1>3, <1>4, <1>5

(* bbm_mark_bad_block and bbm_update_table.                                *)
LEMMA TableSteps ==
    ASSUME Inv, Mark \/ Tag \/ Tables
    PROVE  Inv'
<1> USE Sets DEF Inv
<1>0. /\ run \in RunType /\ call \in CallType /\ run.blk \in Block
      /\ table \in TableType
  BY DEF TypeOK, RunType
<1>1. CASE Mark
  <2>1. CASE IsBad(run.blk)
    <3>1. run' \in RunType /\ Counting'
      BY <1>0, <1>1, <2>1, AfterWriteType DEF Mark, Counting
    <3> QED BY <1>1, <2>1, <3>1 DEF Mark, flashVars, TypeOK
  <2>2. CASE ~IsBad(run.blk)
    <3>1. EraseWorks(run.blk) \/ EraseFails
      BY <1>1, <2>2 DEF Mark
    <3>2. /\ flash' \in [Block -> [Page -> Content]] /\ tagged' \subseteq Block
          /\ copy' \in [TableBlocks -> TableType] /\ faults' \in 0 .. MaxFaults
          /\ \A b \in TableBlocks : Injective(copy'[b])
      BY <1>0, <3>1, FlashStep, CopiesInjective, Sets DEF Content
    <3>3. table' = [table EXCEPT ![run.blk] = NoRemap]
      BY <1>1, <2>2 DEF Mark
    <3>4. table' \in TableType /\ Injective(table')
      BY <1>0, <3>3 DEF TableType, Injective
    <3>5. run' = [run EXCEPT !.at = "tag"] /\ run.at = "mark" /\ "tag" \in Places
      BY <1>1, <2>2 DEF Mark, Places
    <3>6. run' \in RunType /\ Counting'
      BY <1>0, <3>5 DEF RunType, Counting
    <3> QED BY <1>1, <3>2, <3>4, <3>6 DEF Mark, TypeOK
  <2> QED BY <2>1, <2>2
<1>2. CASE Tag
  <2>1. run' \in RunType /\ Counting'
    BY <1>0, <1>2, AfterWriteType DEF Tag, Counting
  <2>2. /\ tagged' \subseteq Block /\ faults' \in 0 .. MaxFaults
        /\ flash' = flash /\ copy' = copy
    BY <1>0, <1>2, NandConstants DEF Tag, EraseFails, Fault, flashVars, TypeOK
  <2> QED BY <1>2, <2>1, <2>2 DEF Tag, TypeOK
<1>3. CASE Tables
  <2>0. UNCHANGED <<flash, tagged, copy, table, buf, call, faults, crashes, kept>>
    BY <1>3 DEF Tables, flashVars
  <2>1. CASE run.copies = 2 \/ run.tb = NTables
    <3>1. run' = AfterTables(run)
      BY <1>3, <2>1 DEF Tables
    <3>2. run' \in RunType /\ run'.tables = FALSE
      BY <1>0, <3>1, AfterTablesType
    <3> QED BY <2>0, <3>2 DEF TypeOK, Counting
  <2>2. CASE ~(run.copies = 2 \/ run.tb = NTables)
    <3>1. run.copies < 2 /\ run.tb < NTables /\ run.tb \in 0 .. NTables - 1
      BY <1>0, <2>2, NandConstants DEF RunType
    <3>2. TableBlock(run.tb) \in Block /\ run.tb + 1 \in 0 .. NTables
      BY <3>1, NandConstants
    <3>3. /\ run.at = "tables" /\ "look" \in Places
          /\ \/ run' = [run EXCEPT !.tb = run.tb + 1]
             \/ run' = [run EXCEPT !.at = "look", !.blk = TableBlock(run.tb)]
      BY <1>3, <2>2 DEF Tables, Places
    <3>4. run' \in RunType
      BY <1>0, <3>2, <3>3 DEF RunType
    <3>5. Counting'
      BY <1>0, <2>0, <3>1, <3>3 DEF Counting, RunType
    <3> QED BY <2>0, <3>4, <3>5 DEF TypeOK
  <2> QED BY <2>1, <2>2
<1> QED BY <1>1, <1>2, <1>3

LEMMA CallSteps ==
    ASSUME Inv, (\E q \in Requests : Call(q)) \/ EraseCall \/ Return
    PROVE  Inv'
<1> USE Sets DEF Inv
<1>0. /\ run \in RunType /\ call \in CallType /\ run.blk \in Block
      /\ table \in TableType /\ "find" \in Places /\ "idle" \in Places
  BY DEF TypeOK, RunType, Places
<1>1. CASE \E q \in Requests : Call(q)
  <2>1. PICK q \in Requests : Call(q)
    BY <1>1
  <2>2. call' \in CallType
    BY <2>1, NandConstants DEF Call, CallType, TypeOK
  <2>3. run' \in RunType /\ run'.tables = FALSE
    BY <1>0, <2>1, FreshType DEF Call
  <2> QED BY <2>1, <2>2, <2>3 DEF Call, flashVars, TypeOK, Counting
<1>2. CASE EraseCall
  <2>1. EraseWorks(run.blk) \/ EraseFails
    BY <1>2 DEF EraseCall
  <2>2. /\ flash' \in [Block -> [Page -> Content]] /\ tagged' \subseteq Block
        /\ copy' \in [TableBlocks -> TableType] /\ faults' \in 0 .. MaxFaults
        /\ \A b \in TableBlocks : Injective(copy'[b])
    BY <1>0, <2>1, FlashStep, CopiesInjective DEF Content
  <2>3. run.tries + 1 # MaxRetry => run.tries + 1 \in 0 .. MaxRetry - 1
    BY <1>0, NandConstants DEF RunType
  <2>4. /\ "return" \in Places /\ run.at = "eraseCall"
        /\ \/ \E ok \in BOOLEAN : run' = [run EXCEPT !.at = "return", !.ok = ok]
           \/ /\ run.tries + 1 # MaxRetry
              /\ run' = [run EXCEPT !.at = "find", !.tries = run.tries + 1]
    BY <1>2 DEF EraseCall, Returns, Places
  <2>5. run' \in RunType
    BY <1>0, <2>3, <2>4 DEF RunType
  <2>6. Counting'
    BY <1>0, <1>2, <2>4 DEF Counting, RunType
  <2> QED BY <1>2, <2>2, <2>5, <2>6 DEF EraseCall, TypeOK
<1>3. CASE Return
  <2>1. run' \in RunType /\ run'.tables = FALSE
    BY <1>0, <1>3, FreshType DEF Return
  <2>2. call' \in CallType
    BY <1>3, NandConstants DEF Return, NoCall, CallType
  <2>3. Target(call.block) \in Block \cup {NoRemap}
    BY <1>0 DEF Target, TableType, CallType
  <2>4. Kept(call.block) \in [at : Block \cup {NoRemap},
                             data : [Page -> Values \cup {Blank, Unknown}]]
    BY <1>0, <2>3 DEF Kept, TypeOK, CallType
  <2>5. kept' \in [User -> [at : Block \cup {NoRemap},
                           data : [Page -> Values \cup {Blank, Unknown}]]]
    BY <1>3, <2>4 DEF Return, TypeOK
  <2> QED BY <1>3, <2>1, <2>2, <2>5 DEF Return, flashVars, TypeOK, Counting
<1> QED BY <1>1, <1>2, <1>3

LEMMA KeptAfterBootType ==
    ASSUME Inv, kept' = KeptAfterBoot
    PROVE  kept' \in [User -> [at : Block \cup {NoRemap},
                              data : [Page -> Values \cup {Blank, Unknown}]]]
BY PageContents DEF Inv, TypeOK, KeptAfterBoot

LEMMA BootSteps ==
    ASSUME Inv, Boot \/ PowerLoss
    PROVE  Inv'
<1> USE Sets DEF Inv
<1>0. /\ run \in RunType /\ call \in CallType /\ run.blk \in Block
      /\ "off" \in Places /\ "idle" \in Places /\ NoCall \in CallType
  BY NandConstants DEF TypeOK, RunType, Places, NoCall, CallType
<1>1. CASE BootLoad
  <2>1. PICK b \in TableBlocks : table' = copy[b]
    BY <1>1 DEF BootLoad
  <2>2. table' \in TableType /\ Injective(table')
    BY <2>1 DEF TypeOK
  <2>3. run' \in RunType /\ run'.tables = FALSE
    BY <1>0, <1>1, FreshType DEF BootLoad
  <2> QED BY <1>0, <1>1, <2>2, <2>3, KeptAfterBootType
        DEF BootLoad, flashVars, TypeOK, Counting
<1>2. CASE BootCreate
  <2>1. PICK bad \in SUBSET Block :
            table' = [b \in Block |-> IF b \in bad THEN NoRemap ELSE Good]
    <3>1. PICK unread \in SUBSET {b \in Block : flash[b][0] = Garbage} :
            table' = [b \in Block |-> IF b \in tagged \cup unread THEN NoRemap ELSE Good]
      BY <1>2 DEF BootCreate
    <3>2. tagged \cup unread \in SUBSET Block
      BY DEF TypeOK
    <3> QED BY <3>1, <3>2
  <2>2. table' \in TableType /\ Injective(table')
    BY <2>1 DEF TableType, Injective
  <2>3. run' \in RunType /\ run'.at = "tables"
    BY <1>0, <1>2, FreshType, ToTablesType DEF BootCreate
  <2> QED BY <1>0, <1>2, <2>2, <2>3, KeptAfterBootType
        DEF BootCreate, flashVars, TypeOK, Counting
<1>3. CASE PowerLoss
  <2>1. run' \in RunType /\ run'.tables = FALSE
    BY <1>0, <1>3, FreshType DEF PowerLoss
  <2>2. HalfDone \in [Block -> [Page -> Content]]
    <3>1. ThePage \in Page /\ Garbage \in Content
      BY <1>0 DEF ThePage, CallType, Content
    <3>2. run.todo < NPages => run.todo \in Page
      BY <1>0, NandConstants DEF RunType, Page
    <3> QED BY <1>0, <3>1, <3>2 DEF HalfDone, TypeOK
  <2>3. flash' \in [Block -> [Page -> Content]]
    BY <1>3, <2>2 DEF PowerLoss, TypeOK
  <2>4. table' \in TableType /\ Injective(table')
    BY <1>3 DEF PowerLoss, Empty, TableType, Injective
  <2>5. kept' \in [User -> [at : Block \cup {NoRemap},
                           data : [Page -> Values \cup {Blank, Unknown}]]]
    BY <1>3, PageContents DEF PowerLoss, TypeOK
  <2>6. crashes' \in 0 .. MaxCrashes
    BY <1>3, NandConstants DEF PowerLoss, TypeOK
  <2> QED BY <1>0, <1>3, <2>1, <2>3, <2>4, <2>5, <2>6, PageContents
        DEF PowerLoss, TypeOK, Counting
<1> QED BY <1>1, <1>2, <1>3 DEF Boot

-----------------------------------------------------------------------------
LEMMA NextInv == Inv /\ [Next]_vars => Inv'
<1> SUFFICES ASSUME Inv, [Next]_vars PROVE Inv'
  OBVIOUS
<1>1. CASE UNCHANGED vars
  BY <1>1 DEF Inv, TypeOK, Counting, Injective, vars, flashVars
<1>2. CASE Next
  BY <1>2, LookupSteps, WriteSteps, TableSteps, CallSteps, BootSteps
     DEF Next, Work
<1> QED BY <1>1, <1>2

LEMMA InvDisjoint ==
    ASSUME NEW t \in TableType, Injective(t) PROVE Disjoint(t)
BY Sets DEF TableType, Injective, Disjoint, Served

(* Every register, buffer and table of ftl_nand_api.c keeps its type: in   *)
(* particular bbm_update_table never writes a third copy nor past the last *)
(* table block, and a remap block is always a block of the reserve.        *)
THEOREM TypeCorrect == Spec => []TypeOK
<1>1. Inv => TypeOK
  BY DEF Inv
<1> QED BY <1>1, InitInv, NextInv, PTL DEF Spec

(* No two user blocks are served by one flash block, in memory or in any   *)
(* copy of the table, whatever fails and wherever the power goes.          *)
THEOREM NeverShared == Spec => []DistinctTargets
<1>1. Inv => DistinctTargets
  BY InvDisjoint DEF Inv, TypeOK, DistinctTargets
<1> QED BY <1>1, InitInv, NextInv, PTL DEF Spec

-----------------------------------------------------------------------------
(* What a call put in flash stays there: the inductive invariant.  b below *)
(* is the block of the call under way.                                     *)

Promised(c, p) == kept[c].data[p] # Unknown
Live(c) == \E p \in Page : Promised(c, p)
Changing(c) == call.op \in {"write", "erase"} /\ c = call.block
Clean == faults = call.faults     \* no flash operation failed in this call

(* Where each function is called from, and failures only add up.           *)
Control ==
    /\ call.faults <= faults
    /\ run.at \in {"idle", "off"} => call.op = "init" /\ ~run.tables
    /\ run.at \in {"find", "eraseCall", "return"} => call.op # "init" /\ ~run.tables
    /\ run.at = "eraseCall" => call.op = "erase"
    /\ run.retry => call.op = "write"
    /\ run.at = "tables" => run.tables
    /\ run.tables /\ run.at # "tables" => run.blk \in TableBlocks
    /\ run.at \in {"look", "direct", "erase", "program", "mark", "tag"}
          => run.tables \/ call.op = "write"

(* A block with data is served by the block that has them, and that one is *)
(* good; in a call on the block, as long as nothing fails.                 *)
Settled == \A c \in User :
    Live(c) /\ run.at # "off" /\ (Changing(c) => Clean) =>
        /\ kept[c].at \in Block /\ kept[c].at = Target(c)
        /\ ~IsBad(kept[c].at)

(* What is promised is on flash, except of the block being changed.        *)
Stored == \A c \in User : ~Changing(c) => \A p \in Page :
    Promised(c, p) => kept[c].at \in Block /\ flash[kept[c].at][p] = kept[c].data[p]

(* The block a call works on serves the call's block and no other; block 0 *)
(* is it for want of a reserve block, and then nothing is promised of it.  *)
Working ==
    /\ run.tables /\ call.op # "init" => run.target # 0
    /\ run.target # 0 => /\ run.target \in Reserve
                         /\ table[call.block] = run.target
    /\ run.at \notin {"idle", "off", "find"} /\ ~run.tables
          /\ call.op \in {"write", "erase"} =>
          \/ run.target # 0 /\ run.blk = run.target
          \/ run.target = 0 /\ run.blk = call.block
          \/ run.target = 0 /\ run.blk = 0 /\ ~Live(0)

(* While nothing fails: the block worked on is good...                     *)
Writing == /\ ~run.tables /\ call.op = "write"
           /\ \/ run.at \in {"look", "direct", "erase", "program"}
              \/ run.at = "return" /\ run.ok
Healthy == Clean =>
    /\ run.target # 0 => ~IsBad(run.target)
    /\ Writing => run.blk = Target(call.block) /\ ~IsBad(run.blk)
    /\ run.at = "eraseCall" \/ (run.at = "return" /\ run.ok) =>
          (run.blk = Target(call.block) => ~IsBad(run.blk))

(* ... pages are blank when they are programmed, and tables are saved...   *)
Blanked == Clean =>
    /\ run.at = "direct" => flash[run.blk][ThePage] = Blank
    /\ run.at = "program" =>
          \A p \in Page : p >= run.todo => flash[run.blk][p] = Blank
    /\ run.tables => run.ok /\ run.at \notin {"mark", "tag"}

(* ... and only a call that finds no reserve block goes into the retries.  *)
Hopeless == Clean /\ (run.retry \/ (run.at \in {"mark", "tag"} /\ ~run.tables)) =>
    /\ run.retry /\ ~run.tables /\ run.target = 0
    /\ run.at \in {"find", "mark", "tag", "return"}
    /\ run.at = "return" => ~run.ok
    /\ run.at \in {"mark", "tag"} => run.blk = 0
    /\ FreeBlocks = {} /\ IsBad(call.block)
    /\ table[call.block] \in Reserve => IsBad(table[call.block])

(* The block being written, as long as nothing fails: its data are on      *)
(* flash, then in the block buffer, then on flash again with the change.   *)
OnFlash(blk) == \A p \in Page :
    Promised(call.block, p) => flash[blk][p] = kept[call.block].data[p]
Changed(block) ==
    /\ block[call.page] = call.value
    /\ \A p \in Page : Promised(call.block, p) /\ p # call.page =>
          block[p] = kept[call.block].data[p]
Progress == Clean =>
    /\ call.op = "write" /\ (run.tables \/ run.at \in {"find", "look", "direct"}) =>
          OnFlash(kept[call.block].at)
    /\ call.op = "write" /\ ~run.tables /\ run.at \in {"erase", "program"} =>
          Changed(buf)
    /\ run.at = "program" =>
          \A p \in Page : p < run.todo => flash[run.blk][p] = buf[p]
    /\ call.op = "write" /\ run.at = "return" /\ run.ok => Changed(flash[run.blk])
    /\ call.op = "erase" /\ run.at = "return" /\ run.ok => flash[run.blk] = BlankBlock

DataInv == /\ Control /\ Settled /\ Stored /\ Working
           /\ Healthy /\ Blanked /\ Hopeless /\ Progress

-----------------------------------------------------------------------------
(* What the actions' proofs share.                                         *)
LEMMA InvTypes ==
    ASSUME Inv
    PROVE  /\ run \in RunType /\ call \in CallType /\ table \in TableType
           /\ run.blk \in Block /\ run.target \in Block /\ run.todo \in 0 .. NPages
           /\ run.at \in Places /\ run.ok \in BOOLEAN
           /\ run.tables \in BOOLEAN /\ run.retry \in BOOLEAN
           /\ call.block \in User /\ call.block \in Block /\ call.page \in Page
           /\ call.value \in Values \cup {Blank}
           /\ call.op \in {"init", "read", "write", "erase"}
           /\ faults \in Nat /\ call.faults \in Nat
           /\ flash \in [Block -> [Page -> Content]] /\ buf \in [Page -> Content]
           /\ kept \in [User -> [at : Block \cup {NoRemap},
                                 data : [Page -> Values \cup {Blank, Unknown}]]]
           /\ ThePage \in Page /\ TheValue \in Content
BY Sets DEF Inv, TypeOK, RunType, CallType, ThePage, TheValue, Content

(* The fields of run after a return.                                       *)
WrittenFields(r, s) ==
    /\ s.target = r.target /\ s.blk = r.blk /\ s.retry = r.retry
    /\ s.tables = r.tables /\ s.ok
    /\ s.at = IF r.tables THEN "tables" ELSE "return"
NotWrittenFields(r, s) ==
    /\ s.target = r.target /\ s.blk = r.blk /\ s.tables = r.tables
    /\ r.tables => s.at = "tables" /\ s.retry = r.retry
    /\ ~r.tables => s.at \in {"find", "return"} /\ s.retry
    /\ ~r.tables /\ s.at = "return" => ~s.ok

LEMMA AfterWriteOk ==
    ASSUME NEW r \in RunType PROVE WrittenFields(r, AfterWrite(r, TRUE))
<1>1. CASE r.tables
  BY <1>1 DEF AfterWrite, RunType, WrittenFields
<1>2. CASE ~r.tables
  BY <1>2 DEF AfterWrite, Returns, RunType, WrittenFields
<1> QED BY <1>1, <1>2

LEMMA AfterWriteFails ==
    ASSUME NEW r \in RunType PROVE NotWrittenFields(r, AfterWrite(r, FALSE))
<1>1. CASE r.tables
  BY <1>1 DEF AfterWrite, RunType, NotWrittenFields
<1>2. CASE ~r.tables /\ ~r.retry
  BY <1>2 DEF AfterWrite, RunType, NotWrittenFields
<1>3. CASE ~r.tables /\ r.retry
  BY <1>3 DEF AfterWrite, Returns, RunType, NotWrittenFields
<1> QED BY <1>1, <1>2, <1>3

FoundFields(op, r, b, s) ==
    /\ s.target = r.target /\ s.blk = b /\ ~s.tables
    /\ op = "read" => s.at = "return" /\ s.retry = r.retry
    /\ op = "erase" => s.at = "eraseCall" /\ s.retry = r.retry
    /\ op = "write" /\ ~r.retry => s.at = "look" /\ ~s.retry
    /\ op = "write" /\ r.retry => s.at = "erase" /\ s.retry
NotFoundFields(op, r, b, s) ==
    /\ s.target = r.target /\ s.blk = b /\ ~s.tables
    /\ op = "read" => s.at = "return" /\ s.retry = r.retry
    /\ op = "erase" => s.at = "eraseCall" /\ s.retry = r.retry
    /\ op = "write" /\ ~r.retry => s.at = "find" /\ s.retry
    /\ op = "write" /\ r.retry => s.at = "mark" /\ s.retry

LEMMA AfterFindOk ==
    ASSUME NEW r \in RunType, NEW b \in Block
    PROVE  FoundFields(call.op, r, b, AfterFind(r, TRUE, b))
<1>1. CASE call.op = "read"
  BY <1>1 DEF AfterFind, Returns, RunType, FoundFields
<1>2. CASE call.op = "erase"
  BY <1>2 DEF AfterFind, RunType, FoundFields
<1>3. CASE call.op \notin {"read", "erase"} /\ ~r.retry
  BY <1>3 DEF AfterFind, RunType, FoundFields
<1>4. CASE call.op \notin {"read", "erase"} /\ r.retry
  BY <1>4 DEF AfterFind, RunType, FoundFields
<1> QED BY <1>1, <1>2, <1>3, <1>4

LEMMA AfterFindFails ==
    ASSUME NEW r \in RunType, NEW b \in Block
    PROVE  NotFoundFields(call.op, r, b, AfterFind(r, FALSE, b))
<1>1. CASE call.op = "read"
  BY <1>1 DEF AfterFind, Returns, RunType, NotFoundFields
<1>2. CASE call.op = "erase"
  BY <1>2 DEF AfterFind, RunType, NotFoundFields
<1>3. CASE call.op \notin {"read", "erase"} /\ ~r.retry
  BY <1>3 DEF AfterFind, RunType, NotFoundFields
<1>4. CASE call.op \notin {"read", "erase"} /\ r.retry
  BY <1>4 DEF AfterFind, RunType, NotFoundFields
<1> QED BY <1>1, <1>2, <1>3, <1>4

(* Where the data of a settled block are: in the block itself or in the    *)
(* reserve.                                                                *)
LEMMA SettledIn ==
    ASSUME Inv, Settled, NEW c \in User, Live(c), run.at # "off", Changing(c) => Clean
    PROVE  /\ kept[c].at \in Block \ TableBlocks /\ ~IsBad(kept[c].at)
           /\ kept[c].at = Target(c)
           /\ \/ kept[c].at = c /\ table[c] = Good
              \/ kept[c].at \in Reserve /\ table[c] = kept[c].at
<1>1. User \cap TableBlocks = {} /\ Reserve \cap TableBlocks = {}
  BY NandConstants DEF User, Reserve, TableBlocks, TableBlock
<1>2. table[c] \in {Good, NoRemap} \cup Reserve
  BY InvTypes, Sets DEF TableType
<1> QED BY <1>1, <1>2, Sets DEF Settled, Target

Operating == {"direct", "erase", "program", "mark", "tag", "eraseCall"}

(* No flash operation works on the block that has another block's data.    *)
LEMMA Apart ==
    ASSUME Inv, DataInv, run.at \in Operating,
           NEW c \in User, Live(c), ~Changing(c)
    PROVE  run.blk # kept[c].at
<1> USE Sets, InvTypes
<1>0. run.at # "off" /\ run.at # "idle" /\ run.at # "find" /\ run.at # "tables"
  BY DEF Operating
<1>1. /\ kept[c].at \in Block \ TableBlocks
      /\ \/ kept[c].at = c /\ table[c] = Good
         \/ kept[c].at \in Reserve /\ table[c] = kept[c].at
  BY <1>0, SettledIn DEF DataInv
<1>2. CASE run.tables
  BY <1>0, <1>1, <1>2 DEF DataInv, Control
<1>3. CASE ~run.tables
  <2>1. call.op \in {"write", "erase"} /\ c # call.block
    BY <1>3 DEF Operating, DataInv, Control, Changing
  <2>2. \/ run.target # 0 /\ run.blk = run.target
        \/ run.target = 0 /\ run.blk = call.block
        \/ run.target = 0 /\ run.blk = 0 /\ ~Live(0)
    BY <1>0, <1>3, <2>1 DEF DataInv, Working
  <2>3. CASE run.target # 0 /\ run.blk = run.target
    <3>1. run.target \in Reserve /\ table[call.block] = run.target
      BY <2>3 DEF DataInv, Working
    <3> QED BY <1>1, <2>1, <2>3, <3>1 DEF Inv, Injective
  <2>4. CASE run.blk = call.block
    BY <1>1, <2>1, <2>4
  <2>5. CASE run.blk = 0 /\ ~Live(0)
    BY <1>1, <2>5
  <2> QED BY <2>2, <2>3, <2>4, <2>5
<1> QED BY <1>2, <1>3

LEMMA StoredStep ==
    ASSUME Inv, DataInv, run.at \in Operating, kept' = kept, call' = call,
           flash' \in [Block -> [Page -> Content]],
           \A x \in Block : x # run.blk => flash'[x] = flash[x]
    PROVE  Stored'
<1> SUFFICES ASSUME NEW c \in User, ~Changing(c), NEW p \in Page, Promised(c, p)
             PROVE  /\ kept[c].at \in Block
                    /\ flash'[kept[c].at][p] = kept[c].data[p]
  BY DEF Stored, Changing, Promised
<1>1. run.blk # kept[c].at
  BY Apart DEF Live
<1> QED BY <1>1 DEF DataInv, Stored

(* Failures only add up: a call that is clean after a step was before.     *)
LEMMA CleanStep ==
    ASSUME Inv, DataInv, call' = call, faults' = faults \/ faults' = faults + 1
    PROVE  /\ Clean' => Clean /\ faults' = faults
           /\ call'.faults <= faults'
BY InvTypes DEF Clean, DataInv, Control

LEMMA SettledStep ==
    ASSUME Inv, DataInv, call' = call, kept' = kept, table' = table,
           Clean' => Clean, run.at # "off"
    PROVE  Settled'
BY DEF DataInv, Settled, Live, Promised, Changing, IsBad, Target

-----------------------------------------------------------------------------
(* The lookup.                                                             *)
LEMMA FindGoodData == ASSUME Inv, DataInv, FindGood PROVE DataInv'
<1> USE Sets, InvTypes
<1>0. /\ run.at = "find" /\ call.op \in {"read", "write", "erase"} /\ ~run.tables
      /\ ~IsBad(call.block) /\ run' = AfterFind(run, TRUE, call.block)
      /\ UNCHANGED <<flash, table, buf, call, faults, kept>>
  BY DEF FindGood, Finding, Found, flashVars, DataInv, Control
<1>1. run.target = 0
  BY <1>0 DEF DataInv, Working, IsBad
<1>2. FoundFields(call.op, run, call.block, run')
  BY <1>0, AfterFindOk
<1>3. Clean => ~run.retry
  BY <1>0 DEF DataInv, Hopeless
<1>4. Control'
  BY <1>0, <1>2 DEF FoundFields, DataInv, Control
<1>5. Settled'
  BY <1>0, SettledStep DEF Clean
<1>6. Stored'
  BY <1>0 DEF DataInv, Stored, Changing, Promised
<1>7. Working'
  BY <1>0, <1>1, <1>2 DEF FoundFields, Working
<1>8. Healthy'
  BY <1>0, <1>1, <1>2 DEF FoundFields, Healthy, Writing, Target, IsBad
<1>9. Blanked' /\ Hopeless'
  BY <1>0, <1>2, <1>3 DEF FoundFields, Blanked, Hopeless, Clean
<1>10. Progress'
  BY <1>0, <1>2, <1>3 DEF FoundFields, DataInv, Progress, OnFlash, Promised, Clean
<1> QED BY <1>4, <1>5, <1>6, <1>7, <1>8, <1>9, <1>10 DEF DataInv

LEMMA FindRemapData == ASSUME Inv, DataInv, FindRemap PROVE DataInv'
<1> USE Sets, InvTypes
<1>0. PICK r \in Reserve :
         /\ run.at = "find" /\ call.op \in {"read", "write", "erase"} /\ ~run.tables
         /\ table[call.block] = r /\ ~IsBad(r)
         /\ run' = AfterFind([run EXCEPT !.target = r], TRUE, r)
         /\ UNCHANGED <<flash, table, buf, call, faults, kept>>
  BY DEF FindRemap, Finding, Found, flashVars, DataInv, Control
<1>1. [run EXCEPT !.target = r] \in RunType
  BY DEF RunType
<1>2. FoundFields(call.op, [run EXCEPT !.target = r], r, run')
  BY <1>0, <1>1, AfterFindOk
<1>3. Clean => ~run.retry
  BY <1>0 DEF DataInv, Hopeless
<1>4. Control'
  BY <1>0, <1>2 DEF FoundFields, RunType, DataInv, Control
<1>5. Settled'
  BY <1>0, SettledStep DEF Clean
<1>6. Stored'
  BY <1>0 DEF DataInv, Stored, Changing, Promised
<1>7. Working' /\ Healthy'
  <2>1. r # 0 /\ r # Good
    BY NandConstants DEF Reserve, Good
  <2> QED BY <1>0, <1>2, <2>1 DEF FoundFields, RunType, Working, Healthy, Writing, Target, IsBad
<1>9. Blanked' /\ Hopeless'
  BY <1>0, <1>2, <1>3 DEF FoundFields, RunType, Blanked, Hopeless, Clean
<1>10. Progress'
  BY <1>0, <1>2, <1>3 DEF FoundFields, RunType, DataInv, Progress, OnFlash, Promised, Clean
<1> QED BY <1>4, <1>5, <1>6, <1>7, <1>9, <1>10 DEF DataInv

(* A block that gets another remap block has no data to be settled.        *)
LEMMA NewRemap ==
    ASSUME Inv, DataInv, NEW r \in Reserve, FirstFree(r), run.at # "off",
           \/ table[call.block] = NoRemap
           \/ table[call.block] \in Reserve /\ IsBad(table[call.block]),
           table' = [table EXCEPT ![call.block] = r],
           UNCHANGED <<call, kept, faults>>
    PROVE  /\ Settled'
           /\ table'[call.block] = r /\ r # 0 /\ r # call.block
           /\ ~IsBad(r)'
           /\ \A x \in Block : IsBad(x)' <=> IsBad(x)
<1> USE Sets, InvTypes
<1>1. r # 0 /\ r # Good /\ r # call.block
  BY NandConstants DEF Reserve, Good
<1>2. table'[call.block] = r /\ \A x \in Block : x # call.block => table'[x] = table[x]
  BY DEF TableType
<1>3. \A x \in Block : IsBad(x)' <=> IsBad(x)
  BY <1>1, <1>2 DEF FoundFields, RunType, IsBad
<1>4. ~IsBad(r)'
  BY <1>3 DEF FirstFree, FreeBlocks
<1>5. Settled'
  <2> SUFFICES ASSUME NEW c \in User, Live(c), Changing(c) => Clean
               PROVE  /\ kept[c].at \in Block /\ kept[c].at = Target(c)'
                      /\ ~IsBad(kept[c].at)'
    BY DEF Settled, Live, Promised, Changing, Clean
  <2>1. /\ kept[c].at \in Block /\ kept[c].at = Target(c) /\ ~IsBad(kept[c].at)
    BY DEF DataInv, Settled
  <2>2. c # call.block
    BY <2>1 DEF Target
  <2> QED BY <1>2, <1>3, <2>1, <2>2 DEF FoundFields, RunType, Target
<1> QED BY <1>1, <1>2, <1>3, <1>4, <1>5

LEMMA FindFirstData == ASSUME Inv, DataInv, FindFirst PROVE DataInv'
<1> USE Sets, InvTypes
<1>0. PICK r \in Reserve :
         /\ run.at = "find" /\ call.op \in {"read", "write", "erase"}
         /\ ~run.tables /\ FirstFree(r) /\ table[call.block] = NoRemap
         /\ table' = [table EXCEPT ![call.block] = r]
         /\ run' = ToTables([run EXCEPT !.target = r])
         /\ UNCHANGED <<flash, buf, call, faults, kept>>
  BY DEF FindFirst, Finding, flashVars, DataInv, Control
<1>1. /\ run'.at = "tables" /\ run'.tables /\ run'.ok /\ run'.target = r
      /\ run'.retry = run.retry
  BY <1>0 DEF ToTables, RunType
<1>2. /\ Settled'
      /\ table'[call.block] = r /\ r # 0 /\ r # call.block /\ ~IsBad(r)'
  BY <1>0, NewRemap
<1>3. Clean => ~run.retry
  BY <1>0, <1>2 DEF DataInv, Hopeless, FirstFree
<1>4. Control'
  BY <1>0, <1>1 DEF DataInv, Control
<1>5. Stored'
  BY <1>0 DEF DataInv, Stored, Changing, Promised
<1>6. Working' /\ Healthy' /\ Blanked' /\ Hopeless'
  BY <1>0, <1>1, <1>2, <1>3 DEF Working, Healthy, Writing, Blanked, Hopeless, Clean
<1>7. Progress'
  BY <1>0, <1>1 DEF DataInv, Progress, OnFlash, Promised, Clean
<1> QED BY <1>2, <1>4, <1>5, <1>6, <1>7 DEF DataInv

LEMMA FindAnotherData == ASSUME Inv, DataInv, FindAnother PROVE DataInv'
<1> USE Sets, InvTypes
<1>0. PICK r \in Reserve :
         /\ run.at = "find" /\ call.op \in {"read", "write", "erase"}
         /\ ~run.tables /\ FirstFree(r)
         /\ table[call.block] \in Reserve /\ IsBad(table[call.block])
         /\ table' = [table EXCEPT ![call.block] = r]
         /\ run' = AfterFind([run EXCEPT !.target = r], TRUE, r)
         /\ UNCHANGED <<flash, buf, call, faults, kept>>
  BY DEF FindAnother, Finding, Found, flashVars, DataInv, Control
<1>1. [run EXCEPT !.target = r] \in RunType
  BY DEF RunType
<1>2. FoundFields(call.op, [run EXCEPT !.target = r], r, run')
  BY <1>0, <1>1, AfterFindOk
<1>3. /\ Settled'
      /\ table'[call.block] = r /\ r # 0 /\ r # call.block /\ ~IsBad(r)' /\ r # Good
  BY <1>0, NewRemap, NandConstants DEF Reserve, Good
<1>4. Clean => ~run.retry
  BY <1>0 DEF DataInv, Hopeless, FirstFree
<1>5. Control'
  BY <1>0, <1>2 DEF FoundFields, RunType, DataInv, Control
<1>6. Stored'
  BY <1>0 DEF DataInv, Stored, Changing, Promised
<1>7. Working' /\ Healthy'
  BY <1>0, <1>2, <1>3 DEF FoundFields, RunType, Working, Healthy, Writing, Target
<1>8. Blanked' /\ Hopeless'
  BY <1>0, <1>2, <1>4 DEF FoundFields, RunType, Blanked, Hopeless, Clean
<1>9. Progress'
  BY <1>0, <1>2, <1>4 DEF FoundFields, RunType, DataInv, Progress, OnFlash, Promised, Clean
<1> QED BY <1>3, <1>5, <1>6, <1>7, <1>8, <1>9 DEF DataInv

LEMMA FindNoneData == ASSUME Inv, DataInv, FindNone PROVE DataInv'
<1> USE Sets, InvTypes
<1>0. /\ run.at = "find" /\ call.op \in {"read", "write", "erase"} /\ ~run.tables
      /\ IsBad(call.block) /\ FreeBlocks = {}
      /\ table[call.block] \in Reserve => IsBad(table[call.block])
      /\ run' = AfterFind(run, FALSE, run.target)
      /\ kept' = IF run.target = 0 /\ call.op # "read"
                 THEN [kept EXCEPT ![0].data = NoPromise] ELSE kept
      /\ UNCHANGED <<flash, table, buf, call, faults>>
  BY DEF FindNone, Finding, flashVars, DataInv, Control
<1>1. NotFoundFields(call.op, run, run.target, run')
  BY <1>0, AfterFindFails
<1>2. /\ \A c \in User : kept'[c].at = kept[c].at
      /\ \A c \in User, p \in Page : Promised(c, p)' =>
            Promised(c, p) /\ kept'[c].data[p] = kept[c].data[p]
      /\ run.target = 0 /\ call.op # "read" => ~Live(0)'
  BY <1>0 DEF Promised, Live, NoPromise
<1>3. \A c \in User : Live(c)' => Live(c)
  BY <1>2 DEF Live
<1>4. Clean => run.target = 0
  BY <1>0 DEF DataInv, Healthy, Working
<1>5. Control'
  BY <1>0, <1>1 DEF NotFoundFields, DataInv, Control
<1>6. Settled'
  BY <1>0, <1>2, <1>3 DEF DataInv, Settled, Changing, Clean, IsBad, Target
<1>7. Stored'
  BY <1>0, <1>2 DEF DataInv, Stored, Changing
<1>8. Working'
  BY <1>0, <1>1, <1>2 DEF NotFoundFields, DataInv, Working
<1>9. Healthy'
  <2>1. Target(call.block) # 0
    BY <1>0, NandConstants DEF IsBad, Target, TableType, Reserve, NoRemap
  <2> QED BY <1>0, <1>1, <1>4, <2>1 DEF NotFoundFields, Healthy, Writing, Target, Clean
<1>10. Blanked'
  BY <1>0, <1>1 DEF NotFoundFields, Blanked
<1>11. Hopeless'
  <2>1. FreeBlocks' = {}
    BY <1>0 DEF FreeBlocks, IsBad, IsRemap
  <2>2. /\ IsBad(call.block)'
        /\ (table[call.block] \in Reserve => IsBad(table[call.block]))'
    BY <1>0 DEF IsBad
  <2>3. Clean' => run'.target = 0
    BY <1>0, <1>1, <1>4 DEF NotFoundFields, Clean
  <2>4. /\ ~run'.tables /\ call'.op = call.op
        /\ call.op = "write" => run'.at \in {"find", "mark"} /\ run'.retry
        /\ call.op # "write" => run'.at \in {"return", "eraseCall"}
        /\ call.op # "write" => ~run'.retry
        /\ run'.blk = run'.target
    BY <1>0, <1>1 DEF NotFoundFields, DataInv, Control
  <2> QED BY <2>1, <2>2, <2>3, <2>4 DEF Hopeless
<1>12. Progress'
  <2>1. Clean' <=> Clean
    BY <1>0 DEF Clean
  <2>2. call.op = "write" /\ Clean => OnFlash(kept[call.block].at)
    BY <1>0 DEF DataInv, Progress
  <2>3. call.op = "write" /\ Clean => OnFlash(kept[call.block].at)'
    BY <1>0, <1>2, <2>2 DEF OnFlash
  <2> QED BY <1>0, <1>1, <2>1, <2>3 DEF NotFoundFields, Progress
<1> QED BY <1>5, <1>6, <1>7, <1>8, <1>9, <1>10, <1>11, <1>12 DEF DataInv

-----------------------------------------------------------------------------
(* bbm_nand_write.  A clean call writes where the data of its block are.   *)
LEMMA WritingHere ==
    ASSUME Inv, DataInv, Clean, Writing, NEW p \in Page, Promised(call.block, p)
    PROVE  kept[call.block].at = run.blk
<1>1. run.at # "off" /\ Live(call.block)
  BY DEF Writing, Live
<1> QED BY <1>1, InvTypes DEF DataInv, Settled, Healthy

(* What a flash operation does to the pages.                               *)
LEMMA OperationOn ==
    ASSUME Inv, NEW b \in Block, NEW p \in Page, NEW v \in Content,
           \/ EraseWorks(b) \/ EraseFails
           \/ ProgramWorks(b, p, v) \/ ProgramFails(b, p, v)
    PROVE  /\ flash' \in [Block -> [Page -> Content]]
           /\ \A x \in Block : x # b => flash'[x] = flash[x]
           /\ faults' = faults \/ faults' = faults + 1
<1>1. flash' \in [Block -> [Page -> Content]]
  BY FlashStep DEF Inv
<1> QED BY <1>1, InvTypes
      DEF EraseWorks, EraseFails, ProgramWorks, ProgramFails, Fault, flashVars

(* Saving the table leaves the data of the call's block on flash.          *)
LEMMA SavingKeeps ==
    ASSUME Inv, DataInv, Clean, run.tables, run.at \in Operating,
           kept' = kept, call' = call, call.op = "write",
           \A x \in Block : x # run.blk => flash'[x] = flash[x]
    PROVE  OnFlash(kept[call.block].at)'
<1> USE InvTypes
<1> SUFFICES ASSUME NEW p \in Page, Promised(call.block, p)
             PROVE  flash'[kept[call.block].at][p] = kept[call.block].data[p]
  BY DEF OnFlash, Promised
<1>1. run.at # "off" /\ run.at # "tables"
  BY DEF Operating
<1>2. kept[call.block].at \in Block \ TableBlocks
  BY <1>1, SettledIn DEF DataInv, Live
<1>3. run.blk \in TableBlocks
  BY <1>1 DEF DataInv, Control
<1>4. flash[kept[call.block].at][p] = kept[call.block].data[p]
  BY DEF DataInv, Progress, OnFlash
<1> QED BY <1>2, <1>3, <1>4

LEMMA LookData == ASSUME Inv, DataInv, Look PROVE DataInv'
<1> USE Sets, InvTypes
<1>0. /\ run.at = "look"
      /\ UNCHANGED <<flash, table, call, faults, kept>>
      /\ \/ /\ flash[run.blk][ThePage] = Blank
            /\ run' = [run EXCEPT !.at = "direct"] /\ UNCHANGED buf
         \/ /\ run' = [run EXCEPT !.at = "erase"]
            /\ buf' = [flash[run.blk] EXCEPT ![ThePage] = TheValue]
  BY DEF Look, flashVars
<1>1. /\ run'.at \in {"direct", "erase"} /\ run'.tables = run.tables
      /\ run'.blk = run.blk /\ run'.target = run.target /\ run'.retry = run.retry
      /\ run'.ok = run.ok
      /\ run'.at = "direct" => flash[run.blk][ThePage] = Blank /\ UNCHANGED buf
      /\ run'.at = "erase" => buf' = [flash[run.blk] EXCEPT ![ThePage] = TheValue]
  BY <1>0 DEF RunType
<1>2. Control' /\ Settled'
  BY <1>0, <1>1, SettledStep DEF DataInv, Control, Clean
<1>3. Stored'
  BY <1>0 DEF DataInv, Stored, Changing, Promised
<1>4. Working'
  BY <1>0, <1>1 DEF DataInv, Working, Live, Promised
<1>5. Clean' => Clean /\ ~run.retry
  BY <1>0 DEF DataInv, Hopeless, Clean
<1>6. Healthy'
  BY <1>0, <1>1, <1>5 DEF DataInv, Healthy, Writing, IsBad, Target
<1>7. Blanked'
  <2>1. ThePage' = ThePage
    BY <1>0, <1>1 DEF ThePage
  <2> QED BY <1>0, <1>1, <1>5, <2>1 DEF DataInv, Blanked
<1>8. Hopeless'
  BY <1>1, <1>5 DEF Hopeless
<1>9. Progress'
  <2>1. Clean /\ call.op = "write" => OnFlash(kept[call.block].at)'
    BY <1>0 DEF DataInv, Progress, OnFlash, Promised
  <2>2. ASSUME Clean, call.op = "write", ~run.tables, run'.at = "erase"
        PROVE  Changed(buf)'
    <3>1. buf' = [flash[run.blk] EXCEPT ![call.page] = call.value]
      BY <1>1, <2>2 DEF ThePage, TheValue
    <3>2. ASSUME NEW p \in Page, Promised(call.block, p), p # call.page
          PROVE  buf'[p] = kept[call.block].data[p]
      <4>1. kept[call.block].at = run.blk
        BY <1>0, <2>2, <3>2, WritingHere DEF Writing
      <4>2. flash[kept[call.block].at][p] = kept[call.block].data[p]
        BY <1>0, <2>2, <3>2 DEF DataInv, Progress, OnFlash
      <4> QED BY <3>1, <3>2, <4>1, <4>2
    <3> QED BY <1>0, <3>1, <3>2 DEF Changed, Promised
  <2> QED BY <1>0, <1>1, <1>5, <2>1, <2>2 DEF Progress
<1> QED BY <1>2, <1>3, <1>4, <1>6, <1>7, <1>8, <1>9 DEF DataInv

LEMMA DirectData == ASSUME Inv, DataInv, Direct PROVE DataInv'
<1> USE Sets, InvTypes
<1>0. /\ run.at = "direct" /\ run.at \in Operating
      /\ UNCHANGED <<table, call, kept>>
      /\ \/ ProgramWorks(run.blk, ThePage, TheValue) /\ run' = AfterWrite(run, TRUE)
         \/ /\ ProgramFails(run.blk, ThePage, TheValue)
            /\ run' = [run EXCEPT !.at = "mark"]
  BY DEF Direct, Operating
<1>1. /\ flash' \in [Block -> [Page -> Content]]
      /\ \A x \in Block : x # run.blk => flash'[x] = flash[x]
      /\ faults' = faults \/ faults' = faults + 1
  BY <1>0, OperationOn
<1>2. /\ Clean' => Clean /\ faults' = faults
      /\ call'.faults <= faults'
  BY <1>0, <1>1, CleanStep
<1>3. Settled' /\ Stored'
  BY <1>0, <1>1, <1>2, SettledStep, StoredStep
<1>4. CASE ProgramFails(run.blk, ThePage, TheValue) /\ run' = [run EXCEPT !.at = "mark"]
  <2>1. ~Clean'
    BY <1>0, <1>2, <1>4 DEF ProgramFails, CanProgram, Fault, DataInv, Blanked
  <2>2. /\ run'.at = "mark" /\ run'.tables = run.tables /\ run'.retry = run.retry
        /\ run'.blk = run.blk /\ run'.target = run.target
    BY <1>4 DEF RunType
  <2>3. Control'
    BY <1>0, <1>2, <2>2 DEF DataInv, Control
  <2>4. Working'
    BY <1>0, <2>2 DEF DataInv, Working, Live, Promised
  <2> QED BY <1>3, <2>1, <2>3, <2>4 DEF DataInv, Healthy, Blanked, Hopeless, Progress
<1>5. CASE ProgramWorks(run.blk, ThePage, TheValue) /\ run' = AfterWrite(run, TRUE)
  <2>1. WrittenFields(run, run')
    BY <1>5, AfterWriteOk
  <2>2. flash' = [flash EXCEPT ![run.blk][ThePage] = TheValue]
    BY <1>5 DEF ProgramWorks
  <2>3. Control'
    BY <1>0, <1>2, <2>1 DEF WrittenFields, DataInv, Control
  <2>4. Working'
    BY <1>0, <2>1 DEF WrittenFields, DataInv, Working, Live, Promised
  <2>5. Clean => ~run.retry
    BY <1>0 DEF DataInv, Hopeless
  <2>6. Healthy'
    BY <1>0, <1>2, <2>1
       DEF WrittenFields, DataInv, Control, Healthy, Writing, IsBad, Target
  <2>7. Blanked' /\ Hopeless'
    BY <1>2, <2>1, <2>5 DEF WrittenFields, Blanked, Hopeless
  <2>8. Progress'
    <3>1. ASSUME Clean, run.tables, call.op = "write"
          PROVE  OnFlash(kept[call.block].at)'
      BY <1>0, <1>1, <3>1, SavingKeeps
    <3>2. ASSUME Clean, ~run.tables
          PROVE  Changed(flash[run.blk])'
      <4>1. flash'[run.blk] = [flash[run.blk] EXCEPT ![call.page] = call.value]
        BY <2>2, <3>2 DEF ThePage, TheValue
      <4>2. ASSUME NEW p \in Page, Promised(call.block, p), p # call.page
            PROVE  flash'[run.blk][p] = kept[call.block].data[p]
        <5>1. call.op = "write"
          BY <1>0, <3>2 DEF DataInv, Control
        <5>2. kept[call.block].at = run.blk
          BY <1>0, <3>2, <4>2, <5>1, WritingHere DEF Writing
        <5>3. flash[kept[call.block].at][p] = kept[call.block].data[p]
          BY <1>0, <3>2, <4>2, <5>1 DEF DataInv, Progress, OnFlash
        <5> QED BY <4>1, <4>2, <5>2, <5>3
      <4> QED BY <1>0, <2>1, <4>1, <4>2 DEF WrittenFields, Changed, Promised
    <3>3. ~run.tables => call.op = "write"
      BY <1>0 DEF DataInv, Control
    <3> QED BY <1>0, <1>2, <2>1, <3>1, <3>2, <3>3 DEF WrittenFields, Progress
  <2> QED BY <1>3, <2>3, <2>4, <2>6, <2>7, <2>8 DEF DataInv
<1> QED BY <1>0, <1>4, <1>5

LEMMA EraseData == ASSUME Inv, DataInv, Erase PROVE DataInv'
<1> USE Sets, InvTypes
<1>0. /\ run.at = "erase" /\ run.at \in Operating
      /\ EraseWorks(run.blk) \/ EraseFails
      /\ run' = [run EXCEPT !.at = "program", !.todo = 0]
      /\ UNCHANGED <<table, buf, call, kept>>
  BY DEF Erase, Operating
<1>1. /\ flash' \in [Block -> [Page -> Content]]
      /\ \A x \in Block : x # run.blk => flash'[x] = flash[x]
      /\ faults' = faults \/ faults' = faults + 1
  BY <1>0, OperationOn
<1>2. /\ Clean' => Clean /\ faults' = faults
      /\ call'.faults <= faults'
  BY <1>0, <1>1, CleanStep
<1>3. /\ run'.at = "program" /\ run'.todo = 0 /\ run'.tables = run.tables
      /\ run'.retry = run.retry /\ run'.blk = run.blk /\ run'.target = run.target
      /\ run'.ok = run.ok
  BY <1>0 DEF RunType
<1>4. Clean' => flash'[run.blk] = BlankBlock
  BY <1>0, <1>2 DEF EraseWorks, EraseFails, Fault
<1>5. Settled' /\ Stored'
  BY <1>0, <1>1, <1>2, SettledStep, StoredStep
<1>6. Control' /\ Working'
  BY <1>0, <1>2, <1>3 DEF DataInv, Control, Working, Live, Promised
<1>7. Clean => ~run.retry
  BY <1>0 DEF DataInv, Hopeless
<1>8. Healthy'
  BY <1>0, <1>2, <1>3 DEF DataInv, Healthy, Writing, IsBad, Target
<1>9. Blanked' /\ Hopeless'
  BY <1>0, <1>2, <1>3, <1>4, <1>7 DEF DataInv, Blanked, Hopeless, BlankBlock
<1>10. Progress'
  <2>1. ASSUME Clean, run.tables, call.op = "write"
        PROVE  OnFlash(kept[call.block].at)'
    BY <1>0, <1>1, <2>1, SavingKeeps
  <2>2. ASSUME Clean, ~run.tables, call.op = "write" PROVE Changed(buf)'
    BY <1>0, <2>2 DEF DataInv, Progress, Changed, Promised
  <2>3. \A p \in Page : ~(p < 0)
    BY DEF Page
  <2> QED BY <1>0, <1>2, <1>3, <2>1, <2>2, <2>3 DEF Progress
<1> QED BY <1>5, <1>6, <1>8, <1>9, <1>10 DEF DataInv

LEMMA ProgramData == ASSUME Inv, DataInv, Program PROVE DataInv'
<1> USE Sets, InvTypes
<1>0. /\ run.at = "program" /\ run.at \in Operating /\ run.todo \in Page
      /\ UNCHANGED <<table, buf, call, kept>>
  BY NandConstants DEF Program, Operating, Page
<1>a. \/ /\ buf[run.todo] = Blank
         /\ run' = [run EXCEPT !.todo = run.todo + 1]
         /\ UNCHANGED <<flash, faults>>
      \/ /\ ProgramWorks(run.blk, run.todo, buf[run.todo])
         /\ run' = [run EXCEPT !.todo = run.todo + 1]
      \/ /\ ProgramFails(run.blk, run.todo, buf[run.todo])
         /\ run' = [run EXCEPT !.at = "mark"]
  BY DEF Program, flashVars
<1>1. /\ flash' \in [Block -> [Page -> Content]]
      /\ \A x \in Block : x # run.blk => flash'[x] = flash[x]
      /\ faults' = faults \/ faults' = faults + 1
  <2>1. buf[run.todo] \in Content
    BY <1>0
  <2> QED BY <1>0, <1>a, <2>1, OperationOn
<1>2. /\ Clean' => Clean /\ faults' = faults
      /\ call'.faults <= faults'
  BY <1>0, <1>1, CleanStep
<1>3. Settled' /\ Stored'
  BY <1>0, <1>1, <1>2, SettledStep, StoredStep
<1>4. CASE /\ ProgramFails(run.blk, run.todo, buf[run.todo])
           /\ run' = [run EXCEPT !.at = "mark"]
  <2>1. ~Clean'
    BY <1>0, <1>2, <1>4 DEF ProgramFails, CanProgram, Fault, DataInv, Blanked, Page
  <2>2. /\ run'.at = "mark" /\ run'.tables = run.tables /\ run'.retry = run.retry
        /\ run'.blk = run.blk /\ run'.target = run.target
    BY <1>4 DEF RunType
  <2>3. Control'
    BY <1>0, <1>2, <2>2 DEF DataInv, Control
  <2>4. Working'
    BY <1>0, <2>2 DEF DataInv, Working, Live, Promised
  <2> QED BY <1>3, <2>1, <2>3, <2>4 DEF DataInv, Healthy, Blanked, Hopeless, Progress
<1>5. CASE /\ run' = [run EXCEPT !.todo = run.todo + 1]
           /\ \/ buf[run.todo] = Blank /\ UNCHANGED flash
              \/ ProgramWorks(run.blk, run.todo, buf[run.todo])
  <2>1. /\ run'.at = "program" /\ run'.todo = run.todo + 1 /\ run'.tables = run.tables
        /\ run'.retry = run.retry /\ run'.blk = run.blk /\ run'.target = run.target
        /\ run'.ok = run.ok
    BY <1>0, <1>5 DEF RunType
  <2>2. /\ \A p \in Page : p # run.todo => flash'[run.blk][p] = flash[run.blk][p]
        /\ Clean => flash'[run.blk][run.todo] = buf[run.todo]
    <3>1. Clean => flash[run.blk][run.todo] = Blank
      BY <1>0 DEF DataInv, Blanked, Page
    <3> QED BY <1>0, <1>5, <3>1 DEF ProgramWorks
  <2>3. Control' /\ Working'
    BY <1>0, <1>2, <2>1 DEF DataInv, Control, Working, Live, Promised
  <2>4. Healthy' /\ Hopeless'
    BY <1>0, <1>2, <2>1 DEF DataInv, Healthy, Hopeless, Writing, IsBad, Target
  <2>5. Blanked'
    <3>1. ASSUME Clean, NEW p \in Page, p >= run.todo + 1
          PROVE  flash'[run.blk][p] = Blank
      BY <1>0, <2>2, <3>1 DEF DataInv, Blanked, Page
    <3> QED BY <1>0, <1>2, <2>1, <3>1 DEF DataInv, Blanked
  <2>6. Progress'
    <3>1. ASSUME Clean, run.tables, call.op = "write"
          PROVE  OnFlash(kept[call.block].at)'
      BY <1>0, <1>1, <3>1, SavingKeeps
    <3>2. ASSUME Clean, ~run.tables, call.op = "write" PROVE Changed(buf)'
      BY <1>0, <3>2 DEF DataInv, Progress, Changed, Promised
    <3>3. ASSUME Clean, NEW p \in Page, p < run.todo + 1
          PROVE  flash'[run.blk][p] = buf[p]
      <4>1. CASE p = run.todo
        BY <2>2, <3>3, <4>1
      <4>2. CASE p # run.todo
        <5>1. p < run.todo
          BY <1>0, <3>3, <4>2 DEF Page
        <5>2. flash[run.blk][p] = buf[p]
          BY <1>0, <3>3, <5>1 DEF DataInv, Progress
        <5> QED BY <2>2, <4>2, <5>2
      <4> QED BY <4>1, <4>2
    <3> QED BY <1>0, <1>2, <2>1, <3>1, <3>2, <3>3 DEF Progress
  <2> QED BY <1>3, <2>3, <2>4, <2>5, <2>6 DEF DataInv
<1> QED BY <1>a, <1>4, <1>5

LEMMA ProgrammedData == ASSUME Inv, DataInv, Programmed PROVE DataInv'
<1> USE Sets, InvTypes
<1>0. /\ run.at = "program" /\ run.todo = NPages /\ run.at \in Operating
      /\ run' = AfterWrite(run, TRUE)
      /\ UNCHANGED <<flash, table, buf, call, faults, kept>>
  BY DEF Programmed, flashVars, Operating
<1>1. WrittenFields(run, run')
  BY <1>0, AfterWriteOk
<1>2. Settled'
  BY <1>0, SettledStep DEF Clean
<1>3. Stored'
  BY <1>0 DEF DataInv, Stored, Changing, Promised
<1>4. Control' /\ Working'
  BY <1>0, <1>1 DEF WrittenFields, DataInv, Control, Working, Live, Promised
<1>5. Clean => ~run.retry
  BY <1>0 DEF DataInv, Hopeless
<1>6. Clean' <=> Clean
  BY <1>0 DEF Clean
<1>7. Healthy'
  BY <1>0, <1>1, <1>6
     DEF WrittenFields, DataInv, Control, Healthy, Writing, IsBad, Target
<1>8. Blanked' /\ Hopeless'
  BY <1>1, <1>5, <1>6 DEF WrittenFields, Blanked, Hopeless
<1>9. Progress'
  <2>1. Clean /\ run.tables /\ call.op = "write" => OnFlash(kept[call.block].at)'
    BY <1>0 DEF DataInv, Progress, OnFlash, Promised
  <2>2. ASSUME Clean, ~run.tables, call.op = "write"
        PROVE  Changed(flash[run.blk])'
    <3>1. \A p \in Page : flash[run.blk][p] = buf[p]
      BY <1>0, <2>2, NandConstants DEF DataInv, Progress, Page
    <3>2. Changed(buf)
      BY <1>0, <2>2 DEF DataInv, Progress
    <3>3. Changed(flash[run.blk])
      BY <3>1, <3>2 DEF Changed
    <3>4. run'.blk = run.blk
      BY <1>1 DEF WrittenFields
    <3>5. Changed(flash[run.blk])' <=> Changed(flash[run.blk])
      BY <1>0, <3>4 DEF Changed, Promised
    <3> QED BY <3>3, <3>5
  <2>3. ~run.tables => call.op = "write"
    BY <1>0 DEF DataInv, Control
  <2> QED BY <1>0, <1>1, <1>6, <2>1, <2>2, <2>3 DEF WrittenFields, Progress
<1> QED BY <1>2, <1>3, <1>4, <1>7, <1>8, <1>9 DEF DataInv

-----------------------------------------------------------------------------
(* bbm_mark_bad_block and bbm_update_table.                                *)
LEMMA MarkedAlready ==
    ASSUME Inv, DataInv, run.at \in {"mark", "tag"}, run' = AfterWrite(run, FALSE),
           UNCHANGED <<flash, table, call, kept>>,
           faults' = faults \/ faults' = faults + 1
    PROVE  DataInv'
<1> USE Sets, InvTypes
<1>1. NotWrittenFields(run, run')
  BY AfterWriteFails
<1>2. /\ Clean' => Clean /\ faults' = faults
      /\ call'.faults <= faults'
  BY CleanStep
<1>3. ~run.tables => call.op = "write"
  BY DEF DataInv, Control
<1>4. Settled'
  BY <1>2, SettledStep
<1>5. Stored'
  BY DEF DataInv, Stored, Changing, Promised
<1>6. Control' /\ Working'
  BY <1>1, <1>2, <1>3 DEF NotWrittenFields, DataInv, Control, Working, Live, Promised
<1>7. Clean => ~run.tables /\ run.retry
  BY DEF DataInv, Hopeless, Blanked
<1>8. Healthy' /\ Blanked'
  BY <1>1, <1>2, <1>3, <1>7
     DEF NotWrittenFields, DataInv, Healthy, Blanked, Writing, IsBad
<1>9. Hopeless'
  <2>1. FreeBlocks' = FreeBlocks
    BY DEF FreeBlocks, IsBad, IsRemap
  <2>2. ASSUME Clean
        PROVE  /\ run.target = 0 /\ FreeBlocks = {} /\ IsBad(call.block)'
               /\ (table[call.block] \in Reserve => IsBad(table[call.block]))'
    BY <1>7, <2>2 DEF DataInv, Hopeless, IsBad
  <2>3. Clean => /\ run'.retry /\ ~run'.tables /\ run'.target = run.target
                 /\ run'.at \in {"find", "return"}
                 /\ run'.at = "return" => ~run'.ok
    BY <1>1, <1>7 DEF NotWrittenFields
  <2> QED BY <1>2, <2>1, <2>2, <2>3 DEF Hopeless
<1>10. Progress'
  <2>1. ASSUME Clean, call.op = "write" PROVE OnFlash(kept[call.block].at)'
    <3>1. ~Live(call.block)
      BY <1>7, <2>1 DEF DataInv, Hopeless, Settled, Target, IsBad, TableType
    <3> QED BY <3>1 DEF OnFlash, Live, Promised
  <2> QED BY <1>1, <1>2, <1>3, <1>7, <2>1 DEF NotWrittenFields, Progress
<1> QED BY <1>4, <1>5, <1>6, <1>8, <1>9, <1>10 DEF DataInv

LEMMA TagData == ASSUME Inv, DataInv, Tag PROVE DataInv'
BY MarkedAlready, InvTypes DEF Tag, EraseFails, Fault, flashVars

LEMMA MarkData == ASSUME Inv, DataInv, Mark PROVE DataInv'
<1> USE Sets, InvTypes
<1>1. CASE IsBad(run.blk)
  BY <1>1, MarkedAlready DEF Mark, flashVars
<1>2. CASE ~IsBad(run.blk)
  <2>0. /\ run.at = "mark" /\ run.at \in Operating
        /\ table' = [table EXCEPT ![run.blk] = NoRemap]
        /\ EraseWorks(run.blk) \/ EraseFails
        /\ run' = [run EXCEPT !.at = "tag"]
        /\ UNCHANGED <<call, kept>>
    BY <1>2 DEF Mark, Operating
  <2>1. /\ flash' \in [Block -> [Page -> Content]]
        /\ \A x \in Block : x # run.blk => flash'[x] = flash[x]
        /\ faults' = faults \/ faults' = faults + 1
    BY <2>0, OperationOn DEF Content
  <2>2. /\ Clean' => Clean /\ faults' = faults
        /\ call'.faults <= faults'
    BY <2>0, <2>1, CleanStep
  <2>3. /\ run'.at = "tag" /\ run'.tables = run.tables /\ run'.retry = run.retry
        /\ run'.blk = run.blk /\ run'.target = run.target
    BY <2>0 DEF RunType
  <2>4. /\ table'[run.blk] = NoRemap
        /\ \A x \in Block : x # run.blk => table'[x] = table[x]
    BY <2>0 DEF TableType
  <2>5. Clean => /\ ~run.tables /\ run.retry /\ run.blk = 0 /\ run.target = 0
                 /\ ~Live(call.block)
    BY <2>0 DEF DataInv, Hopeless, Blanked, Settled, Target, IsBad, TableType
  <2>6. Settled'
    <3> SUFFICES ASSUME NEW c \in User, Live(c), Changing(c) => Clean
                 PROVE  /\ kept[c].at \in Block /\ kept[c].at = Target(c)'
                        /\ ~IsBad(kept[c].at)'
      BY <2>0, <2>2 DEF Settled, Live, Promised, Changing
    <3>1. ~Changing(c)
      BY <2>5 DEF Changing
    <3>2. run.blk # kept[c].at
      BY <2>0, <3>1, Apart
    <3>3. kept[c].at \in Block /\ kept[c].at = Target(c) /\ ~IsBad(kept[c].at)
      BY <2>0 DEF DataInv, Settled
    <3>4. c # run.blk
      BY <1>2, <3>2, <3>3 DEF Target, IsBad
    <3> QED BY <2>0, <2>4, <3>2, <3>3, <3>4 DEF Target, IsBad
  <2>7. Stored'
    BY <2>0, <2>1, StoredStep
  <2>8. Control'
    BY <2>0, <2>2, <2>3 DEF DataInv, Control
  <2>9. Working'
    <3>1. run.target # 0 => run.blk # call.block
      <4>1. User \cap TableBlocks = {}
        BY NandConstants DEF User, TableBlocks, TableBlock
      <4>2. CASE run.tables
        BY <2>0, <4>1, <4>2 DEF DataInv, Control
      <4>3. CASE ~run.tables
        <5>1. call.op = "write"
          BY <2>0, <4>3 DEF DataInv, Control
        <5> QED BY <2>0, <4>3, <5>1 DEF DataInv, Working
      <4> QED BY <4>2, <4>3
    <3> QED BY <2>0, <2>3, <2>4, <3>1 DEF DataInv, Working, Live, Promised
  <2>10. Healthy' /\ Blanked' /\ Progress'
    BY <2>2, <2>3, <2>5 DEF Healthy, Writing, Blanked, Progress
  <2>11. Hopeless'
    <3> SUFFICES ASSUME Clean, Clean' PROVE Hopeless'
      BY <2>2 DEF Hopeless
    <3>1. /\ FreeBlocks = {} /\ IsBad(call.block)
          /\ table[call.block] \in Reserve => IsBad(table[call.block])
      BY <2>0, <2>5 DEF DataInv, Hopeless
    <3>2. \A x \in Block : IsBad(x) => IsBad(x)'
      BY <2>4 DEF IsBad
    <3>3. \A r \in Reserve : IsRemap(r) => IsRemap(r)'
      <4> SUFFICES ASSUME NEW r \in Reserve, NEW x \in Block, table[x] = r
                   PROVE  table'[x] = r
        BY DEF IsRemap
      <4> QED BY <1>2, <2>4 DEF IsBad
    <3>4. FreeBlocks' = {}
      BY <3>1, <3>2, <3>3 DEF FreeBlocks
    <3>5. call.block # run.blk
      BY <1>2, <3>1
    <3> QED BY <2>0, <2>3, <2>4, <2>5, <3>1, <3>2, <3>4, <3>5 DEF Hopeless
  <2> QED BY <2>6, <2>7, <2>8, <2>9, <2>10, <2>11 DEF DataInv
<1> QED BY <1>1, <1>2

LEMMA NextTableBlock ==
    ASSUME Inv, run.tb # NTables PROVE TableBlock(run.tb) \in TableBlocks
<1>1. run.tb \in 0 .. NTables
  BY DEF Inv, TypeOK, RunType
<1>2. run.tb < NTables
  BY <1>1, NandConstants
<1> QED BY <1>1, <1>2, Sets

LEMMA TablesData == ASSUME Inv, DataInv, Tables PROVE DataInv'
<1> USE Sets, InvTypes
<1>0. /\ run.at = "tables" /\ run.tables
      /\ run' = IF run.copies = 2 \/ run.tb = NTables THEN AfterTables(run)
                ELSE IF IsBad(TableBlock(run.tb)) THEN [run EXCEPT !.tb = run.tb + 1]
                ELSE [run EXCEPT !.at = "look", !.blk = TableBlock(run.tb)]
      /\ UNCHANGED <<flash, table, buf, call, faults, kept>>
  BY DEF Tables, flashVars, DataInv, Control
<1>1. Clean' <=> Clean
  BY <1>0 DEF Clean
<1>2. Settled'
  BY <1>0, <1>1, SettledStep
<1>3. Stored'
  BY <1>0 DEF DataInv, Stored, Changing, Promised
<1>4. Clean => run.ok /\ ~run.retry
  BY <1>0 DEF DataInv, Blanked, Hopeless
<1>5. Clean /\ call.op = "write" => OnFlash(kept[call.block].at)'
  BY <1>0 DEF DataInv, Progress, OnFlash, Promised
<1>6. CASE ~(run.copies = 2 \/ run.tb = NTables)
  <2>1. /\ run'.at \in {"tables", "look"} /\ run'.tables /\ run'.ok = run.ok
        /\ run'.target = run.target /\ run'.retry = run.retry
        /\ run'.at = "look" => run'.blk \in TableBlocks
    <3>1. TableBlock(run.tb) \in TableBlocks
      BY <1>6, NextTableBlock
    <3> QED BY <1>0, <1>6, <3>1 DEF RunType
  <2>2. Control' /\ Working'
    BY <1>0, <2>1 DEF DataInv, Control, Working, Live, Promised
  <2>3. Healthy' /\ Blanked' /\ Hopeless' /\ Progress'
    BY <1>0, <1>1, <1>4, <1>5, <2>1
       DEF DataInv, Healthy, Writing, Blanked, Hopeless, Progress, IsBad
  <2> QED BY <1>2, <1>3, <2>2, <2>3 DEF DataInv
<1>7. CASE (run.copies = 2 \/ run.tb = NTables) /\ call.op = "init"
  <2>1. run' = AfterTables(run)
    BY <1>0, <1>7
  <2>2. /\ run'.at \in {"idle", "off"} /\ ~run'.tables
        /\ run'.target = run.target /\ run'.retry = run.retry
    BY <1>7, <2>1 DEF AfterTables, RunType
  <2>3. Control' /\ Working'
    BY <1>0, <1>7, <2>2 DEF DataInv, Control, Working
  <2>4. Healthy' /\ Blanked' /\ Hopeless' /\ Progress'
    BY <1>0, <1>1, <1>4, <1>7, <2>2
       DEF DataInv, Healthy, Writing, Blanked, Hopeless, Progress, IsBad
  <2> QED BY <1>2, <1>3, <2>3, <2>4 DEF DataInv
<1>8. CASE (run.copies = 2 \/ run.tb = NTables) /\ call.op # "init"
  <2>1. run' = AfterFind(run, run.ok, run.target)
    BY <1>0, <1>8 DEF AfterTables
  <2>2. /\ run.target # 0 /\ run.target \in Reserve
        /\ table[call.block] = run.target
        /\ Clean => ~IsBad(run.target)
    BY <1>0, <1>8 DEF DataInv, Working, Healthy
  <2>3. Target(call.block) = run.target
    BY <2>2 DEF Target
  <2>4. CASE run.ok
    <3>1. FoundFields(call.op, run, run.target, run')
      BY <2>1, <2>4, AfterFindOk
    <3>2. Control' /\ Working'
      BY <1>0, <1>8, <2>2, <3>1 DEF FoundFields, DataInv, Control, Working
    <3>3. Healthy'
      BY <1>0, <1>1, <2>2, <2>3, <3>1 DEF FoundFields, Healthy, IsBad, Target
    <3>4. Blanked' /\ Hopeless' /\ Progress'
      BY <1>0, <1>1, <1>4, <1>5, <1>8, <3>1
         DEF FoundFields, Blanked, Hopeless, Progress
    <3> QED BY <1>2, <1>3, <3>2, <3>3, <3>4 DEF DataInv
  <2>5. CASE ~run.ok
    <3>1. NotFoundFields(call.op, run, run.target, run')
      BY <2>1, <2>5, AfterFindFails
    <3>2. Control' /\ Working'
      BY <1>0, <1>8, <2>2, <3>1 DEF NotFoundFields, DataInv, Control, Working
    <3>3. ~Clean'
      BY <1>1, <1>4, <2>5
    <3> QED BY <1>2, <1>3, <3>2, <3>3
          DEF DataInv, Healthy, Blanked, Hopeless, Progress
  <2> QED BY <2>4, <2>5
<1> QED BY <1>6, <1>7, <1>8

-----------------------------------------------------------------------------
(* Calls, their end, boots and power losses.                               *)
LEMMA CallData == ASSUME Inv, DataInv, NEW q \in Requests, Call(q) PROVE DataInv'
<1> USE Sets, InvTypes
<1>0. /\ run.at = "idle" /\ call.op = "init"
      /\ call'.op \in {"read", "write", "erase"} /\ call'.faults = faults
      /\ run'.at = "find" /\ ~run'.tables /\ ~run'.retry /\ run'.target = 0
      /\ UNCHANGED <<flash, table, buf, faults, kept>>
  <2>1. q.op \in {"read", "write", "erase"}
    BY NandConstants
  <2> QED BY <2>1 DEF Call, Fresh, flashVars, DataInv, Control
<1>1. \A c \in User : ~Changing(c)
  BY <1>0 DEF Changing
<1>2. call'.block \in User
  <2>1. q.block \in User
    BY NandConstants
  <2> QED BY <2>1 DEF Call
<1>3. Control' /\ Working' /\ Healthy' /\ Blanked' /\ Hopeless'
  BY <1>0 DEF Control, Working, Healthy, Writing, Blanked, Hopeless
<1>4. Settled'
  BY <1>0, <1>1 DEF DataInv, Settled, Live, Promised, IsBad, Target
<1>5. Stored'
  BY <1>0, <1>1 DEF DataInv, Stored, Promised
<1>6. Progress'
  BY <1>0, <1>1, <1>2 DEF DataInv, Progress, Stored, OnFlash, Promised
<1> QED BY <1>3, <1>4, <1>5, <1>6 DEF DataInv

LEMMA EraseCallData == ASSUME Inv, DataInv, EraseCall PROVE DataInv'
<1> USE Sets, InvTypes
<1>0. /\ run.at = "eraseCall" /\ run.at \in Operating /\ call.op = "erase"
      /\ ~run.tables /\ ~run.retry
      /\ EraseWorks(run.blk) \/ EraseFails
      /\ UNCHANGED <<table, buf, call, kept>>
  BY DEF EraseCall, Operating, DataInv, Control
<1>1. /\ flash' \in [Block -> [Page -> Content]]
      /\ \A x \in Block : x # run.blk => flash'[x] = flash[x]
      /\ faults' = faults \/ faults' = faults + 1
  BY <1>0, OperationOn DEF Content
<1>2. /\ Clean' => Clean /\ faults' = faults
      /\ call'.faults <= faults'
  BY <1>0, <1>1, CleanStep
<1>3. /\ run'.at \in {"return", "find"} /\ ~run'.tables /\ ~run'.retry
      /\ run'.blk = run.blk /\ run'.target = run.target
      /\ EraseWorks(run.blk) \/ ~Clean'
  <2>1. \/ EraseWorks(run.blk) /\ run' = Returns(run, TRUE)
        \/ EraseFails /\ run' = Returns(run, FALSE)
        \/ EraseFails /\ run' = [run EXCEPT !.at = "find", !.tries = run.tries + 1]
    BY DEF EraseCall
  <2>2. EraseFails => ~Clean'
    BY <1>0, <1>2 DEF EraseFails, Fault
  <2> QED BY <1>0, <2>1, <2>2 DEF Returns, RunType
<1>4. Settled' /\ Stored'
  BY <1>0, <1>1, <1>2, SettledStep, StoredStep
<1>5. Control' /\ Working'
  BY <1>0, <1>2, <1>3 DEF DataInv, Control, Working, Live, Promised
<1>6. Healthy'
  BY <1>0, <1>2, <1>3 DEF DataInv, Healthy, Writing, IsBad, Target
<1>7. Blanked' /\ Hopeless'
  BY <1>3 DEF Blanked, Hopeless
<1>8. Progress'
  BY <1>0, <1>2, <1>3 DEF Progress, EraseWorks
<1> QED BY <1>4, <1>5, <1>6, <1>7, <1>8 DEF DataInv

LEMMA ReturnData == ASSUME Inv, DataInv, Return PROVE DataInv'
<1> USE Sets, InvTypes
<1>0. /\ run.at = "return" /\ call.op # "init" /\ ~run.tables
      /\ call'.op = "init" /\ call'.faults = 0
      /\ run'.at = "idle" /\ ~run'.tables /\ ~run'.retry /\ run'.target = 0
      /\ kept' = IF call.op = "read" THEN kept
                 ELSE [kept EXCEPT ![call.block] = Kept(call.block)]
      /\ UNCHANGED <<flash, table, buf, faults>>
  BY DEF Return, Fresh, NoCall, flashVars, DataInv, Control
<1>1. Control' /\ Working' /\ Healthy' /\ Blanked' /\ Hopeless' /\ Progress'
  BY <1>0 DEF Control, Working, Healthy, Writing, Blanked, Hopeless, Progress
<1>2. \A c \in User : ~Changing(c)'
  BY <1>0 DEF Changing
<1>3. ASSUME NEW c \in User, NEW p \in Page, Promised(c, p)'
      PROVE  /\ kept'[c].at \in Block /\ kept'[c].at = Target(c)
             /\ ~IsBad(kept'[c].at) /\ flash[kept'[c].at][p] = kept'[c].data[p]
  <2>1. CASE ~Changing(c)
    <3>1. kept'[c] = kept[c]
      BY <1>0, <2>1 DEF Changing
    <3>2. Promised(c, p) /\ Live(c)
      BY <1>3, <3>1 DEF Promised, Live
    <3> QED BY <1>0, <2>1, <3>1, <3>2 DEF DataInv, Settled, Stored
  <2>2. CASE Changing(c)
    <3>1. kept'[c] = Kept(c) /\ c = call.block /\ call.op \in {"write", "erase"}
      BY <1>0, <2>2 DEF Changing
    <3>2. Clean /\ run.ok /\ run.blk = Target(c)
      BY <1>3, <3>1 DEF Promised, Kept, Clean
    <3>3. Kept(c).at = Target(c) /\ ~IsBad(run.blk)
      BY <1>0, <3>1, <3>2 DEF Kept, DataInv, Healthy
    <3>4. flash[run.blk][p] = Kept(c).data[p]
      <4>1. CASE call.op = "erase"
        BY <1>0, <3>1, <3>2, <4>1 DEF Kept, Clean, DataInv, Progress, BlankBlock
      <4>2. CASE call.op = "write" /\ p = call.page
        BY <1>0, <3>1, <3>2, <4>2 DEF Kept, Clean, DataInv, Progress, Changed
      <4>3. CASE call.op = "write" /\ p # call.page
        <5>1. Kept(c).data[p] = IF kept[c].at = Target(c) THEN kept[c].data[p]
                                ELSE Unknown
          BY <3>2, <4>3 DEF Kept, Clean
        <5>2. Kept(c).data[p] = kept[c].data[p] /\ Promised(c, p)
          BY <1>3, <3>1, <5>1 DEF Promised
        <5> QED BY <1>0, <3>1, <3>2, <4>3, <5>2 DEF DataInv, Progress, Changed
      <4> QED BY <3>1, <4>1, <4>2, <4>3
    <3> QED BY <3>1, <3>2, <3>3, <3>4
  <2> QED BY <2>1, <2>2
<1>4. Settled' /\ Stored'
  BY <1>0, <1>3 DEF Settled, Stored, Live, IsBad, Target
<1> QED BY <1>1, <1>4 DEF DataInv

LEMMA BootData == ASSUME Inv, DataInv, Boot PROVE DataInv'
<1> USE Sets, InvTypes
<1>0. /\ run.at = "off" /\ call'.op = "init" /\ call'.faults = 0
      /\ kept' = KeptAfterBoot
      /\ ~run'.retry /\ run'.target = 0 /\ run'.ok
      /\ \/ run'.at = "idle" /\ ~run'.tables
         \/ run'.at = "tables" /\ run'.tables
      /\ UNCHANGED <<flash, faults>>
  <2>1. CASE BootLoad
    BY <2>1 DEF BootLoad, Fresh, NoCall, flashVars
  <2>2. CASE BootCreate
    <3>1. run' = ToTables(Fresh("off"))
      BY <2>2 DEF BootCreate
    <3>2. /\ ~run'.retry /\ run'.target = 0 /\ run'.ok
          /\ run'.at = "tables" /\ run'.tables
      BY <3>1 DEF ToTables, Fresh
    <3> QED BY <2>2, <3>2 DEF BootCreate, NoCall, flashVars
  <2> QED BY <2>1, <2>2 DEF Boot
<1>1. table' \in TableType
  <2>1. Inv'
    BY BootSteps
  <2> QED BY <2>1 DEF Inv, TypeOK
<1>2. Control' /\ Working' /\ Healthy' /\ Blanked' /\ Hopeless' /\ Progress'
  BY <1>0 DEF Control, Working, Healthy, Writing, Blanked, Hopeless, Progress
<1>3. call.op = "init"
  BY <1>0 DEF DataInv, Control
<1>4. ASSUME NEW c \in User, NEW p \in Page, Promised(c, p)'
      PROVE  /\ kept'[c] = kept[c] /\ kept[c].at \in Block
             /\ Serves(table', c, kept[c].at)
             /\ flash[kept[c].at][p] = kept[c].data[p]
  <2>1. Serves(table', c, kept[c].at) /\ kept'[c] = kept[c]
    BY <1>0, <1>4 DEF KeptAfterBoot, Promised, NoPromise
  <2>2. Promised(c, p)
    BY <1>4, <2>1 DEF Promised
  <2> QED BY <1>3, <2>1, <2>2 DEF DataInv, Stored, Changing
<1>5. Settled'
  BY <1>1, <1>4 DEF Settled, Live, Serves, Target, IsBad, TableType
<1>6. Stored'
  BY <1>0, <1>4 DEF Stored
<1> QED BY <1>2, <1>5, <1>6 DEF DataInv

LEMMA PowerLossData == ASSUME Inv, DataInv, PowerLoss PROVE DataInv'
<1> USE Sets, InvTypes
<1>0. /\ run.at # "off" /\ call'.op = "init" /\ call'.faults = 0
      /\ run'.at = "off" /\ ~run'.tables /\ ~run'.retry /\ run'.target = 0
      /\ kept' = IF run.at = "idle" \/ call.op \in {"read", "init"} THEN kept
                 ELSE [kept EXCEPT ![call.block].data = NoPromise]
      /\ flash' \in {flash, HalfDone}
      /\ UNCHANGED faults
  BY DEF PowerLoss, Fresh, NoCall
<1>1. /\ Control' /\ Settled' /\ Working' /\ Healthy' /\ Blanked' /\ Hopeless'
      /\ Progress'
  BY <1>0 DEF Control, Settled, Working, Healthy, Writing, Blanked, Hopeless, Progress
<1>2. Stored'
  <2> SUFFICES ASSUME NEW c \in User, NEW p \in Page, Promised(c, p)'
               PROVE  /\ kept'[c].at \in Block
                      /\ flash'[kept'[c].at][p] = kept'[c].data[p]
    BY DEF Stored
  <2>1. ~Changing(c) /\ kept'[c] = kept[c]
    <3>1. CASE run.at = "idle" \/ call.op \in {"read", "init"}
      BY <1>0, <3>1 DEF Changing, DataInv, Control
    <3>2. CASE ~(run.at = "idle" \/ call.op \in {"read", "init"})
      <4>1. c # call.block
        BY <1>0, <3>2 DEF Promised, NoPromise
      <4> QED BY <1>0, <3>2, <4>1 DEF Changing
    <3> QED BY <3>1, <3>2
  <2>2. Promised(c, p) /\ Live(c)
    BY <2>1 DEF Promised, Live
  <2>3. kept[c].at \in Block /\ flash[kept[c].at][p] = kept[c].data[p]
    BY <2>1, <2>2 DEF DataInv, Stored
  <2>4. flash'[kept[c].at] = flash[kept[c].at]
    <3>1. CASE run.at \in Operating
      <4>1. \A x \in Block : x # run.blk => flash'[x] = flash[x]
        BY <1>0 DEF HalfDone
      <4> QED BY <2>1, <2>2, <2>3, <3>1, <4>1, Apart
    <3>2. CASE run.at \notin Operating
      BY <1>0, <3>2 DEF HalfDone, Operating
    <3> QED BY <3>1, <3>2
  <2> QED BY <2>1, <2>3, <2>4
<1> QED BY <1>1, <1>2 DEF DataInv

LEMMA InitData == Init => DataInv
<1> SUFFICES ASSUME Init PROVE DataInv
  OBVIOUS
<1> USE Sets DEF Init
<1>1. /\ run.at = "off" /\ ~run.tables /\ ~run.retry /\ run.target = 0
      /\ call.op = "init" /\ call.faults = 0
  BY DEF Fresh, NoCall
<1>2. Stored
  BY DEF Stored, BlankBlock
<1> QED BY <1>1, <1>2 DEF DataInv, Control, Settled, Working, Healthy, Writing,
                          Blanked, Hopeless, Progress

LEMMA NextData == Inv /\ DataInv /\ [Next]_vars => DataInv'
<1> SUFFICES ASSUME Inv, DataInv, [Next]_vars PROVE DataInv'
  OBVIOUS
<1>1. CASE UNCHANGED vars
  BY <1>1
     DEF vars, flashVars, DataInv, Control, Settled, Stored, Working, Healthy,
         Writing, Blanked, Hopeless, Progress, OnFlash, Changed, Promised, Live,
         Changing, Clean, Target, IsBad, IsRemap, FreeBlocks, ThePage
<1>2. CASE Next
  BY <1>2, CallData, BootData, FindGoodData, FindRemapData, FindFirstData,
     FindAnotherData, FindNoneData, LookData, DirectData, EraseData, ProgramData,
     ProgrammedData, MarkData, TagData, TablesData, EraseCallData, ReturnData,
     PowerLossData
     DEF Next, Work, Find
<1> QED BY <1>1, <1>2

(* What a call put in a page stays there while its block is served by the  *)
(* same flash block, whatever calls on other blocks, failures, remapping,  *)
(* the saving of the table and restarts come between (ftl_write_nand,      *)
(* ftl_erase_nand).                                                        *)
THEOREM DataStay == Spec => []DataStays
<1>1. Inv /\ DataInv => DataStays
  BY DEF DataInv, Control, Stored, Promised, Changing, DataStays
<1> QED BY <1>1, InitInv, NextInv, InitData, NextData, PTL DEF Spec

-----------------------------------------------------------------------------
(* The copy that a boot would accept: the inductive invariant.             *)

(* A copy that serves every user block as the table in memory does.        *)
Current(t) == \A b \in User :
    \/ Served(t, b) = Target(b) \/ Target(b) = NoRemap
    \/ t[b] \in Reserve /\ IsBad(t[b])

(* Outside of bbm_update_table the first untagged copy is current, if its  *)
(* block is one of the first two good ones...                              *)
AcceptedInv == run.at # "off" /\ ~run.tables =>
    \A i \in Accepted : \/ IsBad(TableBlock(i)) \/ Cardinality(TakenAsGood(i)) > 1
                        \/ Current(copy[TableBlock(i)])

(* ... because bbm_update_table has written every good block it has passed.*)
SavingInv == run.tables =>
    /\ run.copies = Cardinality(TakenAsGood(run.tb))
    /\ \A j \in 0 .. run.tb - 1 :
          IsBad(TableBlock(j)) \/ Current(copy[TableBlock(j)])
    /\ run.at # "tables" => /\ run.blk = TableBlock(run.tb)
                            /\ IsBad(run.blk) <=> run.at = "tag"
    /\ run.at \in {"erase", "program"} => buf[0] = TablePage
    /\ run.at = "program" /\ run.todo > 0 => Current(copy[run.blk])

CopyInv == AcceptedInv /\ SavingInv

(* The table blocks, by number.                                            *)
LEMMA TableNumbers ==
    /\ \A i, j \in 0 .. NTables : TableBlock(i) = TableBlock(j) => i = j
    /\ \A i \in 0 .. NTables - 1 : TableBlock(i) \in TableBlocks
    /\ \A i \in 0 .. NTables : \A j \in 0 .. i - 1 :
          j \in 0 .. NTables - 1 /\ j \in 0 .. NTables /\ TableBlock(j) \in TableBlocks
    /\ \A x \in TableBlocks : x \in Block /\ x \notin User /\ x \notin Reserve
    /\ 0 \notin TableBlocks
BY NandConstants DEF TableBlock, TableBlocks, Block, User, Reserve

LEMMA CopyTypes ==
    ASSUME Inv
    PROVE  /\ copy \in [TableBlocks -> TableType] /\ tagged \subseteq Block
           /\ run.tb \in 0 .. NTables /\ run.copies \in 0 .. 2
           /\ run.todo \in 0 .. NPages
           /\ run.tables /\ run.at # "tables" => run.copies < 2 /\ run.tb \in 0 .. NTables - 1
BY NandConstants DEF Inv, TypeOK, RunType, Counting

(* The number of good table blocks before the i-th, and one further.       *)
LEMMA GoodBefore ==
    ASSUME NEW i \in 0 .. NTables
    PROVE  /\ TakenAsGood(i) \subseteq 0 .. i - 1
           /\ IsFiniteSet(TakenAsGood(i)) /\ Cardinality(TakenAsGood(i)) \in Nat
           /\ TakenAsGood(0) = {} /\ Cardinality(TakenAsGood(0)) = 0
           /\ Cardinality(TakenAsGood(i + 1)) =
                 Cardinality(TakenAsGood(i)) + (IF IsBad(TableBlock(i)) THEN 0 ELSE 1)
<1>0. i \in Nat
  BY NandConstants
<1>1. TakenAsGood(i) \subseteq 0 .. i - 1
  BY DEF TakenAsGood
<1>2. IsFiniteSet(0 .. i - 1)
  BY <1>0, FS_Interval
<1>3. IsFiniteSet(TakenAsGood(i))
  BY <1>1, <1>2, FS_Subset
<1>4. TakenAsGood(0) = {}
  BY DEF TakenAsGood
<1>5. 0 .. i + 1 - 1 = (0 .. i - 1) \cup {i} /\ i \notin 0 .. i - 1
  BY <1>0
<1>6. CASE IsBad(TableBlock(i))
  <2>1. TakenAsGood(i + 1) = TakenAsGood(i)
    BY <1>5, <1>6 DEF TakenAsGood
  <2>2. Cardinality(TakenAsGood(i)) \in Nat
    BY <1>3, FS_CardinalityType
  <2> QED BY <1>1, <1>3, <1>4, <1>6, <2>1, <2>2, FS_EmptySet
<1>7. CASE ~IsBad(TableBlock(i))
  <2>1. TakenAsGood(i + 1) = TakenAsGood(i) \cup {i} /\ i \notin TakenAsGood(i)
    BY <1>5, <1>7 DEF TakenAsGood
  <2>2. Cardinality(TakenAsGood(i) \cup {i}) = Cardinality(TakenAsGood(i)) + 1
    BY <1>3, <2>1, FS_AddElement
  <2>3. Cardinality(TakenAsGood(i)) \in Nat
    BY <1>3, FS_CardinalityType
  <2> QED BY <1>1, <1>3, <1>4, <1>7, <2>1, <2>2, <2>3, FS_EmptySet
<1> QED BY <1>6, <1>7

(* A block that goes bad, and a remap block that is replaced since it is   *)
(* bad, leave a copy as current as it was.                                 *)
LEMMA MarkKeepsCurrent ==
    ASSUME Inv, NEW x \in Block, ~IsBad(x), table' = [table EXCEPT ![x] = NoRemap],
           NEW t \in TableType, Current(t)
    PROVE  Current(t)'
<1> SUFFICES ASSUME NEW b \in User
             PROVE  \/ Served(t, b) = Target(b)' \/ Target(b)' = NoRemap
                    \/ t[b] \in Reserve /\ IsBad(t[b])'
  BY DEF Current, Served
<1>1. /\ table \in [Block -> {Good, NoRemap} \cup Reserve] /\ b \in Block
      /\ Good # NoRemap /\ t[b] \in {Good, NoRemap} \cup Reserve /\ Reserve \subseteq Block
  BY Sets, InvTypes DEF TableType
<1>2. \A r \in Block : IsBad(r) => IsBad(r)'
  BY <1>1 DEF IsBad
<1>3. CASE x = b
  BY <1>1, <1>3 DEF Target
<1>4. CASE x # b
  <2>1. Target(b)' = Target(b)
    BY <1>1, <1>4 DEF Target
  <2> QED BY <1>1, <1>2, <2>1 DEF Current
<1> QED BY <1>3, <1>4

LEMMA AnotherKeepsCurrent ==
    ASSUME Inv, NEW x \in User, table[x] \in Reserve, IsBad(table[x]),
           NEW r \in Reserve, table' = [table EXCEPT ![x] = r],
           NEW t \in TableType, Current(t)
    PROVE  Current(t)'
<1> SUFFICES ASSUME NEW b \in User
             PROVE  \/ Served(t, b) = Target(b)' \/ Target(b)' = NoRemap
                    \/ t[b] \in Reserve /\ IsBad(t[b])'
  BY DEF Current, Served
<1>1. /\ table \in [Block -> {Good, NoRemap} \cup Reserve] /\ b \in Block /\ x \in Block
      /\ Good # NoRemap /\ t[b] \in {Good, NoRemap} \cup Reserve /\ Reserve \subseteq Block
      /\ User \cap Reserve = {} /\ Good \notin Block /\ NoRemap \notin Block
  BY Sets, InvTypes DEF TableType
<1>2. \A q \in Block : IsBad(q) => IsBad(q)'
  BY <1>1 DEF IsBad
<1>3. CASE x = b
  <2>1. Target(b) = table[b]
    BY <1>1, <1>3 DEF Target
  <2>2. t[b] \in Reserve /\ IsBad(t[b])
    BY <1>1, <1>3, <2>1 DEF Current, Served
  <2> QED BY <1>1, <1>2, <2>2
<1>4. CASE x # b
  <2>1. Target(b)' = Target(b)
    BY <1>1, <1>4 DEF Target
  <2> QED BY <1>1, <1>2, <2>1 DEF Current
<1> QED BY <1>3, <1>4

(* Nothing happens to the table blocks.                                    *)
TablesAlone == \A x \in TableBlocks :
    /\ flash'[x] = flash[x] /\ copy'[x] = copy[x] /\ table'[x] = table[x]
    /\ x \in tagged' <=> x \in tagged

LEMMA AcceptedStays ==
    ASSUME Inv, AcceptedInv, run.at # "off", ~run.tables, ~run'.tables,
           TablesAlone, \A t \in TableType : Current(t) => Current(t)'
    PROVE  CopyInv'
<1> SUFFICES ASSUME NEW i \in Accepted'
             PROVE  \/ IsBad(TableBlock(i))' \/ Cardinality(TakenAsGood(i)') > 1
                    \/ Current(copy[TableBlock(i)])'
  BY DEF CopyInv, AcceptedInv, SavingInv
<1>1. /\ i \in 0 .. NTables - 1 /\ i \in 0 .. NTables /\ TableBlock(i) \in TableBlocks
      /\ \A j \in 0 .. i - 1 : TableBlock(j) \in TableBlocks
  BY TableNumbers, NandConstants DEF Accepted
<1>2. i \in Accepted
  BY <1>1 DEF Accepted, TablesAlone
<1>3. TakenAsGood(i)' = TakenAsGood(i) /\ (IsBad(TableBlock(i))' <=> IsBad(TableBlock(i)))
  BY <1>1 DEF TakenAsGood, IsBad, TablesAlone
<1>4. Current(copy[TableBlock(i)]) => Current(copy[TableBlock(i)])'
  <2> DEFINE t == copy[TableBlock(i)]
  <2>1. t \in TableType /\ copy'[TableBlock(i)] = t
    BY <1>1, CopyTypes DEF TablesAlone
  <2>2. Current(t) => Current(copy[TableBlock(i)])'
    <3>1. ASSUME NEW u \in TableType, copy'[TableBlock(i)] = u, Current(u)'
          PROVE  Current(copy[TableBlock(i)])'
      BY <3>1 DEF Current, Served
    <3>2. ASSUME NEW u \in TableType, copy'[TableBlock(i)] = u, Current(u)
          PROVE  Current(copy[TableBlock(i)])'
      BY <3>1, <3>2
    <3> QED BY <2>1, <3>2
  <2> QED BY <2>2
<1> QED BY <1>2, <1>3, <1>4 DEF AcceptedInv

(* A flash operation of a call works on no table block.                    *)
LEMMA OffTables ==
    ASSUME Inv, DataInv, run.at \in Operating, ~run.tables
    PROVE  run.blk \in Block \ TableBlocks
<1>1. call.op \in {"write", "erase"} /\ run.at \notin {"idle", "off", "find"}
  BY DEF Operating, DataInv, Control
<1>2. run.target # 0 => run.target \in Reserve
  BY DEF DataInv, Working
<1> QED BY <1>1, <1>2, InvTypes, Sets, TableNumbers DEF DataInv, Working

(* What a flash operation does to the other blocks and their copies.       *)
LEMMA OperationAlone ==
    ASSUME Inv, NEW b \in Block, NEW p \in Page, NEW v \in Content,
           \/ EraseWorks(b) \/ EraseFails
           \/ ProgramWorks(b, p, v) \/ ProgramFails(b, p, v)
    PROVE  /\ \A x \in Block : x # b => /\ flash'[x] = flash[x]
                                        /\ x \in tagged' <=> x \in tagged
           /\ \A x \in TableBlocks : x # b => copy'[x] = copy[x]
BY OperationOn, CopyTypes DEF EraseWorks, EraseFails, ProgramWorks, ProgramFails, flashVars

(* The steps of the caller's own reads, writes and erases.                 *)
CallStep == \/ FindGood \/ FindRemap \/ FindAnother \/ FindNone \/ Look \/ Direct
            \/ Erase \/ Program \/ Programmed \/ Mark \/ Tag \/ EraseCall \/ Return

LEMMA StaysACall ==
    ASSUME Inv, ~run.tables, CallStep
    PROVE  ~run'.tables
<1> USE InvTypes
<1>2. ~AfterWrite(run, TRUE).tables /\ ~AfterWrite(run, FALSE).tables
  BY AfterWriteOk, AfterWriteFails DEF WrittenFields, NotWrittenFields
<1>3. CASE FindGood \/ FindRemap \/ FindAnother \/ FindNone
  <2>1. \A r \in Reserve : [run EXCEPT !.target = r] \in RunType /\ r \in Block
    BY Sets DEF RunType
  <2>2. \A ok \in BOOLEAN, b \in Block, r \in RunType : ~AfterFind(r, ok, b).tables
    BY AfterFindType
  <2>3. \E ok \in BOOLEAN, b \in Block, r \in RunType : run' = AfterFind(r, ok, b)
    <3>1. CASE FindGood
      BY <3>1 DEF FindGood, Found
    <3>2. CASE FindRemap
      BY <2>1, <3>2 DEF FindRemap, Found
    <3>3. CASE FindAnother
      BY <2>1, <3>3 DEF FindAnother, Found
    <3>4. CASE FindNone
      BY <3>4 DEF FindNone
    <3> QED BY <1>3, <3>1, <3>2, <3>3, <3>4
  <2> QED BY <2>2, <2>3
<1>4. CASE Look \/ Direct \/ Erase \/ Program \/ Programmed \/ Mark \/ Tag
  BY <1>2, <1>4 DEF Look, Direct, Erase, Program, Programmed, Mark, Tag, RunType
<1>5. CASE EraseCall
  BY <1>5 DEF EraseCall, Returns, RunType
<1>6. CASE Return
  BY <1>6 DEF Return, Fresh
<1> QED BY <1>3, <1>4, <1>5, <1>6 DEF CallStep

LEMMA CallStepCopy == ASSUME Inv, DataInv, CopyInv, ~run.tables, CallStep PROVE CopyInv'
<1> USE InvTypes
<1>1. ~run'.tables /\ run.at # "off"
  BY StaysACall
     DEF CallStep, FindGood, FindRemap, FindAnother, FindNone, Finding, Look, Direct, Erase,
         Program, Programmed, Mark, Tag, EraseCall, Return
<1>2. TablesAlone
  <2>1. CASE FindGood \/ FindRemap \/ FindNone \/ Look \/ Programmed \/ Return
    BY <2>1 DEF FindGood, FindRemap, FindNone, Found, Look, Programmed, Return, flashVars,
                TablesAlone
  <2>2. CASE FindAnother
    <3>1. call.block \notin TableBlocks
      BY TableNumbers
    <3> QED BY <2>2, <3>1, TableNumbers DEF FindAnother, Found, flashVars, TablesAlone, TableType
  <2>3. CASE Direct \/ Erase \/ Program \/ EraseCall
    <3>1. run.at \in Operating /\ table' = table
      BY <2>3 DEF Direct, Erase, Program, EraseCall, Operating
    <3>2. run.todo < NPages => run.todo \in Page
      BY NandConstants DEF Page
    <3>3. \/ UNCHANGED flashVars
          \/ \E p \in Page, v \in Content :
                \/ EraseWorks(run.blk) \/ EraseFails
                \/ ProgramWorks(run.blk, p, v) \/ ProgramFails(run.blk, p, v)
      BY <2>3, <3>2, Sets DEF Direct, Erase, Program, EraseCall
    <3>4. run.blk \notin TableBlocks
      BY <1>1, <3>1, OffTables
    <3> QED BY <3>1, <3>3, <3>4, OperationAlone, TableNumbers DEF TablesAlone, flashVars
  <2>4. CASE Mark \/ Tag
    <3>1. run.blk \notin TableBlocks
      BY <2>4, OffTables DEF Mark, Tag, Operating
    <3>2. \A x \in TableBlocks : x # run.blk /\ x \in Block
      BY <3>1, TableNumbers
    <3>3. CASE Mark
      <4>1. \A x \in TableBlocks : table'[x] = table[x]
        BY <3>2, <3>3 DEF Mark, TableType
      <4>2. \/ UNCHANGED flashVars \/ EraseWorks(run.blk) \/ EraseFails
        BY <3>3 DEF Mark
      <4>3. 0 \in Page /\ Blank \in Content
        BY Sets DEF Content
      <4> QED BY <3>2, <4>1, <4>2, <4>3, OperationAlone DEF TablesAlone, flashVars
    <3>4. CASE Tag
      BY <3>2, <3>4 DEF Tag, EraseFails, TablesAlone, flashVars
    <3> QED BY <2>4, <3>3, <3>4
  <2> QED BY <2>1, <2>2, <2>3, <2>4 DEF CallStep
<1>3. ASSUME NEW t \in TableType, Current(t) PROVE Current(t)'
  <2>1. CASE table' = table
    BY <1>3, <2>1 DEF Current, Served, Target, IsBad
  <2>2. CASE FindAnother
    <3>1. PICK r \in Reserve : table' = [table EXCEPT ![call.block] = r]
      BY <2>2 DEF FindAnother
    <3> QED BY <1>3, <2>2, <3>1, AnotherKeepsCurrent DEF FindAnother
  <2>3. CASE Mark
    <3>1. table' = table \/ (~IsBad(run.blk) /\ table' = [table EXCEPT ![run.blk] = NoRemap])
      BY <2>3 DEF Mark
    <3> QED BY <1>3, <2>1, <3>1, MarkKeepsCurrent
  <2>4. FindAnother \/ Mark \/ table' = table
    BY DEF CallStep, FindGood, FindRemap, FindNone, Found, Look, Direct, Erase, Program,
           Programmed, Tag, EraseCall, Return
  <2> QED BY <2>1, <2>2, <2>3, <2>4
<1> QED BY <1>1, <1>2, <1>3, AcceptedStays DEF CopyInv

(* bbm_update_table starts, for the first remap block and at a boot.       *)
LEMMA UpdateStarts ==
    ASSUME Inv, NEW r \in RunType, run' = ToTables(r) PROVE CopyInv'
<1>1. /\ run'.tables /\ run'.at = "tables" /\ run'.tb = 0 /\ run'.copies = 0
  BY DEF ToTables, RunType
<1>2. TakenAsGood(0)' = {}
  BY DEF TakenAsGood
<1>3. Cardinality(TakenAsGood(run.tb)') = 0
  BY <1>1, <1>2, FS_EmptySet
<1> QED BY <1>1, <1>2, FS_EmptySet DEF CopyInv, AcceptedInv, SavingInv, TakenAsGood

(* In bbm_update_table: the block at hand has nothing to do with the copies*)
(* before it.                                                              *)
LEMMA CopiesBefore ==
    ASSUME Inv, CopyInv, run.tables, run.at # "tables", run.tb \in 0 .. NTables - 1,
           \A x \in TableBlocks : x # run.blk => copy'[x] = copy[x],
           \/ table' = table
           \/ ~IsBad(run.blk) /\ table' = [table EXCEPT ![run.blk] = NoRemap]
    PROVE  /\ \A j \in 0 .. run.tb - 1 : IsBad(TableBlock(j))' <=> IsBad(TableBlock(j))
           /\ \A j \in 0 .. run.tb - 1 :
                 IsBad(TableBlock(j))' \/ Current(copy[TableBlock(j)])'
           /\ \A t \in TableType : Current(t) => Current(t)'
<1> USE InvTypes
<1>1. run.blk = TableBlock(run.tb) /\ run.tb \in 0 .. NTables /\ run.blk \in Block
  BY NandConstants DEF CopyInv, SavingInv
<1>2. \A j \in 0 .. run.tb - 1 : TableBlock(j) \in TableBlocks /\ TableBlock(j) # run.blk
                                 /\ TableBlock(j) \in Block
  <2> SUFFICES ASSUME NEW j \in 0 .. run.tb - 1
               PROVE  TableBlock(j) \in TableBlocks /\ TableBlock(j) # run.blk /\ TableBlock(j) \in Block
    OBVIOUS
  <2>1. j \in 0 .. NTables /\ j # run.tb /\ TableBlock(j) \in TableBlocks
    BY <1>1, TableNumbers, NandConstants
  <2> QED BY <1>1, <2>1, TableNumbers
<1>3. \A j \in 0 .. run.tb - 1 : IsBad(TableBlock(j))' <=> IsBad(TableBlock(j))
  BY <1>1, <1>2 DEF IsBad, TableType
<1>4. \A t \in TableType : Current(t) => Current(t)'
  <2> SUFFICES ASSUME NEW t \in TableType, Current(t) PROVE Current(t)'
    OBVIOUS
  <2>1. CASE table' = table
    BY <2>1 DEF Current, Served, Target, IsBad
  <2>2. CASE ~IsBad(run.blk) /\ table' = [table EXCEPT ![run.blk] = NoRemap]
    BY <1>1, <2>2, MarkKeepsCurrent
  <2> QED BY <2>1, <2>2
<1>5. ASSUME NEW j \in 0 .. run.tb - 1, ~IsBad(TableBlock(j))
      PROVE  Current(copy[TableBlock(j)])'
  <2>1. copy[TableBlock(j)] \in TableType /\ Current(copy[TableBlock(j)])
    BY <1>2, <1>5, CopyTypes DEF CopyInv, SavingInv
  <2>2. copy'[TableBlock(j)] = copy[TableBlock(j)]
    BY <1>2
  <2>3. ASSUME NEW u \in TableType, copy'[TableBlock(j)] = u, Current(u)
        PROVE  Current(copy[TableBlock(j)])'
    <3>1. Current(u)'
      BY <1>4, <2>3
    <3> QED BY <2>3, <3>1 DEF Current, Served
  <2> QED BY <2>1, <2>2, <2>3
<1> QED BY <1>3, <1>4, <1>5

(* It stays the block at hand.                                             *)
LEMMA SavingStays ==
    ASSUME Inv, CopyInv, run.tables, run.at # "tables",
           \A x \in TableBlocks : x # run.blk => copy'[x] = copy[x],
           \/ table' = table
           \/ ~IsBad(run.blk) /\ table' = [table EXCEPT ![run.blk] = NoRemap],
           run'.tables, run'.at # "tables", run'.tb = run.tb, run'.copies = run.copies,
           run'.blk = run.blk, IsBad(run.blk)' <=> run'.at = "tag",
           run'.at \in {"erase", "program"} => buf'[0] = TablePage,
           run'.at = "program" /\ run'.todo > 0 => Current(copy[run.blk])'
    PROVE  CopyInv'
<1>1. run.tb \in 0 .. NTables - 1
  BY CopyTypes
<1>2. TakenAsGood(run.tb)' = TakenAsGood(run.tb)
  BY <1>1, CopiesBefore DEF TakenAsGood
<1> QED BY <1>1, <1>2, CopiesBefore DEF CopyInv, AcceptedInv, SavingInv

(* It is done with, or has gone bad: on to the next one.                   *)
LEMMA SavingGoesOn ==
    ASSUME Inv, CopyInv, run.tables, run.at # "tables", NEW ok \in BOOLEAN,
           \A x \in TableBlocks : x # run.blk => copy'[x] = copy[x], table' = table,
           run' = AfterWrite(run, ok),
           ok => ~IsBad(run.blk) /\ Current(copy[run.blk])',
           ~ok => IsBad(run.blk)
    PROVE  CopyInv'
<1>1. run.tb \in 0 .. NTables - 1 /\ run.tb \in 0 .. NTables /\ run.copies \in 0 .. 2
      /\ run.tb \in Nat
  BY CopyTypes, NandConstants
<1>2. /\ run'.tables /\ run'.at = "tables" /\ run'.tb = run.tb + 1
      /\ run'.copies = IF ok THEN run.copies + 1 ELSE run.copies
      /\ run'.blk = run.blk
  BY InvTypes DEF AfterWrite, RunType
<1>3. \A j : IsBad(TableBlock(j))' <=> IsBad(TableBlock(j))
  BY DEF IsBad
<1>4. TakenAsGood(run.tb)' = TakenAsGood(run.tb + 1)
  BY <1>2, <1>3 DEF TakenAsGood
<1>5. /\ run.copies = Cardinality(TakenAsGood(run.tb)) /\ run.blk = TableBlock(run.tb)
  BY DEF CopyInv, SavingInv
<1>6. run'.copies = Cardinality(TakenAsGood(run.tb)')
  BY <1>1, <1>2, <1>4, <1>5, GoodBefore
<1>7. ASSUME NEW j \in 0 .. run'.tb - 1
      PROVE  IsBad(TableBlock(j))' \/ Current(copy[TableBlock(j)])'
  <2>1. CASE j = run.tb
    <3>1. IsBad(run.blk) \/ Current(copy[run.blk])'
      OBVIOUS
    <3>2. Current(copy[run.blk])' => Current(copy[TableBlock(j)])'
      BY <1>2, <1>5, <2>1 DEF Current, Served
    <3> QED BY <1>3, <1>5, <2>1, <3>1, <3>2
  <2>2. CASE j # run.tb
    <3>1. j \in 0 .. run.tb - 1
      BY <1>1, <1>2, <2>2
    <3> QED BY <1>1, <3>1, CopiesBefore
  <2> QED BY <2>1, <2>2
<1>8. AcceptedInv'
  BY <1>2 DEF AcceptedInv
<1>9. SavingInv'
  <2>1. (run.copies = Cardinality(TakenAsGood(run.tb)))'
    BY <1>6
  <2>2. (\A j \in 0 .. run.tb - 1 : IsBad(TableBlock(j)) \/ Current(copy[TableBlock(j)]))'
    BY <1>7
  <2>3. (run.at = "tables")'
    BY <1>2
  <2> QED BY <2>1, <2>2, <2>3 DEF SavingInv
<1> QED BY <1>8, <1>9 DEF CopyInv

(* The table that has just been written is current.                        *)
LEMMA WrittenIsCurrent ==
    ASSUME Inv, NEW b \in TableBlocks, NEW p \in Page, ProgramWorks(b, p, TablePage),
           table' = table
    PROVE  Current(copy[b])'
<1>1. copy'[b] = table
  BY CopyTypes DEF ProgramWorks
<1> QED BY <1>1 DEF Current, Served, Target

(* A page with a table is neither blank nor garbage.                       *)
LEMMA FourApart ==
    ASSUME NEW a, NEW b, NEW c, NEW d, Cardinality({a, b, c, d}) = 4
    PROVE  a # b
<1> SUFFICES ASSUME a = b PROVE FALSE
  OBVIOUS
<1>1. IsFiniteSet({b}) /\ Cardinality({b}) = 1
  BY FS_Singleton
<1>2. IsFiniteSet({b} \cup {c}) /\ Cardinality({b} \cup {c}) \in 0 .. 2
  BY <1>1, FS_AddElement
<1>3. Cardinality(({b} \cup {c}) \cup {d}) <= 3
  <2> DEFINE two == {b} \cup {c}
  <2>1. IsFiniteSet(two) /\ Cardinality(two) \in 0 .. 2
    BY <1>2
  <2> HIDE DEF two
  <2>2. \/ Cardinality(two \cup {d}) = Cardinality(two)
        \/ Cardinality(two \cup {d}) = Cardinality(two) + 1
    BY <2>1, FS_AddElement
  <2>3. Cardinality(two \cup {d}) <= 3
    BY <2>1, <2>2
  <2> QED BY <2>3 DEF two
<1>4. {a, b, c, d} = ({b} \cup {c}) \cup {d}
  OBVIOUS
<1> QED BY <1>3, <1>4

LEMMA PagesApart == TablePage # Blank /\ TablePage # Garbage
<1>1. /\ {Blank, Garbage, TablePage, Unknown} = {TablePage, Blank, Garbage, Unknown}
      /\ {Blank, Garbage, TablePage, Unknown} = {TablePage, Garbage, Blank, Unknown}
  OBVIOUS
<1>2. TablePage # Blank
  BY <1>1, FourApart, NandConstants
<1>3. TablePage # Garbage
  BY <1>1, FourApart, NandConstants
<1> QED BY <1>2, <1>3

(* Every step of the write of a copy.                                      *)
LEMMA SavingCopy ==
    ASSUME Inv, DataInv, CopyInv, run.tables,
           Look \/ Direct \/ Erase \/ Program \/ Programmed \/ Mark \/ Tag
    PROVE  CopyInv'
<1> USE InvTypes
<1>0. /\ run.at # "tables" /\ run.blk \in TableBlocks /\ run.blk \in Block
      /\ IsBad(run.blk) <=> run.at = "tag"
  BY Sets DEF CopyInv, SavingInv, Look, Direct, Erase, Program, Programmed, Mark, Tag,
              DataInv, Control
<1>1. 0 \in Page /\ ThePage = 0 /\ TheValue = TablePage /\ TablePage \in Content /\ Blank \in Content
  BY Sets DEF ThePage, TheValue, Content
<1>2. CASE Look
  <2>1. /\ copy' = copy /\ table' = table /\ run'.tables /\ run'.at \in {"direct", "erase"}
        /\ run'.tb = run.tb /\ run'.copies = run.copies /\ run'.blk = run.blk
    BY <1>2 DEF Look, flashVars, RunType
  <2>2. run'.at = "erase" => buf'[0] = TablePage
    BY <1>1, <1>2 DEF Look, RunType
  <2>3. ~IsBad(run.blk)'
    BY <1>0, <1>2, <2>1 DEF IsBad, Look
  <2> QED BY <1>0, <2>1, <2>2, <2>3, SavingStays
<1>3. CASE Direct
  <2>0. table' = table /\ ~IsBad(run.blk)
    BY <1>0, <1>3 DEF Direct
  <2>1. CASE ProgramWorks(run.blk, ThePage, TheValue) /\ run' = AfterWrite(run, TRUE)
    <3>1. \A x \in TableBlocks : x # run.blk => copy'[x] = copy[x]
      BY <1>0, <1>1, <2>1, OperationAlone
    <3>2. run'.blk = run.blk
      BY <2>1, AfterWriteOk DEF WrittenFields
    <3>3. Current(copy[run.blk])'
      <4>1. \A b \in TableBlocks : b = run.blk => Current(copy[b])'
        BY <1>1, <2>0, <2>1, WrittenIsCurrent
      <4> QED BY <1>0, <3>2, <4>1 DEF Current, Served
    <3> QED BY <1>0, <2>0, <2>1, <3>1, <3>3, SavingGoesOn
  <2>2. CASE ProgramFails(run.blk, ThePage, TheValue) /\ run' = [run EXCEPT !.at = "mark"]
    <3>1. copy' = copy
      BY <2>2 DEF ProgramFails
    <3>2. /\ run'.tables /\ run'.at = "mark" /\ run'.tb = run.tb
          /\ run'.copies = run.copies /\ run'.blk = run.blk
      BY <2>2 DEF RunType
    <3>3. ~IsBad(run.blk)'
      BY <2>0, <3>2 DEF IsBad
    <3> QED BY <1>0, <2>0, <3>1, <3>2, <3>3, SavingStays
  <2> QED BY <1>3, <2>1, <2>2 DEF Direct
<1>4. CASE Erase
  <2>1. /\ table' = table /\ copy' = copy /\ buf' = buf /\ buf[0] = TablePage
        /\ ~IsBad(run.blk)
    BY <1>0, <1>4 DEF Erase, EraseWorks, EraseFails, flashVars, CopyInv, SavingInv
  <2>2. /\ run'.tables /\ run'.at = "program" /\ run'.tb = run.tb /\ run'.todo = 0
        /\ run'.copies = run.copies /\ run'.blk = run.blk
    BY <1>4 DEF Erase, RunType
  <2>3. ~IsBad(run.blk)'
    BY <2>1, <2>2 DEF IsBad
  <2> QED BY <1>0, <2>1, <2>2, <2>3, SavingStays
<1>5. CASE Program
  <2>0. /\ table' = table /\ buf' = buf /\ buf[0] = TablePage /\ ~IsBad(run.blk)
        /\ run.todo \in Page /\ run.at = "program"
        /\ run.todo > 0 => Current(copy[run.blk])
    BY <1>0, <1>5, NandConstants DEF Program, CopyInv, SavingInv, Page
  <2>1. CASE ProgramFails(run.blk, run.todo, buf[run.todo]) /\ run' = [run EXCEPT !.at = "mark"]
    <3>1. copy' = copy
      BY <2>1 DEF ProgramFails
    <3>2. /\ run'.tables /\ run'.at = "mark" /\ run'.tb = run.tb
          /\ run'.copies = run.copies /\ run'.blk = run.blk
      BY <2>1 DEF RunType
    <3>3. ~IsBad(run.blk)'
      BY <2>0, <3>2 DEF IsBad
    <3> QED BY <1>0, <2>0, <3>1, <3>2, <3>3, SavingStays
  <2>2. CASE /\ run' = [run EXCEPT !.todo = run.todo + 1]
             /\ \/ buf[run.todo] = Blank /\ UNCHANGED flashVars
                \/ ProgramWorks(run.blk, run.todo, buf[run.todo])
    <3>1. /\ run'.tables /\ run'.at = "program" /\ run'.tb = run.tb
          /\ run'.copies = run.copies /\ run'.blk = run.blk
      BY <2>0, <2>2 DEF RunType
    <3>2. ~IsBad(run.blk)'
      BY <2>0, <3>1 DEF IsBad
    <3>3. \A x \in TableBlocks : x # run.blk => copy'[x] = copy[x]
      BY <2>2, CopyTypes DEF flashVars, ProgramWorks
    <3>4. Current(copy[run.blk])'
      <4>1. CASE run.todo = 0
        <5>1. ProgramWorks(run.blk, 0, TablePage)
          <6>1. TablePage # Blank
            BY PagesApart
          <6> QED BY <2>0, <2>2, <4>1, <6>1
        <5>2. \A b \in TableBlocks : b = run.blk => Current(copy[b])'
          BY <1>1, <2>0, <5>1, WrittenIsCurrent
        <5> QED BY <1>0, <3>1, <5>2 DEF Current, Served
      <4>2. CASE run.todo # 0
        <5>1. Current(copy[run.blk])
          BY <2>0, <4>2, NandConstants DEF Page
        <5>2. copy'[run.blk] = copy[run.blk] \/ copy'[run.blk] = table
          BY <1>0, <2>2, CopyTypes DEF flashVars, ProgramWorks
        <5> QED BY <2>0, <3>1, <5>1, <5>2 DEF Current, Served, Target, IsBad
      <4> QED BY <4>1, <4>2
    <3> QED BY <1>0, <2>0, <3>1, <3>2, <3>3, <3>4, SavingStays
  <2> QED BY <1>5, <2>1, <2>2 DEF Program, flashVars
<1>6. CASE Programmed
  <2>1. /\ run' = AfterWrite(run, TRUE) /\ table' = table /\ copy' = copy
        /\ ~IsBad(run.blk) /\ Current(copy[run.blk])
    BY <1>0, <1>6, NandConstants DEF Programmed, flashVars, CopyInv, SavingInv
  <2>2. run'.blk = run.blk
    BY <2>1, AfterWriteOk DEF WrittenFields
  <2>3. Current(copy[run.blk])'
    BY <2>1, <2>2 DEF Current, Served, Target, IsBad
  <2> QED BY <1>0, <2>1, <2>3, SavingGoesOn
<1>7. CASE Mark
  <2>1. ~IsBad(run.blk) /\ table' = [table EXCEPT ![run.blk] = NoRemap] /\ copy' = copy
    BY <1>0, <1>7 DEF Mark, EraseWorks, EraseFails, flashVars
  <2>2. /\ run'.tables /\ run'.at = "tag" /\ run'.tb = run.tb
        /\ run'.copies = run.copies /\ run'.blk = run.blk
    BY <1>7, <2>1 DEF Mark, RunType
  <2>3. IsBad(run.blk)'
    BY <1>0, <2>1, <2>2, Sets DEF IsBad, TableType
  <2> QED BY <1>0, <2>1, <2>2, <2>3, SavingStays
<1>8. CASE Tag
  <2>1. /\ run' = AfterWrite(run, FALSE) /\ table' = table /\ copy' = copy /\ IsBad(run.blk)
    BY <1>0, <1>8 DEF Tag, EraseFails, flashVars
  <2> QED BY <1>0, <2>1, SavingGoesOn
<1> QED BY <1>2, <1>3, <1>4, <1>5, <1>6, <1>7, <1>8

(* bbm_update_table goes to the next table block, or ends having written   *)
(* every good one or two of them.                                          *)
LEMMA TablesCopy == ASSUME Inv, DataInv, CopyInv, Tables PROVE CopyInv'
<1>0. /\ run.at = "tables" /\ run.tables
      /\ UNCHANGED <<flash, tagged, copy, table>>
      /\ run' = IF run.copies = 2 \/ run.tb = NTables THEN AfterTables(run)
                ELSE IF IsBad(TableBlock(run.tb)) THEN [run EXCEPT !.tb = run.tb + 1]
                ELSE [run EXCEPT !.at = "look", !.blk = TableBlock(run.tb)]
  BY DEF Tables, flashVars, DataInv, Control
<1>1. /\ run.tb \in 0 .. NTables /\ run.tb \in Nat
      /\ run.copies = Cardinality(TakenAsGood(run.tb))
      /\ \A j \in 0 .. run.tb - 1 : IsBad(TableBlock(j)) \/ Current(copy[TableBlock(j)])
  BY <1>0, CopyTypes, NandConstants DEF CopyInv, SavingInv
<1>2. /\ \A j : IsBad(TableBlock(j))' <=> IsBad(TableBlock(j))
      /\ \A j : Current(copy[TableBlock(j)])' <=> Current(copy[TableBlock(j)])
  BY <1>0 DEF IsBad, Current, Served, Target
<1>3. ASSUME NEW n, run'.tb = n PROVE TakenAsGood(run.tb)' = TakenAsGood(n)
  BY <1>2, <1>3 DEF TakenAsGood
<1>4. CASE run' = [run EXCEPT !.tb = run.tb + 1] /\ IsBad(TableBlock(run.tb))
  <2>1. /\ run'.tables /\ run'.at = "tables" /\ run'.tb = run.tb + 1
        /\ run'.copies = run.copies
    BY <1>0, <1>4, InvTypes DEF RunType
  <2>2. run'.copies = Cardinality(TakenAsGood(run.tb)')
    BY <1>1, <1>3, <1>4, <2>1, GoodBefore
  <2>3. ASSUME NEW j \in 0 .. run'.tb - 1
        PROVE  IsBad(TableBlock(j))' \/ Current(copy[TableBlock(j)])'
    <3>1. j = run.tb \/ j \in 0 .. run.tb - 1
      BY <1>1, <2>1
    <3>2. IsBad(TableBlock(j)) \/ Current(copy[TableBlock(j)])
      <4>1. CASE j = run.tb
        BY <1>4, <4>1
      <4>2. CASE j \in 0 .. run.tb - 1
        BY <1>1, <4>2
      <4> QED BY <3>1, <4>1, <4>2
    <3> QED BY <1>2, <3>2
  <2> QED BY <2>1, <2>2, <2>3 DEF CopyInv, AcceptedInv, SavingInv
<1>5. CASE /\ run' = [run EXCEPT !.at = "look", !.blk = TableBlock(run.tb)]
           /\ ~IsBad(TableBlock(run.tb))
  <2>1. /\ run'.tables /\ run'.at = "look" /\ run'.tb = run.tb
        /\ run'.copies = run.copies /\ run'.blk = TableBlock(run.tb)
    BY <1>0, <1>5, InvTypes DEF RunType
  <2>2. run'.copies = Cardinality(TakenAsGood(run.tb)')
    BY <1>1, <1>3, <2>1
  <2>3. ASSUME NEW j \in 0 .. run'.tb - 1
        PROVE  IsBad(TableBlock(j))' \/ Current(copy[TableBlock(j)])'
    BY <1>1, <1>2, <2>1
  <2>4. run'.blk = TableBlock(run'.tb) /\ ~IsBad(run.blk)'
    BY <1>0, <1>5, <2>1 DEF IsBad
  <2> QED BY <2>1, <2>2, <2>3, <2>4 DEF CopyInv, AcceptedInv, SavingInv, TableBlock
<1>6. CASE run' = AfterTables(run) /\ (run.copies = 2 \/ run.tb = NTables)
  <2>1. ~run'.tables
    BY <1>6, InvTypes, AfterTablesType
  <2>2. ASSUME NEW i \in Accepted'
        PROVE  \/ IsBad(TableBlock(i))' \/ Cardinality(TakenAsGood(i)') > 1
               \/ Current(copy[TableBlock(i)])'
    <3>1. i \in 0 .. NTables - 1 /\ i \in 0 .. NTables /\ i \in Nat
      BY NandConstants DEF Accepted
    <3>2. CASE i < run.tb
      BY <1>1, <1>2, <3>1, <3>2
    <3>3. CASE ~(i < run.tb)
      <4>1. run.copies = 2
        BY <1>1, <1>6, <3>1, <3>3, NandConstants
      <4>2. TakenAsGood(run.tb) \subseteq TakenAsGood(i)
        BY <1>1, <3>1, <3>3 DEF TakenAsGood
      <4>3. IsFiniteSet(TakenAsGood(i)) /\ Cardinality(TakenAsGood(i)) \in Nat
        BY <3>1, GoodBefore
      <4>4. Cardinality(TakenAsGood(run.tb)) <= Cardinality(TakenAsGood(i))
        BY <4>2, <4>3, FS_Subset
      <4>5. TakenAsGood(i)' = TakenAsGood(i)
        BY <1>2 DEF TakenAsGood
      <4> QED BY <1>1, <4>1, <4>3, <4>4, <4>5
    <3> QED BY <3>2, <3>3
  <2> QED BY <2>1, <2>2 DEF CopyInv, AcceptedInv, SavingInv
<1> QED BY <1>0, <1>4, <1>5, <1>6

(* The copy a boot loads is the accepted one.                              *)
LEMMA BootLoadCopy == ASSUME Inv, BootLoad PROVE CopyInv'
<1>1. PICK k \in 0 .. NTables - 1 :
         /\ \A j \in 0 .. k - 1 : PassedOver(TableBlock(j))
         /\ TableBlock(k) \notin tagged /\ flash[TableBlock(k)][0] = TablePage
         /\ table' = copy[TableBlock(k)]
  BY DEF BootLoad
<1>2. UNCHANGED <<flash, tagged, copy>> /\ ~run'.tables
  BY DEF BootLoad, flashVars, Fresh
<1>3. ASSUME NEW i \in Accepted' PROVE Current(copy[TableBlock(i)])'
  <2>1. /\ i \in 0 .. NTables - 1
        /\ TableBlock(i) \notin tagged /\ flash[TableBlock(i)][0] = TablePage
        /\ \A j \in 0 .. i - 1 : TableBlock(j) \in tagged
    BY <1>2 DEF Accepted
  <2>2. ~(i < k)
    BY <1>1, <2>1, PagesApart, NandConstants DEF PassedOver
  <2>3. ~(k < i)
    BY <1>1, <2>1, NandConstants
  <2>4. i = k
    BY <2>1, <2>2, <2>3, NandConstants
  <2>5. copy'[TableBlock(i)] = table'
    BY <1>1, <1>2, <2>4
  <2> QED BY <2>5 DEF Current, Served, Target
<1> QED BY <1>2, <1>3 DEF CopyInv, AcceptedInv, SavingInv

(* The other steps.                                                        *)
LEMMA NextCopy == Inv /\ DataInv /\ CopyInv /\ [Next]_vars => CopyInv'
<1> SUFFICES ASSUME Inv, DataInv, CopyInv, [Next]_vars PROVE CopyInv'
  OBVIOUS
<1>1. CASE UNCHANGED vars
  BY <1>1 DEF vars, flashVars, CopyInv, AcceptedInv, SavingInv, Accepted, TakenAsGood,
              Current, Served, Target, IsBad
<1>2. ASSUME NEW q \in Requests, Call(q) PROVE CopyInv'
  <2>1. run.at = "idle" /\ ~run.tables /\ ~run'.tables
    BY <1>2 DEF Call, Fresh, DataInv, Control
  <2>2. TablesAlone /\ table' = table
    BY <1>2 DEF Call, flashVars, TablesAlone
  <2>3. \A t \in TableType : Current(t) => Current(t)'
    BY <2>2 DEF Current, Served, Target, IsBad
  <2> QED BY <2>1, <2>2, <2>3, AcceptedStays DEF CopyInv
<1>3. CASE BootLoad
  BY <1>3, BootLoadCopy
<1>4. CASE BootCreate
  <2>1. Fresh("off") \in RunType
    BY FreshType DEF Places
  <2> QED BY <1>4, <2>1, UpdateStarts DEF BootCreate
<1>5. CASE FindFirst
  <2>1. PICK r \in Reserve : run' = ToTables([run EXCEPT !.target = r])
    BY <1>5 DEF FindFirst
  <2>2. [run EXCEPT !.target = r] \in RunType
    BY InvTypes, Sets DEF RunType
  <2> QED BY <2>1, <2>2, UpdateStarts
<1>6. CASE Tables
  BY <1>6, TablesCopy
<1>7. CASE PowerLoss
  <2>1. run'.at = "off" /\ ~run'.tables
    BY <1>7 DEF PowerLoss, Fresh
  <2> QED BY <2>1 DEF CopyInv, AcceptedInv, SavingInv
<1>8. CASE CallStep
  <2>1. CASE ~run.tables
    BY <1>8, <2>1, CallStepCopy
  <2>2. CASE run.tables
    <3>1. run.at \notin {"find", "eraseCall", "return"}
      BY <2>2 DEF DataInv, Control
    <3> QED BY <1>8, <2>2, <3>1, SavingCopy
          DEF CallStep, FindGood, FindRemap, FindAnother, FindNone, Finding, EraseCall, Return
  <2> QED BY <2>1, <2>2
<1>9. CASE Next
  BY <1>2, <1>3, <1>4, <1>5, <1>6, <1>7, <1>8, <1>9 DEF Next, Work, Find, Boot, CallStep
<1> QED BY <1>1, <1>9

(* "Between calls, the copy that bbm_check_is_init would accept": every    *)
(* first remapping is on flash before the data are, for every number of    *)
(* table blocks, any failures while the copies are written and any power   *)
(* losses.                                                                 *)
THEOREM AcceptedIsCurrent == Spec => []AcceptedTableIsCurrent
<1>1. Init => CopyInv
  BY DEF Init, Fresh, CopyInv, AcceptedInv, SavingInv
<1>2. DataInv /\ CopyInv => AcceptedTableIsCurrent
  BY DEF DataInv, Control, CopyInv, AcceptedInv, Current, AcceptedTableIsCurrent
<1> QED BY <1>1, <1>2, InitInv, NextInv, InitData, NextData, NextCopy, PTL DEF Spec
=============================================================================
