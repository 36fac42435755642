-------------------------------- MODULE Nand --------------------------------
(***************************************************************************)
(* Bad block management of the NAND flash, ftl_nand_api.c.                 *)
(*                                                                         *)
(* A block of the user area that fails is entered in the bad block table   *)
(* and served by a block of the reserve; copies of the table are kept in   *)
(* the last blocks of the flash.  Every flash operation (erase a block,    *)
(* program a page, program the spare tag) is a step, so that a failure or  *)
(* a power loss falls between, or inside, any two of them.  Calls do not   *)
(* overlap: their users hold ftl_lock (ftl_common_api.c).                  *)
(***************************************************************************)
EXTENDS Integers, FiniteSets

CONSTANTS
    NUser,       \* rba_offset: blocks 0 .. NUser-1 belong to the callers
    NReserve,    \* rba_cnt: blocks that may serve a bad one
    NTables,     \* FW_BAD_BLOCK_TABLE_CNT: blocks for copies of the table
    NPages,      \* page_per_blk
    Values,      \* what callers write to a page
    Blank,       \* a page of 0xff
    Garbage,     \* a page whose program or erase failed or was cut short
    TablePage,   \* a page that holds the bad block table
    Unknown,     \* (history) nothing is promised of this page
    FactoryBad,  \* blocks tagged bad when the flash is new
    Requests,    \* the calls made: records of op, block, page and value
    MaxRetry,    \* FTL_MAX_RETRY
    MaxFaults,   \* bound: flash operations that fail
    MaxCrashes   \* bound: power losses

User == 0 .. NUser - 1
Reserve == NUser .. NUser + NReserve - 1
TableBlock(i) == NUser + NReserve + i
TableBlocks == {TableBlock(i) : i \in 0 .. NTables - 1}
Block == 0 .. NUser + NReserve + NTables - 1
Page == 0 .. NPages - 1
Content == Values \cup {Blank, Garbage, TablePage}

ASSUME NandConstants ==
    /\ NUser \in Nat \ {0} /\ NReserve \in Nat /\ NTables \in Nat \ {0}
    /\ NPages \in Nat \ {0} /\ MaxRetry \in Nat \ {0}
    /\ MaxFaults \in Nat /\ MaxCrashes \in Nat
    /\ FactoryBad \subseteq Block
    /\ Requests \subseteq [op : {"read", "write", "erase"}, block : User,
                          page : Page, value : Values \cup {Blank}]
    /\ {Blank, Garbage, TablePage, Unknown} \cap Values = {}
    /\ Cardinality({Blank, Garbage, TablePage, Unknown}) = 4

(* The table pbbt as a function: its entries name distinct bad blocks, and *)
(* remap_block of an entry is a reserve block or 0xffff.                   *)
Good == -1        \* no entry
NoRemap == -2     \* an entry with remap_block = 0xffff
TableType == [Block -> {Good, NoRemap} \cup Reserve]
Empty == [b \in Block |-> Good]
BlankBlock == [p \in Page |-> Blank]
NoPromise == [p \in Page |-> Unknown]

VARIABLES
    flash,    \* the pages of every block
    tagged,   \* blocks whose spare byte of page 0 is not 0xff
    copy,     \* for a table block whose page 0 is a TablePage: the table there
    table,    \* pbbt, in memory
    buf,      \* block_buf, the only block buffer
    call,     \* the call under way
    run,      \* where it stands, with the locals of the functions it is in
    faults, crashes,
    kept      \* (history) per user block: the block its data were put in, and
              \* the pages a caller may rely on

flashVars == <<flash, tagged, copy>>
vars == <<flash, tagged, copy, table, buf, call, run, faults, crashes, kept>>

-----------------------------------------------------------------------------
(* The table.                                                              *)

IsBad(b) == table[b] # Good
IsRemap(r) == \E b \in Block : table[b] = r
\* Mutant: blocks that serve another block are not excluded.
Mut_FreeBlocks == {r \in Reserve : ~IsBad(r)}

FreeBlocks == {r \in Reserve : ~IsBad(r) /\ ~IsRemap(r)}
FirstFree(r) == r \in FreeBlocks /\ \A q \in FreeBlocks : r <= q

(* Where reads and writes of user block b go.                              *)
Target(b) == IF table[b] = Good THEN b ELSE table[b]

(* What bbm_nand_write is writing: the caller's page or the table.         *)
ThePage == IF run.tables THEN 0 ELSE call.page
TheValue == IF run.tables THEN TablePage ELSE call.value

-----------------------------------------------------------------------------
(* Flash operations.  A program fails on a page that is neither blank nor  *)
(* already what is written, since the page is read back and compared; a    *)
(* page with another table is not what is written.                         *)

Fault == faults < MaxFaults /\ faults' = faults + 1

EraseWorks(b) ==
    /\ flash' = [flash EXCEPT ![b] = BlankBlock]
    /\ tagged' = tagged \ {b}
    /\ UNCHANGED <<copy, faults>>

EraseFails == Fault /\ UNCHANGED flashVars

CanProgram(b, p, v) ==
    \/ flash[b][p] = Blank
    \/ flash[b][p] = v /\ (v = TablePage /\ b \in TableBlocks => copy[b] = table)

ProgramWorks(b, p, v) ==
    /\ CanProgram(b, p, v)
    /\ flash' = [flash EXCEPT ![b][p] = v]
    /\ copy' = IF v = TablePage /\ b \in TableBlocks
               THEN [copy EXCEPT ![b] = table] ELSE copy
    /\ UNCHANGED <<tagged, faults>>

ProgramFails(b, p, v) ==
    /\ \/ ~CanProgram(b, p, v) /\ UNCHANGED faults
       \/ CanProgram(b, p, v) /\ Fault
    /\ flash' = [flash EXCEPT ![b][p] = Garbage]
    /\ UNCHANGED <<tagged, copy>>

-----------------------------------------------------------------------------
(* Continuations: the next value of run when a function returns.           *)

Returns(r, ok) == [r EXCEPT !.at = "return", !.ok = ok]

(* From bbm_find_remap_block; b is the block to use.                       *)
AfterFind(r, ok, b) ==
    LET f == [r EXCEPT !.tables = FALSE, !.blk = b]
    IN  CASE call.op = "read"  -> Returns(f, ok)
          [] call.op = "erase" -> [f EXCEPT !.at = "eraseCall"]
          [] call.op = "write" /\ ~r.retry ->
                [f EXCEPT !.at = IF ok THEN "look" ELSE "find", !.retry = ~ok]
          [] OTHER -> [f EXCEPT !.at = IF ok THEN "erase" ELSE "mark"]

(* From bbm_update_table: to the boot that created it, or to the lookup.   *)
AfterTables(r) ==
    IF call.op = "init"
    THEN [r EXCEPT !.at = IF r.ok THEN "idle" ELSE "off", !.tables = FALSE]
    ELSE AfterFind(r, r.ok, r.target)

(* From bbm_nand_write or, in the retry loop, bbm_nand_write_block.        *)
AfterWrite(r, ok) ==
    CASE r.tables ->
            [r EXCEPT !.at = "tables", !.ok = ok, !.tb = @ + 1,
                      !.copies = IF ok THEN @ + 1 ELSE @]
      [] ~r.tables /\ ok -> Returns(r, TRUE)
      [] ~r.tables /\ ~ok /\ ~r.retry -> [r EXCEPT !.at = "find", !.retry = TRUE]
      [] OTHER -> IF r.tries + 1 = MaxRetry THEN Returns(r, FALSE)
                  ELSE [r EXCEPT !.at = "find", !.tries = @ + 1]

(* Into bbm_update_table.                                                  *)
ToTables(r) == [r EXCEPT !.at = "tables", !.tables = TRUE, !.tb = 0,
                         !.copies = 0, !.ok = TRUE]

Fresh(at) == [at |-> at, retry |-> FALSE, tries |-> 0, target |-> 0, blk |-> 0,
              todo |-> 0, tables |-> FALSE, tb |-> 0, copies |-> 0, ok |-> TRUE]
NoCall == [op |-> "init", block |-> 0, page |-> 0, value |-> Blank, faults |-> 0]
-----------------------------------------------------------------------------
(* Calls.  ftl_write_nand, ftl_erase_nand and ftl_read_nand begin with the  *)
(* lookup; a lookup that meets a bad block without remap block takes one   *)
(* from the reserve and saves the table, even for a read.                  *)

Call(q) ==
    /\ run.at = "idle"
    /\ call' = [op |-> q.op, block |-> q.block, page |-> q.page,
                value |-> q.value, faults |-> faults]
    /\ run' = Fresh("find")
    /\ UNCHANGED <<flashVars, table, buf, faults, crashes, kept>>

Finding == run.at = "find"
Found(ok, b, r) ==
    /\ run' = AfterFind(r, ok, b)
    /\ UNCHANGED <<flashVars, buf, call, faults, crashes, kept>>

FindGood ==
    /\ Finding /\ ~IsBad(call.block)
    /\ Found(TRUE, call.block, run)
    /\ UNCHANGED table

FindRemap ==
    /\ Finding /\ table[call.block] \in Reserve
    /\ ~IsBad(table[call.block])
    /\ LET r == table[call.block] IN Found(TRUE, r, [run EXCEPT !.target = r])
    /\ UNCHANGED table

\* Mutant: the table is not saved.
Mut_FindFirst ==
    /\ Finding /\ table[call.block] = NoRemap
    /\ \E r \in Reserve :
          /\ FirstFree(r)
          /\ table' = [table EXCEPT ![call.block] = r]
          /\ Found(TRUE, r, [run EXCEPT !.target = r])

FindFirst ==      \* the first remap block of a bad block
    /\ Finding /\ table[call.block] = NoRemap
    /\ \E r \in Reserve :
          /\ FirstFree(r)
          /\ table' = [table EXCEPT ![call.block] = r]
          /\ run' = ToTables([run EXCEPT !.target = r])
    /\ UNCHANGED <<flashVars, buf, call, faults, crashes, kept>>

FindAnother ==    \* the remap block is bad itself: the table is not saved
    /\ Finding /\ table[call.block] \in Reserve
    /\ IsBad(table[call.block])
    /\ \E r \in Reserve :
          /\ FirstFree(r)
          /\ table' = [table EXCEPT ![call.block] = r]
          /\ Found(TRUE, r, [run EXCEPT !.target = r])

FindNone ==       \* remap_block stays what it was, at first 0: block 0 is used
    /\ Finding /\ IsBad(call.block) /\ FreeBlocks = {}
    /\ table[call.block] \in Reserve => IsBad(table[call.block])
    /\ run' = AfterFind(run, FALSE, run.target)
    /\ kept' = IF run.target = 0 /\ call.op # "read"
               THEN [kept EXCEPT ![0].data = NoPromise] ELSE kept
    /\ UNCHANGED <<flashVars, table, buf, call, faults, crashes>>

-----------------------------------------------------------------------------
(* bbm_nand_write: a blank page is programmed, any other page is changed   *)
(* by rewriting its block from block_buf.                                  *)

\* Mutant: the block is not read before it is rewritten.
Mut_Look ==
    /\ run.at = "look"
    /\ IF flash[run.blk][ThePage] = Blank
       THEN run' = [run EXCEPT !.at = "direct"] /\ UNCHANGED buf
       ELSE /\ run' = [run EXCEPT !.at = "erase"]
            /\ buf' = [buf EXCEPT ![ThePage] = TheValue]
    /\ UNCHANGED <<flashVars, table, call, faults, crashes, kept>>

Look ==
    /\ run.at = "look"
    /\ IF flash[run.blk][ThePage] = Blank
       THEN run' = [run EXCEPT !.at = "direct"] /\ UNCHANGED buf
       ELSE /\ run' = [run EXCEPT !.at = "erase"]
            /\ buf' = [flash[run.blk] EXCEPT ![ThePage] = TheValue]
    /\ UNCHANGED <<flashVars, table, call, faults, crashes, kept>>

Direct ==
    /\ run.at = "direct"
    /\ \/ /\ ProgramWorks(run.blk, ThePage, TheValue)
          /\ run' = AfterWrite(run, TRUE)
          /\ UNCHANGED buf
       \/ /\ ProgramFails(run.blk, ThePage, TheValue)
          /\ buf' = [flash[run.blk] EXCEPT ![ThePage] = TheValue]
          /\ run' = [run EXCEPT !.at = "mark"]
    /\ UNCHANGED <<table, call, crashes, kept>>

Erase ==          \* its result is overwritten by that of the programs
    /\ run.at = "erase"
    /\ EraseWorks(run.blk) \/ EraseFails
    /\ run' = [run EXCEPT !.at = "program", !.todo = 0]
    /\ UNCHANGED <<table, buf, call, crashes, kept>>

Program ==        \* bbm_nand_write_block skips the pages that are blank
    /\ run.at = "program" /\ run.todo < NPages
    /\ LET p == run.todo
           next == [run EXCEPT !.todo = @ + 1]
       IN  \/ buf[p] = Blank /\ run' = next /\ UNCHANGED <<flashVars, faults>>
           \/ buf[p] # Blank /\ ProgramWorks(run.blk, p, buf[p]) /\ run' = next
           \/ /\ buf[p] # Blank /\ ProgramFails(run.blk, p, buf[p])
              /\ run' = [run EXCEPT !.at = "mark"]
    /\ UNCHANGED <<table, buf, call, crashes, kept>>

Programmed ==
    /\ run.at = "program" /\ run.todo = NPages
    /\ run' = AfterWrite(run, TRUE)
    /\ UNCHANGED <<flashVars, table, buf, call, faults, crashes, kept>>

(* bbm_mark_bad_block: an entry in memory, an erase and a tag whose results *)
(* nobody looks at.                                                        *)
Mark ==
    /\ run.at = "mark"
    /\ IF IsBad(run.blk)
       THEN run' = AfterWrite(run, FALSE) /\ UNCHANGED <<flashVars, faults, table>>
       ELSE /\ table' = [table EXCEPT ![run.blk] = NoRemap]
            /\ EraseWorks(run.blk) \/ EraseFails
            /\ run' = [run EXCEPT !.at = "tag"]
    /\ UNCHANGED <<buf, call, crashes, kept>>

Tag ==
    /\ run.at = "tag"
    /\ \/ tagged' = tagged \cup {run.blk} /\ UNCHANGED <<flash, copy, faults>>
       \/ EraseFails
    /\ run' = AfterWrite(run, FALSE)
    /\ UNCHANGED <<table, buf, call, crashes, kept>>

\* Mutants: every table block gets a copy; a bad one is not passed over.
Mut_TablesAll ==
    /\ run.at = "tables"
    /\ run' = IF run.tb = NTables THEN AfterTables(run)
              ELSE IF IsBad(TableBlock(run.tb)) THEN [run EXCEPT !.tb = @ + 1]
              ELSE [run EXCEPT !.at = "look", !.blk = TableBlock(run.tb)]
    /\ UNCHANGED <<flashVars, table, buf, call, faults, crashes, kept>>
Mut_TablesStay ==
    /\ run.at = "tables"
    /\ run' = IF run.copies = 2 \/ run.tb = NTables THEN AfterTables(run)
              ELSE IF IsBad(TableBlock(run.tb)) THEN run
              ELSE [run EXCEPT !.at = "look", !.blk = TableBlock(run.tb)]
    /\ UNCHANGED <<flashVars, table, buf, call, faults, crashes, kept>>

(* bbm_update_table: two copies, in the first table blocks that are good.  *)
Tables ==
    /\ run.at = "tables"
    /\ run' = IF run.copies = 2 \/ run.tb = NTables THEN AfterTables(run)
              ELSE IF IsBad(TableBlock(run.tb)) THEN [run EXCEPT !.tb = @ + 1]
              ELSE [run EXCEPT !.at = "look", !.blk = TableBlock(run.tb)]
    /\ UNCHANGED <<flashVars, table, buf, call, faults, crashes, kept>>

EraseCall ==      \* ftl_erase_nand's loop
    /\ run.at = "eraseCall"
    /\ \/ EraseWorks(run.blk) /\ run' = Returns(run, TRUE)
       \/ /\ EraseFails
          /\ run' = IF run.tries + 1 = MaxRetry THEN Returns(run, FALSE)
                    ELSE [run EXCEPT !.at = "find", !.tries = @ + 1]
    /\ UNCHANGED <<table, buf, call, crashes, kept>>

(* A call returns.  What may be relied on afterwards (history): all that   *)
(* was there and the change, if the call succeeded, no flash operation     *)
(* failed in it and it worked on the block that serves b, not on block 0   *)
(* for want of one (FindNone); nothing of the block otherwise.             *)
Kept(b) ==
    LET clean == run.ok /\ faults = call.faults /\ run.blk = Target(b)
        same == kept[b].at = Target(b)
    IN  [at |-> Target(b),
         data |-> [p \in Page |->
            CASE ~clean -> Unknown
              [] clean /\ call.op = "erase" -> Blank
              [] clean /\ call.op = "write" /\ p = call.page -> call.value
              [] OTHER -> IF same THEN kept[b].data[p] ELSE Unknown]]

Return ==
    /\ run.at = "return"
    /\ run' = Fresh("idle")
    /\ kept' = IF call.op = "read" THEN kept
               ELSE [kept EXCEPT ![call.block] = Kept(call.block)]
    /\ call' = NoCall
    /\ UNCHANGED <<flashVars, table, buf, faults, crashes>>

-----------------------------------------------------------------------------
(* ftl_init_nand: bbm_check_is_init takes the first untagged copy; one     *)
(* without a readable table ends the search.  A page of garbage may also   *)
(* fail to read, and is then passed over.                                  *)

PassedOver(b) == b \in tagged \/ flash[b][0] = Garbage

(* A block's data are found again (history) if the table that is loaded or *)
(* created serves it by the block that has them, and knows that one as good. *)
Serves(t, b, r) == r \in Block /\ t[r] = Good /\ (r = b \/ t[b] = r)
KeptAfterBoot ==
    [b \in User |-> IF Serves(table', b, kept[b].at) THEN kept[b]
                    ELSE [kept[b] EXCEPT !.data = NoPromise]]

BootLoad ==
    /\ run.at = "off"
    /\ \E i \in 0 .. NTables - 1 :
          LET b == TableBlock(i) IN
          /\ \A j \in 0 .. i - 1 : PassedOver(TableBlock(j))
          /\ b \notin tagged /\ flash[b][0] = TablePage
          /\ table' = copy[b]
    /\ run' = Fresh("idle")
    /\ call' = NoCall
    /\ kept' = KeptAfterBoot
    /\ UNCHANGED <<flashVars, buf, faults, crashes>>

(* bbm_create_nand: a table from the tags, without any remap block.        *)
BootCreate ==
    /\ run.at = "off"
    /\ \E i \in 0 .. NTables :
          /\ \A j \in 0 .. i - 1 : PassedOver(TableBlock(j))
          /\ i < NTables => /\ TableBlock(i) \notin tagged
                            /\ flash[TableBlock(i)][0] # TablePage
    /\ \E unread \in SUBSET {b \in Block : flash[b][0] = Garbage} :
          table' = [b \in Block |-> IF b \in tagged \cup unread THEN NoRemap ELSE Good]
    /\ run' = ToTables(Fresh("off"))
    /\ call' = NoCall
    /\ kept' = KeptAfterBoot
    /\ UNCHANGED <<flashVars, buf, faults, crashes>>

(* Power loss: memory is gone and the flash operation under way may be     *)
(* left half done.                                                         *)
HalfDone ==
    CASE run.at = "direct" -> [flash EXCEPT ![run.blk][ThePage] = Garbage]
      [] run.at = "program" /\ run.todo < NPages ->
            [flash EXCEPT ![run.blk][run.todo] = Garbage]
      [] run.at \in {"erase", "eraseCall"} \/ (run.at = "mark" /\ ~IsBad(run.blk)) ->
            [flash EXCEPT ![run.blk] = [p \in Page |-> Garbage]]
      [] OTHER -> flash

PowerLoss ==
    /\ run.at # "off" /\ crashes < MaxCrashes
    /\ crashes' = crashes + 1
    /\ flash' \in {flash, HalfDone}
    /\ run' = Fresh("off")
    /\ table' = Empty
    /\ buf' = BlankBlock
    /\ kept' = IF run.at = "idle" \/ call.op \in {"read", "init"} THEN kept
               ELSE [kept EXCEPT ![call.block].data = NoPromise]
    /\ call' = NoCall
    /\ UNCHANGED <<tagged, copy, faults>>

-----------------------------------------------------------------------------
Init ==
    /\ flash = [b \in Block |-> BlankBlock]
    /\ tagged = FactoryBad
    /\ copy = [b \in TableBlocks |-> Empty]
    /\ table = Empty
    /\ buf = BlankBlock
    /\ call = NoCall
    /\ run = Fresh("off")
    /\ faults = 0 /\ crashes = 0
    /\ kept = [b \in User |-> [at |-> b, data |-> BlankBlock]]

Boot == BootLoad \/ BootCreate
Find == FindGood \/ FindRemap \/ FindFirst \/ FindAnother \/ FindNone
Work == \/ Find \/ Look \/ Direct \/ Erase \/ Program \/ Programmed
        \/ Mark \/ Tag \/ Tables \/ EraseCall \/ Return

Next == (\E q \in Requests : Call(q)) \/ Boot \/ Work \/ PowerLoss

Spec == Init /\ [][Next]_vars
FairSpec == Spec /\ WF_vars(Work)
-----------------------------------------------------------------------------
Places == {"off", "idle", "find", "look", "direct", "erase", "program", "mark",
           "tag", "tables", "eraseCall", "return"}

CallType == [op : {"init", "read", "write", "erase"}, block : User, page : Page,
             value : Values \cup {Blank}, faults : 0 .. MaxFaults]
RunType == [at : Places, retry : BOOLEAN, tries : 0 .. MaxRetry - 1,
            target : Block, blk : Block, todo : 0 .. NPages, tables : BOOLEAN,
            tb : 0 .. NTables, copies : 0 .. 2, ok : BOOLEAN]

(* Every block buffer, table copy and register holds a value of its kind;  *)
(* a reserve block is only ever named as the remap block of an entry.      *)
TypeOK ==
    /\ flash \in [Block -> [Page -> Content]]
    /\ tagged \subseteq Block
    /\ copy \in [TableBlocks -> TableType]
    /\ table \in TableType
    /\ buf \in [Page -> Content]
    /\ call \in CallType
    /\ run \in RunType
    /\ faults \in 0 .. MaxFaults /\ crashes \in 0 .. MaxCrashes
    /\ kept \in [User -> [at : Block \cup {NoRemap},
                          data : [Page -> Values \cup {Blank, Unknown}]]]

(* No two user blocks are served by the same block, whatever fails and     *)
(* wherever the power goes, in memory and in every copy of the table that  *)
(* a later boot may load (bbm_find_free_block, bbm_find_remap_block).      *)
Served(t, b) == IF t[b] = Good THEN b ELSE t[b]
Disjoint(t) == \A b, c \in User :
    b # c /\ Served(t, b) # NoRemap => Served(t, b) # Served(t, c)
DistinctTargets ==
    /\ Disjoint(table)
    /\ \A b \in TableBlocks : Disjoint(copy[b])

(* What a call put in a page stays there while its block is served by the  *)
(* same flash block: neither calls on other blocks, remapping, the saving  *)
(* of the table, failures in other calls nor restarts change it.  Excepted *)
(* are block 0 once the reserve has run out (FindNone), and a block that a  *)
(* restart finds served by another flash block, or by one known as bad.    *)
DataStays ==
    run.at \in {"idle", "off"} =>
        \A b \in User : Target(b) = kept[b].at => \A p \in Page :
            kept[b].data[p] # Unknown => flash[kept[b].at][p] = kept[b].data[p]

(* Between calls, the copy that bbm_check_is_init would accept serves each *)
(* user block as the table in memory does: every first remapping is on     *)
(* flash before the data are.  Excepted are a copy in a table block that    *)
(* has failed since or lies behind two tagged ones that the table takes as *)
(* good (they get the new copies, and a boot passes them over), a user     *)
(* block that failed and found no free reserve block, and a copy that names *)
(* a reserve block which has failed since.                                 *)
Accepted == {i \in 0 .. NTables - 1 :
    /\ TableBlock(i) \notin tagged /\ flash[TableBlock(i)][0] = TablePage
    /\ \A j \in 0 .. i - 1 : TableBlock(j) \in tagged}
TakenAsGood(i) == {j \in 0 .. i - 1 : ~IsBad(TableBlock(j))}
AcceptedTableIsCurrent ==
    run.at = "idle" => \A i \in Accepted, b \in User :
        LET t == copy[TableBlock(i)] IN
        \/ IsBad(TableBlock(i)) \/ Cardinality(TakenAsGood(i)) > 1
        \/ Served(t, b) = Target(b) \/ Target(b) = NoRemap
        \/ t[b] \in Reserve /\ IsBad(t[b])

(* Every call and every boot comes to an end: the retry loops of a write   *)
(* and of an erase give up after FTL_MAX_RETRY rounds.                     *)
CallsReturn == run.at \notin {"idle", "off"} ~> run.at \in {"idle", "off"}
=============================================================================
