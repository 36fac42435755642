-------------------------------- MODULE Ftl --------------------------------
(***************************************************************************)
(* The flash translation layer, component/file_system/ftl/ftl.c: a         *)
(* persistent map from logical addresses to 32-bit words, kept as a log in *)
(* a ring of flash pages.                                                  *)
(*                                                                         *)
(* A page is a header (mark and sequence number), an end position and      *)
(* PageElement - 2 cells.  ftl_write appends a pair, the data word and     *)
(* then its key, to the current page.  When the page is full the next page *)
(* of the ring is erased and formatted with the next sequence number; when *)
(* no free page is left the oldest one is garbage collected: the pairs the *)
(* RAM mapping table still points at are appended again and the page is    *)
(* erased.  At power on ftl_init finds the current page by its sequence    *)
(* number, rebuilds the mapping table and, if no page is free, moves what  *)
(* is alive in the oldest page away.                                       *)
(*                                                                         *)
(* One action is one write or erase of flash, or one iteration of a loop   *)
(* that reads it: power may fail between any two of them.  ftl_write and   *)
(* the collector hold ftl_sem from end to end, so that one thread of       *)
(* control, pc, stands for whoever holds it.                               *)
(***************************************************************************)
EXTENDS Integers, FiniteSets

CONSTANTS
    NPages,       \* g_PAGE_num: pages of the ring
    PageElement,  \* PAGE_element: words of a page (1024)
    SeqMod,       \* sequence numbers wrap at this number (256: uint8_t)
    Values,       \* the 32-bit words callers save
    Saves,        \* the pairs <<address, word>> they save
    Blank,        \* WRITABLE_32BIT, what an erased cell reads as
    NoItem,       \* no ftl_write in progress
    GcCalls,      \* the thresholds <<pages, cells>> collection is asked with
    Ioctls,       \* the other calls of ftl_ioctl: "clear", "eraseInvalid"
    RmwWrites,    \* CONFIG_FTL_EN on NOR: a word is written by erasing its sector
    RestartBroken \* a bound: whether a ring that a power loss broke boots again

INFO_size == 2
PAGE_element_data == PageElement \div 2 - 1
MAX_logical == PAGE_element_data * (NPages - 1) - 1

Pages == 0 .. NPages - 1
Cells == INFO_size .. PageElement - 1
Addr  == 0 .. MAX_logical - 1
Seqs  == 0 .. SeqMod - 1

Key(a) == [addr |-> a]
Keys   == {Key(a) : a \in Addr}
Word   == Values \cup Keys \cup {Blank}
Item   == [addr : Addr, val : Word]

(* ftl_init raises pagenum to 3; a byte holds a page number; the mapping    *)
(* table keeps 12 bits of a word address; fewer pages than sequence numbers.*)
ASSUME RingAssumption ==
    /\ NPages \in Nat /\ NPages >= 3 /\ NPages <= 255
    /\ SeqMod \in Nat /\ SeqMod > NPages
ASSUME PageAssumption ==
    /\ PageElement \in Nat /\ PageElement >= 4
    /\ PageElement % 2 = 0
    /\ NPages * (PageElement \div 2) <= 4096
ASSUME WordAssumption == Blank \notin Keys /\ NoItem \notin Item
ASSUME CallAssumption ==
    /\ GcCalls \subseteq Nat \X Nat
    /\ Ioctls \subseteq {"clear", "eraseInvalid"}
    /\ Saves \subseteq Addr \X Values
    /\ RmwWrites \in BOOLEAN /\ RestartBroken \in BOOLEAN

VARIABLES
    flash,      \* the pages: what survives power loss
    cur,        \* g_cur_pageID
    free,       \* g_free_cell_index
    map,        \* ftl_mapping_table: half the word address of a pair, 0 if none
    freeCount,  \* g_free_page_count, a byte
    pc,         \* where the thread that holds ftl_sem is
    walk,       \* the loop over keys or pages it is in
    target,     \* the page being erased or formatted and what comes after
    item,       \* the pair ftl_write is appending
    call,       \* the pair of the caller's ftl_write, kept while it collects
    damage      \* history: how a power loss broke a write, if one did

ram   == <<cur, free, map, freeCount>>
work  == <<walk, target, item, call>>
vars  == <<flash, ram, pc, work, damage>>

-----------------------------------------------------------------------------
(* Pages.                                                                   *)

Page == [mark : {"blank", "valid", "erased", "zero"}, seq : Seqs,
         end : 0 .. PageElement - 1, word : [Cells -> Word]]

\* A header of ones reads as the highest sequence number.
BlankPage == [mark |-> "blank", seq |-> SeqMod - 1, end |-> 0,
              word |-> [i \in Cells |-> Blank]]

ftl_page_is_valid(p) == flash[p].mark = "valid"

NextPage(p)  == (p + 1) % NPages
PrevPage(p)  == (p + NPages - 1) % NPages
NextSeq(s)   == (s + 1) % SeqMod

\* Mutant: the sequence numbers are not compared.
Mut_HasPrev(p) == ftl_page_is_valid(PrevPage(p))

\* ftl_get_prev_page succeeds: the page before p is valid and one older.
HasPrev(p) == /\ ftl_page_is_valid(PrevPage(p))
              /\ flash[p].seq = NextSeq(flash[PrevPage(p)].seq)

\* The invalid pages that follow the current one without a gap.
ftl_get_free_page_count ==
    Cardinality({n \in 1 .. NPages :
                   \A i \in 1 .. n : ~ftl_page_is_valid((cur + i) % NPages)})

\* cur - (used - 1) in the ring.
ftl_page_get_oldest == (cur + 1 + ftl_get_free_page_count) % NPages

\* Where a scan of page p starts: its end position, or its last word.
LastKey(p) == IF flash[p].end # 0 THEN flash[p].end ELSE PageElement - 1

KeyAt(w) == w \in Keys    \* the key has length 1

-----------------------------------------------------------------------------
(* The mapping table.                                                       *)

\* Mutant: the table entry is the word address itself.
Mut_PhysAddr(p, i) == p * PageElement + i

\* 12 bits hold half of the word address, so an odd cell is rounded down.
PhysAddr(p, i) == (p * PageElement + i) \div 2

\* The page and the cell an entry means.
EntryPage(e) == (2 * e) \div PageElement
EntryCell(e) == (2 * e) % PageElement

MapPage(a) == EntryPage(map[a])
MapCell(a) == EntryCell(map[a])

\* Mutant: any mapped address is taken for a newer copy.
Mut_can_addr_drop(a, p) == map[a] # 0

ftl_page_can_addr_drop(a, p) == map[a] # 0 /\ MapPage(a) # p

-----------------------------------------------------------------------------
\* The current page takes another pair.
Room == free + 1 < PageElement

NoWalk   == [loop |-> "none", page |-> 0, key |-> 0,
             dropped |-> FALSE, later |-> FALSE, retry |-> 0]
NoTarget == [page |-> 0, next |-> "none"]
EmptyMap == [a \in Addr |-> 0]

Init == /\ flash = [p \in Pages |-> BlankPage]
        /\ cur = 0 /\ free = INFO_size /\ map = EmptyMap /\ freeCount = 0
        /\ pc = "off"
        /\ walk = NoWalk /\ target = NoTarget
        /\ item = NoItem /\ call = NoItem
        /\ damage = "none"

-----------------------------------------------------------------------------
(* Power on: ftl_init, ftl_mapping_table_init, ftl_recover_from_power_lost. *)

PowerOn == /\ pc = "off"
           /\ damage # "none" => RestartBroken
           /\ pc' = "scan"
           /\ walk' = [NoWalk EXCEPT !.loop = "scan"]
           /\ UNCHANGED <<flash, ram, target, item, call, damage>>

\* Mutant: the wrap of the sequence number is forgotten.
Mut_IsNewer(i) == /\ ftl_page_is_valid(i)
                  /\ \/ \A j \in 0 .. i - 1 : ~ftl_page_is_valid(j)
                     \/ flash[i].seq = flash[cur].seq + 1

\* The first valid page, then every page one newer than the one found so far.
IsNewer(i) == /\ ftl_page_is_valid(i)
              /\ \/ \A j \in 0 .. i - 1 : ~ftl_page_is_valid(j)
                 \/ flash[i].seq = NextSeq(flash[cur].seq)

\* One page of the search for the latest sequence number.
ScanPage ==
    /\ pc = "scan" /\ walk.page < NPages
    /\ cur' = IF IsNewer(walk.page) THEN walk.page ELSE cur
    /\ walk' = [walk EXCEPT !.page = @ + 1]
    /\ UNCHANGED <<flash, free, map, freeCount, pc, target, item, call, damage>>

\* No valid page: the first boot formats page 0.
ScanNone ==
    /\ pc = "scan" /\ walk.page = NPages
    /\ \A p \in Pages : ~ftl_page_is_valid(p)
    /\ pc' = "erase"
    /\ walk' = NoWalk
    /\ target' = [page |-> 0, next |-> "init"]
    /\ UNCHANGED <<flash, ram, item, call, damage>>

\* Mutants: the first blank word from the start of the page; the cell rounded
\* down to a pair.
Mut_FreeCellFromStart(f) == /\ \A i \in INFO_size .. f - 1 : flash[cur].word[i] # Blank
                            /\ f < PageElement => flash[cur].word[f] = Blank
Mut_FreeCellOfPair(f) == /\ f % 2 = 0
                         /\ \A i \in f + 1 .. PageElement - 1 : flash[cur].word[i] = Blank
                         /\ f # INFO_size => flash[cur].word[f - 1] # Blank

\* The free cell is above the last word that is not blank.
IsFreeCell(f) == /\ \A i \in f .. PageElement - 1 : flash[cur].word[i] = Blank
                 /\ f # INFO_size => flash[cur].word[f - 1] # Blank

FindCell ==
    /\ \/ pc = "cell"
       \/ pc = "scan" /\ walk.page = NPages /\ \E p \in Pages : ftl_page_is_valid(p)
    /\ \E f \in INFO_size .. PageElement :
         /\ IsFreeCell(f)
         /\ free' = f
         /\ walk' = [NoWalk EXCEPT !.loop = "map", !.page = cur, !.key = f - 1]
    /\ pc' = "map"
    /\ map' = EmptyMap
    /\ UNCHANGED <<flash, cur, freeCount, target, item, call, damage>>

\* Mutant: the last entry found, the oldest, wins.
Mut_Unmapped(a) == TRUE

\* ftl_mapping_table_init: the first entry found, the newest, wins.
Unmapped(a) == map[a] = 0

MapKey ==
    /\ pc = "map" /\ walk.key >= 3
    /\ LET w == flash[walk.page].word[walk.key]
       IN  map' = IF KeyAt(w) /\ Unmapped(w.addr)
                  THEN [map EXCEPT ![w.addr] = PhysAddr(walk.page, walk.key - 1)]
                  ELSE map
    /\ walk' = [walk EXCEPT !.key = @ - 2]
    /\ UNCHANGED <<flash, cur, free, freeCount, pc, target, item, call, damage>>

MapPrev ==
    /\ pc = "map" /\ walk.key < 3
    /\ IF HasPrev(walk.page)
       THEN /\ walk' = [walk EXCEPT !.page = PrevPage(walk.page),
                                    !.key = LastKey(PrevPage(walk.page))]
            /\ pc' = pc
       ELSE /\ walk' = NoWalk
            /\ pc' = "recover"
    /\ UNCHANGED <<flash, ram, target, item, call, damage>>

\* ftl_recover_from_power_lost has work only when no page is free.
\* Mutant: the free pages are not counted.
Mut_RecoverNone ==
    /\ pc = "recover" /\ ftl_get_free_page_count > 0
    /\ pc' = "idle"
    /\ UNCHANGED <<flash, ram, work, damage>>

RecoverNone ==
    /\ pc = "recover" /\ ftl_get_free_page_count > 0
    /\ freeCount' = ftl_get_free_page_count
    /\ pc' = "idle"
    /\ UNCHANGED <<flash, cur, free, map, work, damage>>

Recover ==
    /\ pc = "recover" /\ ftl_get_free_page_count = 0
    /\ walk' = [NoWalk EXCEPT !.loop = "rec", !.page = ftl_page_get_oldest,
                              !.key = LastKey(ftl_page_get_oldest)]
    /\ pc' = "rec"
    /\ UNCHANGED <<flash, ram, target, item, call, damage>>

\* Mutant: recovery copies every pair of the page, dead or alive.
Mut_RecoverKey ==
    /\ pc = "rec" /\ walk.key >= 3
    /\ LET w    == flash[walk.page].word[walk.key]
       IN  /\ walk' = [walk EXCEPT !.key = @ - 2, !.later = @ \/ (KeyAt(w) /\ ~Room)]
           /\ IF KeyAt(w) /\ Room
              THEN /\ item' = [addr |-> w.addr,
                               val  |-> flash[walk.page].word[walk.key - 1]]
                   /\ pc' = "write"
              ELSE UNCHANGED <<item, pc>>
    /\ UNCHANGED <<flash, ram, target, call, damage>>

\* Copy what is alive to the current page while there is room.
RecoverKey ==
    /\ pc = "rec" /\ walk.key >= 3
    /\ LET w    == flash[walk.page].word[walk.key]
           live == KeyAt(w) /\ ~ftl_page_can_addr_drop(w.addr, walk.page)
       IN  /\ walk' = [walk EXCEPT !.key = @ - 2, !.later = @ \/ (live /\ ~Room)]
           /\ IF live /\ Room
              THEN /\ item' = [addr |-> w.addr,
                               val  |-> flash[walk.page].word[walk.key - 1]]
                   /\ pc' = "write"
              ELSE UNCHANGED <<item, pc>>
    /\ UNCHANGED <<flash, ram, target, call, damage>>

\* The header of the recycled page is overwritten with zero; entries that did
\* not fit make the recovery clear everything.
RecoverDone ==
    /\ pc = "rec" /\ walk.key < 3
    /\ flash' = [flash EXCEPT ![walk.page].mark = "zero", ![walk.page].seq = 0]
    /\ IF walk.later
       THEN pc' = "clear" /\ walk' = NoWalk
       ELSE pc' = "recount" /\ walk' = NoWalk
    /\ UNCHANGED <<ram, target, item, call, damage>>

Recount ==
    /\ pc = "recount"
    /\ freeCount' = ftl_get_free_page_count
    /\ pc' = "idle"
    /\ UNCHANGED <<flash, cur, free, map, work, damage>>

-----------------------------------------------------------------------------
(* ftl_write.                                                               *)

\* The loop a finished append returns to; a caller's append returns to idle.
Return == IF walk.loop = "none" THEN "idle" ELSE walk.loop

Save(a, v) ==
    /\ pc = "idle"
    /\ item' = [addr |-> a, val |-> v]
    /\ call' = [addr |-> a, val |-> v]
    /\ pc' = "write"
    /\ UNCHANGED <<flash, ram, walk, target, damage>>

WriteData ==
    /\ pc = "write" /\ Room
    /\ flash' = [flash EXCEPT ![cur].word[free] = item.val]
    /\ pc' = "key"
    /\ UNCHANGED <<ram, work, damage>>

WriteKey ==
    /\ pc = "key"
    /\ flash' = [flash EXCEPT ![cur].word[free + 1] = Key(item.addr)]
    /\ map' = [map EXCEPT ![item.addr] = PhysAddr(cur, free)]
    /\ free' = free + 2
    /\ pc' = Return
    /\ item' = NoItem
    /\ call' = IF walk.loop = "none" THEN NoItem ELSE call
    /\ UNCHANGED <<cur, freeCount, walk, target, damage>>

\* The current page is full: close it.
SetEndPosition ==
    /\ pc = "write" /\ ~Room /\ flash[cur].end = 0
    /\ flash' = [flash EXCEPT ![cur].end = free - 1]
    /\ UNCHANGED <<ram, pc, work, damage>>

\* That the next page is valid, FTL_WRITE_ERROR_OUT_OF_SPACE, is ruled out by
\* NeverOutOfSpace.
OpenNextPage ==
    /\ pc = "write" /\ ~Room /\ flash[cur].end # 0
    /\ ~ftl_page_is_valid(NextPage(cur))
    /\ target' = [page |-> NextPage(cur), next |-> "write"]
    /\ pc' = "erase"
    /\ UNCHANGED <<flash, ram, walk, item, call, damage>>

-----------------------------------------------------------------------------
(* ftl_page_erase and ftl_page_format.                                      *)

AfterErase == IF target.next \in {"gc", "invalid"} THEN target.next ELSE "format"

\* A page that carries the erased mark is not erased again.
PageErase ==
    /\ pc = "erase"
    /\ IF flash[target.page].mark = "erased"
       THEN pc' = AfterErase /\ UNCHANGED flash
       ELSE /\ flash' = [flash EXCEPT ![target.page] = BlankPage]
            /\ pc' = "mark"
    /\ UNCHANGED <<ram, work, damage>>

PageMark ==
    /\ pc = "mark"
    /\ flash' = [flash EXCEPT ![target.page].mark = "erased"]
    /\ pc' = AfterErase
    /\ UNCHANGED <<ram, work, damage>>

FormatAs(s) ==
    /\ flash' = [flash EXCEPT ![target.page].mark = "valid", ![target.page].seq = s]
    /\ freeCount' = (freeCount + 255) % 256
    /\ target' = NoTarget

\* Mutant: collection is left to the idle task.
Mut_MustCollect(pages) == FALSE

\* Unless it is the collector that writes, it collects when it took the last
\* free page: ftl_page_garbage_collect(0, PAGE_element / 2).
MustCollect(pages) == walk.loop # "gc" /\ pages = 0 /\ INFO_size <= PageElement \div 2

\* ftl_write opens the page it formatted.
FormatNext ==
    /\ pc = "format" /\ target.next = "write"
    /\ FormatAs(NextSeq(flash[cur].seq))
    /\ cur' = target.page
    /\ free' = INFO_size
    /\ pc' = IF MustCollect(freeCount') THEN "collect" ELSE "write"
    /\ UNCHANGED <<map, walk, item, call, damage>>

FormatFirst ==
    /\ pc = "format" /\ target.next \in {"init", "clear"}
    /\ FormatAs(0)
    /\ pc' = IF target.next = "init" THEN "cell" ELSE "idle"
    /\ UNCHANGED <<cur, free, map, walk, item, call, damage>>

-----------------------------------------------------------------------------
(* ftl_page_garbage_collect and ftl_page_garbage_collect_Imp.               *)

\* From the idle task or FTL_IOCTL_DO_GC_IN_APP.
Collect(t) ==
    /\ pc = "idle"
    /\ freeCount <= t[1] /\ free <= t[2]
    /\ pc' = "collect"
    /\ UNCHANGED <<flash, ram, work, damage>>

\* Without a valid page, which only a collection of the current page leaves
\* behind, ftl_page_get_oldest would leave the ring: not modelled.
CollectPage ==
    /\ pc = "collect" /\ ftl_get_free_page_count < NPages
    /\ walk' = [loop |-> "gc", page |-> ftl_page_get_oldest,
                key |-> LastKey(ftl_page_get_oldest), dropped |-> FALSE,
                later |-> FALSE, retry |-> NPages - ftl_get_free_page_count - 1]
    /\ pc' = "gc"
    /\ UNCHANGED <<flash, ram, target, item, call, damage>>

\* Drop a pair that has a newer copy elsewhere, append a live one again.
CollectKey ==
    /\ pc = "gc" /\ target = NoTarget /\ walk.key >= 3
    /\ LET w    == flash[walk.page].word[walk.key]
           live == KeyAt(w) /\ ~ftl_page_can_addr_drop(w.addr, walk.page)
       IN  /\ walk' = [walk EXCEPT !.key = @ - 2, !.dropped = @ \/ ~live]
           /\ IF live
              THEN /\ item' = [addr |-> w.addr,
                               val  |-> flash[walk.page].word[walk.key - 1]]
                   /\ pc' = "write"
              ELSE UNCHANGED <<item, pc>>
    /\ UNCHANGED <<flash, ram, target, call, damage>>

CollectErase ==
    /\ pc = "gc" /\ target = NoTarget /\ walk.key < 3
    /\ target' = [page |-> walk.page, next |-> "gc"]
    /\ pc' = "erase"
    /\ UNCHANGED <<flash, ram, walk, item, call, damage>>

\* Mutant: retries whatever was dropped.
Mut_CollectRetry ==
    /\ pc = "gc" /\ target.next = "gc"
    /\ walk.retry > 0
    /\ walk' = [walk EXCEPT !.page = ftl_page_get_oldest,
                            !.key = LastKey(ftl_page_get_oldest),
                            !.retry = @ - 1]
    /\ target' = NoTarget
    /\ UNCHANGED <<flash, ram, pc, item, call, damage>>

\* Nothing was dropped: go on with the next oldest page.
CollectRetry ==
    /\ pc = "gc" /\ target.next = "gc"
    /\ ~walk.dropped /\ walk.retry > 0
    /\ walk' = [walk EXCEPT !.page = ftl_page_get_oldest,
                            !.key = LastKey(ftl_page_get_oldest),
                            !.retry = @ - 1]
    /\ target' = NoTarget
    /\ UNCHANGED <<flash, ram, pc, item, call, damage>>

\* A caller's ftl_write that started the collection takes up its own pair.
CollectDone ==
    /\ pc = "gc" /\ target.next = "gc"
    /\ walk.dropped \/ walk.retry = 0
    /\ freeCount' = ftl_get_free_page_count
    /\ walk' = NoWalk
    /\ target' = NoTarget
    /\ item' = call
    /\ pc' = IF call = NoItem THEN "idle" ELSE "write"
    /\ UNCHANGED <<flash, cur, free, map, call, damage>>

-----------------------------------------------------------------------------
(* ftl_ioctl: FTL_IOCTL_CLEAR_ALL and FTL_IOCTL_ERASE_INVALID_PAGE.         *)

ClearAll ==
    /\ "clear" \in Ioctls
    /\ pc = "idle"
    /\ pc' = "clear"
    /\ UNCHANGED <<flash, ram, work, damage>>

ClearPage ==
    /\ pc = "clear" /\ walk.page < NPages
    /\ flash' = [flash EXCEPT ![walk.page].mark = "zero", ![walk.page].seq = 0]
    /\ walk' = [walk EXCEPT !.page = @ + 1]
    /\ UNCHANGED <<ram, pc, target, item, call, damage>>

\* Mutant: the free pages are not counted again.
Mut_ClearReset ==
    /\ pc = "clear" /\ walk.page = NPages
    /\ map' = EmptyMap /\ cur' = 0 /\ free' = INFO_size
    /\ walk' = NoWalk
    /\ target' = [page |-> 0, next |-> "clear"]
    /\ pc' = "erase"
    /\ UNCHANGED <<flash, freeCount, item, call, damage>>

ClearReset ==
    /\ pc = "clear" /\ walk.page = NPages
    /\ map' = EmptyMap /\ cur' = 0 /\ free' = INFO_size
    /\ freeCount' = NPages    \* every page is invalid
    /\ walk' = NoWalk
    /\ target' = [page |-> 0, next |-> "clear"]
    /\ pc' = "erase"
    /\ UNCHANGED <<flash, item, call, damage>>

EraseInvalid ==
    /\ "eraseInvalid" \in Ioctls
    /\ pc = "idle" /\ ftl_get_free_page_count > 0
    /\ walk' = [NoWalk EXCEPT !.loop = "invalid", !.page = 1,
                              !.retry = ftl_get_free_page_count]
    /\ pc' = "invalid"
    /\ UNCHANGED <<flash, ram, target, item, call, damage>>

EraseInvalidPage ==
    /\ pc = "invalid" /\ walk.page <= walk.retry
    /\ walk' = [walk EXCEPT !.page = @ + 1]
    /\ IF ftl_page_is_valid((cur + walk.page) % NPages)
       THEN UNCHANGED <<target, pc>>
       ELSE /\ target' = [page |-> (cur + walk.page) % NPages, next |-> "invalid"]
            /\ pc' = "erase"
    /\ UNCHANGED <<flash, ram, item, call, damage>>

EraseInvalidDone ==
    /\ pc = "invalid" /\ walk.page > walk.retry
    /\ walk' = NoWalk /\ target' = NoTarget
    /\ pc' = "idle"
    /\ UNCHANGED <<flash, ram, item, call, damage>>

-----------------------------------------------------------------------------
(* Power loss.  RAM is gone; flash keeps what was written.                  *)

Reset == /\ cur' = 0 /\ free' = INFO_size /\ map' = EmptyMap /\ freeCount' = 0
         /\ pc' = "off"
         /\ walk' = NoWalk /\ target' = NoTarget
         /\ item' = NoItem /\ call' = NoItem

\* Data written, key not; or some pages cleared and some not.
Torn    == pc = "key" /\ item.val # Blank
Cleared == pc = "clear" /\ walk.page \in 1 .. NPages - 1

PowerLoss ==
    /\ pc # "off"
    /\ Reset
    /\ damage' = IF Torn THEN "torn" ELSE IF Cleared THEN "cleared" ELSE damage
    /\ UNCHANGED flash

\* ftl_write_nor reads the sector, erases it and writes it back changed: power
\* lost in between loses the sector of the current page.
PowerLossInSector ==
    /\ RmwWrites
    /\ \/ pc = "write" /\ (Room \/ flash[cur].end = 0)
       \/ pc = "key"
    /\ flash' = [flash EXCEPT ![cur] = BlankPage]
    /\ Reset
    /\ damage' = "sector"

-----------------------------------------------------------------------------
Boot == \/ PowerOn \/ ScanPage \/ ScanNone \/ FindCell \/ MapKey \/ MapPrev
        \/ RecoverNone \/ Recover \/ RecoverKey \/ RecoverDone \/ Recount
Append == WriteData \/ WriteKey \/ SetEndPosition \/ OpenNextPage
Format == PageErase \/ PageMark \/ FormatNext \/ FormatFirst
Gc == CollectPage \/ CollectKey \/ CollectErase \/ CollectRetry \/ CollectDone
Clear == ClearPage \/ ClearReset \/ EraseInvalidPage \/ EraseInvalidDone

\* What the thread in control does next, once something asked for it.
Step == Boot \/ Append \/ Format \/ Gc \/ Clear

Request == \/ \E s \in Saves : Save(s[1], s[2])
           \/ \E t \in GcCalls : Collect(t)
           \/ ClearAll
           \/ EraseInvalid

Next == Step \/ Request \/ PowerLoss \/ PowerLossInSector

Spec == Init /\ [][Next]_vars

\* The thread in control runs on; nothing obliges a caller or the power supply.
FairSpec == Spec /\ WF_vars(Step)

-----------------------------------------------------------------------------
(* Properties.                                                              *)

Loops  == {"none", "scan", "map", "rec", "gc", "invalid"}
Labels == {"off", "scan", "cell", "map", "recover", "rec", "recount", "idle",
           "write", "key", "erase", "mark", "format", "collect", "gc", "clear",
           "invalid"}

Walk == [loop : Loops, page : 0 .. NPages + 1, key : -1 .. PageElement - 1,
         dropped : BOOLEAN, later : BOOLEAN, retry : 0 .. NPages]
Target == [page : Pages, next : {"none", "init", "write", "clear", "gc", "invalid"}]

Entry == 0 .. NPages * (PageElement \div 2) - 1

\* Type invariant.
TypeOK == /\ flash \in [Pages -> Page]
          /\ cur \in Pages
          /\ free \in INFO_size .. PageElement
          /\ map \in [Addr -> Entry]
          /\ freeCount \in 0 .. 255
          /\ pc \in Labels
          /\ walk \in Walk
          /\ target \in Target
          /\ item \in Item \cup {NoItem}
          /\ call \in Item \cup {NoItem}
          /\ damage \in {"none", "torn", "cleared", "sector"}

-----------------------------------------------------------------------------
(* A reference reading of the flash, without ftl.c: the log is the run of   *)
(* valid pages with consecutive numbers that ends in the newest, and the    *)
(* last pair of an address in the log holds its word.                       *)

NoWord == "none"

Newest == {p \in Pages : /\ ftl_page_is_valid(p)
                         /\ ~(ftl_page_is_valid(NextPage(p)) /\ HasPrev(NextPage(p)))}

Back(p, d) == (p + NPages - d) % NPages

\* A pair is <<pages back from the newest, key cell>>.
KeyCells == (0 .. NPages - 1) \X {k \in Cells : k % 2 = 1}
Newer(e, f) == e[1] < f[1] \/ (e[1] = f[1] /\ e[2] >= f[2])

InLog(top, d) == \A i \in 1 .. d : HasPrev(Back(top, i - 1))

Pairs(a, top) == {e \in KeyCells : /\ flash[Back(top, e[1])].word[e[2]] = Key(a)
                                  /\ InLog(top, e[1])}

LastWord(top, es) == LET last == CHOOSE e \in es : \A f \in es : Newer(e, f)
                     IN  flash[Back(top, last[1])].word[last[2] - 1]

Log(top) == [a \in Addr |-> LET es == Pairs(a, top)
                            IN  IF es = {} THEN NoWord ELSE LastWord(top, es)]

Contents == IF Newest = {} THEN [a \in Addr |-> NoWord]
            ELSE CHOOSE c \in {Log(top) : top \in Newest} : TRUE

\* ftl_read: the word at the mapped pair, if its key is the right one.
ftl_read(a) ==
    IF map[a] = 0 THEN NoWord
    ELSE IF flash[MapPage(a)].word[MapCell(a) + 1] = Key(a)
         THEN flash[MapPage(a)].word[MapCell(a)]
         ELSE "parse error"

Intact == damage = "none"

-----------------------------------------------------------------------------
\* Between two calls, ftl_read returns for every address exactly what the log
\* on flash holds: the mapping table ftl_write, the collector and recovery keep
\* up step by step is the one a restart would rebuild.
ReadsAgreeWithFlash ==
    Intact /\ pc = "idle" => Contents = [a \in Addr |-> ftl_read(a)]

\* MAX_logical_address_size leaves one pair of slack, so that the collector
\* always finds something to drop: a save never runs out of space, neither
\* does the collector, which would ignore it and erase what it did not copy;
\* not even when torn writes have made pages smaller.
NeverOutOfSpace ==
    pc = "write" /\ ~Room /\ flash[cur].end # 0 => ~ftl_page_is_valid(NextPage(cur))

\* A page is erased only when no address is mapped to it any more, neither
\* when the ring reuses it nor when it is collected.
ErasedPageIsDead ==
    Intact /\ pc = "erase" /\ target.next \in {"write", "gc", "invalid"}
      => \A a \in Addr : map[a] = 0 \/ MapPage(a) # target.page

\* What is alive in the oldest page always fits in the current one after a
\* restart: ftl_recover_from_power_lost never falls back on "clean all".
RecoveryNeverClears == Intact => ~walk.later

\* The count that triggers collection is the number of free pages; it is kept
\* by ftl_page_format and recounted by the collector, recovery and clearing.
FreeCountIsExact == pc = "idle" => freeCount = ftl_get_free_page_count

\* Words are only written where flash is blank (the assertions of ftl_write),
\* also after a torn write.
AppendsToBlank ==
    /\ pc = "write" /\ Room => /\ flash[cur].word[free] = Blank
                               /\ flash[cur].word[free + 1] = Blank
    /\ pc = "key" => flash[cur].word[free + 1] = Blank

\* FTL_ASSERT(OldestPage != g_cur_pageID) in ftl_page_get_oldest: the page that
\* is collected or recycled is never the one that is written.
OldestIsNotCurrent == walk.loop \in {"gc", "rec"} => walk.page # cur

\* FTL_ASSERT(error == 0) of ftl_save_to_storage_i's reconfirmation: a word
\* that was just saved is read back, never a parse error.
SavedWordReadsBack ==
    [][\A a \in Addr : pc = "key" /\ pc' = "idle" /\ item.addr = a
                       => ftl_read(a)' = item.val]_vars

\* Once power stays on, whatever is in progress comes to an end: collection
\* with its retries, the boot, recovery.
ComesToRest == <>[](pc # "off") => []<>(pc = "idle")

\* Whatever is written or erased, what a restart would find does not change,
\* except that the key word of a caller's pair makes its save take effect:
\* saves are atomic, and collection and recovery lose nothing at any point.
FlashStepsPreserveContents ==
    [][flash' # flash /\ Intact' /\ pc # "clear" =>
         \/ Contents' = Contents
         \/ /\ pc = "key" /\ walk.loop = "none"
            /\ Contents' = [Contents EXCEPT ![item.addr] = item.val]]_vars

\* The saves and loads of one word are those of FtlStore.  FTL_IOCTL_CLEAR_ALL
\* takes effect with the first page it clears.
Store == INSTANCE FtlStore WITH
           Word    <- Values,
           store   <- IF Cleared THEN [a \in Addr |-> NoWord] ELSE Contents,
           pending <- call,
           intact  <- Intact
ImplementsStore == Store!Spec
=============================================================================
