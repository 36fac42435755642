----------------------------- MODULE FtlProofs -----------------------------
(* Theorems about Ftl, for every ring and every page size.                  *)
EXTENDS Ftl, FiniteSetTheorems, TLAPS

-----------------------------------------------------------------------------
(* Arithmetic of the ring and of the mapping table.                         *)

\* What the steps need to know of the constants.
LEMMA Sizes == /\ NPages \in Nat /\ NPages >= 3 /\ NPages <= 255
               /\ PageElement \in Nat /\ PageElement >= 4
  BY RingAssumption, PageAssumption

\* Remainders are in range.
LEMMA ModRange == ASSUME NEW a \in Nat, NEW b \in Nat, b > 0
                  PROVE  a % b \in 0 .. b - 1
  OBVIOUS

\* Positions in the ring are pages.
LEMMA RingType ==
    /\ \A n \in Nat : n % NPages \in Pages
    /\ \A p \in Pages : NextPage(p) \in Pages /\ PrevPage(p) \in Pages
    /\ \A s \in Seqs : NextSeq(s) \in Seqs
    /\ 0 \in Pages
  <1>1. \A n \in Nat : n % NPages \in Pages
    BY ModRange, RingAssumption DEF Pages
  <1>2. \A n \in Nat : n % SeqMod \in Seqs
    BY ModRange, RingAssumption DEF Seqs
  <1>3. \A p \in Pages : p + 1 \in Nat /\ p + NPages - 1 \in Nat
    BY RingAssumption DEF Pages
  <1>4. \A s \in Seqs : s + 1 \in Nat
    BY RingAssumption DEF Seqs
  <1>5. 0 \in Pages
    BY RingAssumption DEF Pages
  <1> QED
    BY <1>1, <1>2, <1>3, <1>4, <1>5 DEF NextPage, PrevPage, NextSeq

\* A pair of a page has an entry of the mapping table: half its word address.
LEMMA PhysAddrType ==
    ASSUME NEW p \in Pages, NEW i \in Cells
    PROVE  PhysAddr(p, i) \in Entry
  <1> DEFINE h == PageElement \div 2
  <1>1. h \in Nat /\ h >= 2 /\ PageElement = 2 * h
    BY PageAssumption
  <1>2. p \in Nat /\ p <= NPages - 1 /\ NPages \in Nat
    BY RingAssumption DEF Pages
  <1>3. i \in Nat /\ i < 2 * h
    BY <1>1 DEF Cells, INFO_size
  <1> HIDE DEF h
  <1>4. p * h \in Nat /\ (NPages - 1) * h \in Nat /\ p * h <= (NPages - 1) * h
    BY <1>1, <1>2
  <1>5. (NPages - 1) * h + h = NPages * h
    BY <1>1, <1>2
  <1>6. p * (2 * h) = 2 * (p * h)
    BY <1>1, <1>2
  <1> DEFINE q == p * h
  <1>7. (2 * q + i) \div 2 \in 0 .. q + h - 1
    <2>1. q \in Nat BY <1>4
    <2> HIDE DEF q
    <2> QED BY <2>1, <1>1, <1>3
  <1>8. PhysAddr(p, i) \in 0 .. p * h + h - 1
    BY <1>1, <1>6, <1>7 DEF PhysAddr
  <1>9. p * h + h - 1 <= NPages * h - 1
    BY <1>1, <1>4, <1>5
  <1> QED
    BY <1>1, <1>4, <1>5, <1>8, <1>9 DEF h, Entry

\* The number of free pages is at most the number of pages.
LEMMA FreePagesType == ftl_get_free_page_count \in 0 .. NPages
  <1> DEFINE S == {n \in 1 .. NPages :
                     \A i \in 1 .. n : ~ftl_page_is_valid((cur + i) % NPages)}
  <1>1. IsFiniteSet(1 .. NPages) /\ Cardinality(1 .. NPages) = NPages
    BY FS_Interval, Sizes
  <1>2. S \subseteq 1 .. NPages
    OBVIOUS
  <1> HIDE DEF S
  <1>3. IsFiniteSet(S) /\ Cardinality(S) \in Nat /\ Cardinality(S) <= NPages
    BY <1>1, <1>2, FS_Subset, FS_CardinalityType
  <1>4. ftl_get_free_page_count = Cardinality(S)
    BY DEF ftl_get_free_page_count, S
  <1> QED
    BY <1>3, <1>4, RingAssumption

\* The oldest page is a page.
LEMMA OldestType == cur \in Pages => ftl_page_get_oldest \in Pages
  <1> SUFFICES ASSUME cur \in Pages PROVE ftl_page_get_oldest \in Pages
    OBVIOUS
  <1>1. cur + 1 + ftl_get_free_page_count \in Nat
    BY FreePagesType, RingAssumption DEF Pages
  <1> QED
    BY <1>1, RingType DEF ftl_page_get_oldest

-----------------------------------------------------------------------------
(* Type correctness.  TypeOK is not inductive: the loops index flash with   *)
(* walk.page and append what item holds, so that one has to know which loop *)
(* runs at each label.                                                      *)

Control ==
    /\ pc \in {"write", "key"} => item # NoItem
    /\ pc = "key" => Room
    /\ pc \in {"scan", "map", "rec", "gc", "invalid"} => walk.loop = pc
    /\ pc \in {"idle", "recover", "recount", "clear"} => walk.loop = "none"
    /\ walk.loop \in {"map", "rec", "gc"} => walk.page \in Pages
    /\ target.next \in {"gc", "invalid"} =>
         walk.loop = target.next /\ pc \in {"erase", "mark", target.next}
    /\ target.next \in {"init", "clear"} =>
         walk.loop = "none" /\ pc \in {"erase", "mark", "format"}
    /\ target.next = "write" => item # NoItem /\ pc \in {"erase", "mark", "format"}

TypeInv == TypeOK /\ Control

\* An erased page is well formed.
LEMMA BlankPageType == BlankPage \in Page
  BY RingAssumption, PageAssumption DEF BlankPage, Page, Seqs, Word

\* No loop and no target are well formed.
LEMMA NoWalkType == NoWalk \in Walk /\ NoTarget \in Target
  BY RingAssumption, PageAssumption DEF NoWalk, Walk, NoTarget, Target, Loops, Pages

\* A mapping table without entries is well formed.
LEMMA EmptyMapType == EmptyMap \in [Addr -> Entry]
  <1>1. 0 \in Pages /\ 2 \in Cells
    BY RingAssumption, PageAssumption DEF Pages, Cells, INFO_size
  <1>2. 0 \in Entry
    <2>1. PhysAddr(0, 2) \in Entry
      BY <1>1, PhysAddrType
    <2>2. NPages * (PageElement \div 2) \in Int
      BY RingAssumption, PageAssumption
    <2> QED
      BY <2>1, <2>2 DEF Entry
  <1> QED
    BY <1>2 DEF EmptyMap

\* The strengthened invariant holds initially.
LEMMA TypeInit == Init => TypeInv
  <1> SUFFICES ASSUME Init PROVE TypeInv
    OBVIOUS
  <1>1. flash \in [Pages -> Page]
    BY BlankPageType DEF Init
  <1>2. cur \in Pages /\ free \in INFO_size .. PageElement /\ freeCount \in 0 .. 255
    BY RingType, PageAssumption DEF Init, INFO_size
  <1>3. map \in [Addr -> Entry]
    BY EmptyMapType DEF Init
  <1>4. walk \in Walk /\ target \in Target
    BY NoWalkType DEF Init
  <1> QED
    BY <1>1, <1>2, <1>3, <1>4 DEF Init, TypeInv, TypeOK, Control, Labels, NoWalk,
       NoTarget

\* What a scan reads in a page.
LEMMA LastKeyType ==
    ASSUME TypeOK, NEW p \in Pages PROVE LastKey(p) \in 0 .. PageElement - 1
  BY PageAssumption DEF LastKey, TypeOK, Page

\* The pair a loop reads at an odd cell is made of words, its key of an address.
LEMMA PairType ==
    ASSUME TypeOK, NEW p \in Pages, NEW k \in 3 .. PageElement - 1
    PROVE  /\ k \in Cells /\ k - 1 \in Cells
           /\ flash[p].word[k] \in Word /\ flash[p].word[k - 1] \in Word
           /\ KeyAt(flash[p].word[k]) => flash[p].word[k].addr \in Addr
  <1>1. k \in Cells /\ k - 1 \in Cells
    BY PageAssumption DEF Cells, INFO_size
  <1>2. flash[p].word[k] \in Word /\ flash[p].word[k - 1] \in Word
    BY <1>1 DEF TypeOK, Page
  <1>3. \A w \in Keys : w.addr \in Addr
    BY DEF Keys, Key
  <1> QED
    BY <1>1, <1>2, <1>3 DEF KeyAt

\* Writing a word or a header keeps the pages well formed.
LEMMA FlashWordType ==
    ASSUME flash \in [Pages -> Page], NEW p \in Pages, NEW i \in Cells, NEW w \in Word
    PROVE  [flash EXCEPT ![p].word[i] = w] \in [Pages -> Page]
  BY DEF Page

\* So does writing a header.
LEMMA FlashHeaderType ==
    ASSUME flash \in [Pages -> Page], NEW p \in Pages, NEW s \in Seqs,
           NEW m \in {"blank", "valid", "erased", "zero"}
    PROVE  [flash EXCEPT ![p].mark = m, ![p].seq = s] \in [Pages -> Page]
  BY DEF Page

\* The ranges of a loop, and the loops that start or move on within them.
LEMMA WalkFields ==
    ASSUME walk \in Walk
    PROVE  /\ walk.page \in 0 .. NPages + 1
           /\ walk.key \in -1 .. PageElement - 1
           /\ walk.retry \in 0 .. NPages
           /\ walk.key >= 3 => /\ walk.key \in 3 .. PageElement - 1
                               /\ walk.key - 2 \in -1 .. PageElement - 1
  BY Sizes DEF Walk

\* A loop that moves on within its ranges is well formed.
LEMMA WalkType ==
    ASSUME walk \in Walk
    PROVE  /\ \A p \in 0 .. NPages + 1 : [walk EXCEPT !.page = p] \in Walk
           /\ \A k \in -1 .. PageElement - 1 : [walk EXCEPT !.key = k] \in Walk
           /\ \A p \in 0 .. NPages + 1, k \in -1 .. PageElement - 1 :
                [walk EXCEPT !.page = p, !.key = k] \in Walk
           /\ \A p \in 0 .. NPages + 1, k \in -1 .. PageElement - 1, r \in 0 .. NPages :
                [walk EXCEPT !.page = p, !.key = k, !.retry = r] \in Walk
           /\ \A k \in -1 .. PageElement - 1, b \in BOOLEAN :
                /\ [walk EXCEPT !.key = k, !.later = walk.later \/ b] \in Walk
                /\ [walk EXCEPT !.key = k, !.dropped = walk.dropped \/ b] \in Walk
  BY DEF Walk

\* So is one that starts within them.
LEMMA LoopType ==
    ASSUME NEW p \in 0 .. NPages + 1, NEW l \in Loops
    PROVE  /\ \A k \in -1 .. PageElement - 1 :
                [NoWalk EXCEPT !.loop = l, !.page = p, !.key = k] \in Walk
           /\ \A r \in 0 .. NPages :
                [NoWalk EXCEPT !.loop = l, !.page = p, !.retry = r] \in Walk
           /\ \A k \in -1 .. PageElement - 1, r \in 0 .. NPages :
                [loop |-> l, page |-> p, key |-> k, dropped |-> FALSE,
                 later |-> FALSE, retry |-> r] \in Walk
  BY NoWalkType DEF Walk

\* Pages and keys are in those ranges.
LEMMA Ranges ==
    /\ Pages \subseteq 0 .. NPages + 1
    /\ 0 .. PageElement - 1 \subseteq -1 .. PageElement - 1
    /\ \A p \in 0 .. NPages + 1 : p < NPages => p \in Pages /\ p + 1 \in 0 .. NPages + 1
    /\ \A f \in INFO_size .. PageElement : f - 1 \in -1 .. PageElement - 1
    /\ 1 \in 0 .. NPages + 1
  BY Sizes DEF Pages, INFO_size

\* The count of free pages decremented in its byte stays in it.
LEMMA ByteType == ASSUME NEW n \in 0 .. 255 PROVE (n + 255) % 256 \in 0 .. 255
  BY ModRange

-----------------------------------------------------------------------------
(* Every step preserves the two halves of the invariant.                    *)

\* Every step keeps the variables in their sets.
LEMMA TypeStep == TypeInv /\ [Next]_vars => TypeOK'
  <1> SUFFICES ASSUME TypeInv, [Next]_vars PROVE TypeOK'
    OBVIOUS
  <1> USE Sizes DEF TypeInv
  <1>PowerOn. CASE PowerOn
    BY <1>PowerOn, NoWalkType, NoWalkType DEF PowerOn, TypeOK, ram, NoWalk, Walk,
       Loops, Labels
  <1>ScanPage. CASE ScanPage
    <2>1. walk.page \in Pages /\ walk.page + 1 \in 0 .. NPages + 1
      BY <1>ScanPage, WalkFields, Ranges DEF ScanPage, TypeOK
    <2>2. walk' \in Walk
      BY <1>ScanPage, <2>1, WalkType DEF ScanPage, TypeOK
    <2> QED
      BY <1>ScanPage, <2>1, <2>2 DEF ScanPage, TypeOK, ram, Pages
  <1>ScanNone. CASE ScanNone
    BY <1>ScanNone, NoWalkType, RingType DEF ScanNone, TypeOK, ram, Target, Labels
  <1>FindCell. CASE FindCell
    <2>1. PICK f \in INFO_size .. PageElement :
                 /\ walk' = [NoWalk EXCEPT !.loop = "map", !.page = cur, !.key = f - 1]
                 /\ free' = f
      BY <1>FindCell DEF FindCell
    <2>2. cur \in 0 .. NPages + 1 /\ f - 1 \in -1 .. PageElement - 1 /\ "map" \in Loops
      BY <1>FindCell, <2>1, Ranges DEF FindCell, TypeOK, Loops
    <2>3. walk' \in Walk
      BY <1>FindCell, <2>1, <2>2, LoopType, Sizes DEF FindCell, TypeOK
    <2> QED
      BY <1>FindCell, <2>1, <2>2, <2>3, EmptyMapType DEF FindCell, TypeOK, ram, Labels
  <1>MapKey. CASE MapKey
    <2>1. /\ walk.page \in Pages /\ walk.key \in 3 .. PageElement - 1
          /\ walk.key - 2 \in -1 .. PageElement - 1
      BY <1>MapKey, WalkFields DEF MapKey, TypeOK, Control
    <2>2. walk' \in Walk
      BY <1>MapKey, <2>1, WalkType DEF MapKey, TypeOK
    <2>3. map' \in [Addr -> Entry]
      BY <1>MapKey, <2>1, <2>2, PairType, PhysAddrType DEF MapKey, TypeOK
    <2> QED
      BY <1>MapKey, <2>1, <2>2, <2>3 DEF MapKey, TypeOK, ram
  <1>MapPrev. CASE MapPrev
    <2>1. PrevPage(walk.page) \in Pages
      BY <1>MapPrev, RingType DEF MapPrev, Control
    <2>2. /\ PrevPage(walk.page) \in 0 .. NPages + 1
          /\ LastKey(PrevPage(walk.page)) \in -1 .. PageElement - 1
      BY <1>MapPrev, <2>1, LastKeyType, Ranges DEF MapPrev
    <2>3. walk' \in Walk
      BY <1>MapPrev, <2>1, <2>2, WalkType, NoWalkType DEF MapPrev, TypeOK
    <2> QED
      BY <1>MapPrev, <2>1, <2>2, <2>3, NoWalkType DEF MapPrev, TypeOK, ram, Labels
  <1>RecoverNone. CASE RecoverNone
    BY <1>RecoverNone, NoWalkType, FreePagesType DEF RecoverNone, TypeOK, ram, work,
       Labels
  <1>Recover. CASE Recover
    <2>1. ftl_page_get_oldest \in Pages
      BY <1>Recover, OldestType DEF Recover, TypeOK
    <2>2. /\ ftl_page_get_oldest \in 0 .. NPages + 1
          /\ LastKey(ftl_page_get_oldest) \in -1 .. PageElement - 1 /\ "rec" \in Loops
      BY <1>Recover, <2>1, LastKeyType, Ranges DEF Recover, Loops
    <2>3. walk' \in Walk
      BY <1>Recover, <2>1, <2>2, LoopType, Sizes DEF Recover, TypeOK
    <2> QED
      BY <1>Recover, <2>1, <2>2, <2>3 DEF Recover, TypeOK, ram, Labels
  <1>RecoverKey. CASE RecoverKey
    <2>1. /\ walk.page \in Pages /\ walk.key \in 3 .. PageElement - 1
          /\ walk.key - 2 \in -1 .. PageElement - 1
      BY <1>RecoverKey, WalkFields DEF RecoverKey, TypeOK, Control
    <2>2. walk' \in Walk
      BY <1>RecoverKey, <2>1, WalkType DEF RecoverKey, TypeOK
    <2>3. item' \in Item \cup {NoItem}
      BY <1>RecoverKey, <2>1, <2>2, PairType DEF RecoverKey, TypeOK, Item
    <2> QED
      BY <1>RecoverKey, <2>1, <2>2, <2>3 DEF RecoverKey, TypeOK, ram, Labels
  <1>RecoverDone. CASE RecoverDone
    <2>1. walk.page \in Pages /\ 0 \in Seqs
      BY <1>RecoverDone, RingAssumption DEF RecoverDone, Control, Seqs
    <2>2. flash' \in [Pages -> Page]
      BY <1>RecoverDone, <2>1, FlashHeaderType DEF RecoverDone, TypeOK
    <2> QED
      BY <1>RecoverDone, <2>1, <2>2, NoWalkType DEF RecoverDone, TypeOK, ram, Labels
  <1>Recount. CASE Recount
    BY <1>Recount, NoWalkType, FreePagesType DEF Recount, TypeOK, ram, work, Labels
  <1>Save. CASE \E s \in Saves : Save(s[1], s[2])
    BY <1>Save, NoWalkType, CallAssumption DEF Save, TypeOK, ram, Item, Word, Labels
  <1>WriteData. CASE WriteData
    <2>1. free \in Cells /\ item.val \in Word
      BY <1>WriteData DEF WriteData, TypeOK, Control, Room, Cells, INFO_size, Item
    <2>2. flash' \in [Pages -> Page]
      BY <1>WriteData, <2>1, FlashWordType DEF WriteData, TypeOK
    <2> QED
      BY <1>WriteData, <2>1, <2>2 DEF WriteData, TypeOK, ram, work, Labels
  <1>WriteKey. CASE WriteKey
    <2>1. free \in Cells /\ free + 1 \in Cells /\ item.addr \in Addr /\ Key(item.addr) \in Word
      BY <1>WriteKey DEF WriteKey, TypeOK, Control, Room, Cells, INFO_size, Item,
         Word, Keys
    <2>2. flash' \in [Pages -> Page] /\ map' \in [Addr -> Entry]
      BY <1>WriteKey, <2>1, FlashWordType, PhysAddrType DEF WriteKey, TypeOK
    <2>3. free' \in INFO_size .. PageElement
      BY <1>WriteKey, <2>1, <2>2 DEF WriteKey, TypeOK, Control, Room, INFO_size
    <2>4. pc' \in Labels
      BY <1>WriteKey, <2>1, <2>2, <2>3 DEF WriteKey, TypeOK, Return, Walk, Loops, Labels
    <2> QED
      BY <1>WriteKey, <2>1, <2>2, <2>3, <2>4 DEF WriteKey, TypeOK, ram
  <1>SetEndPosition. CASE SetEndPosition
    BY <1>SetEndPosition, NoWalkType DEF SetEndPosition, TypeOK, ram, Page,
       INFO_size, work
  <1>OpenNextPage. CASE OpenNextPage
    BY <1>OpenNextPage, NoWalkType, RingType DEF OpenNextPage, TypeOK, ram, Target,
       Labels
  <1>PageErase. CASE PageErase
    BY <1>PageErase, NoWalkType, BlankPageType DEF PageErase, TypeOK, ram,
       AfterErase, work, Labels, Target
  <1>PageMark. CASE PageMark
    BY <1>PageMark, NoWalkType DEF PageMark, TypeOK, ram, AfterErase, Page, work,
       Labels, Target
  <1>FormatNext. CASE FormatNext
    <2>1. target.page \in Pages /\ NextSeq(flash[cur].seq) \in Seqs
      BY <1>FormatNext, RingType DEF FormatNext, TypeOK, Target, Page
    <2>2. flash' \in [Pages -> Page]
      BY <1>FormatNext, <2>1, FlashHeaderType DEF FormatNext, TypeOK, FormatAs
    <2>3. freeCount' \in 0 .. 255
      BY <1>FormatNext, <2>1, <2>2, ByteType DEF FormatNext, TypeOK, FormatAs
    <2> QED
      BY <1>FormatNext, <2>1, <2>2, <2>3, NoWalkType DEF FormatNext, TypeOK, ram,
         NoTarget, Labels, INFO_size, FormatAs
  <1>FormatFirst. CASE FormatFirst
    <2>1. target.page \in Pages /\ 0 \in Seqs
      BY <1>FormatFirst, RingAssumption DEF FormatFirst, TypeOK, Target, Seqs
    <2>2. flash' \in [Pages -> Page]
      BY <1>FormatFirst, <2>1, FlashHeaderType DEF FormatFirst, TypeOK, FormatAs
    <2>3. freeCount' \in 0 .. 255
      BY <1>FormatFirst, <2>1, <2>2, ByteType DEF FormatFirst, TypeOK, FormatAs
    <2> QED
      BY <1>FormatFirst, <2>1, <2>2, <2>3, NoWalkType DEF FormatFirst, TypeOK, ram,
         Labels, FormatAs
  <1>Collect. CASE \E t \in GcCalls : Collect(t)
    BY <1>Collect, NoWalkType DEF Collect, TypeOK, ram, work, Labels
  <1>CollectPage. CASE CollectPage
    <2>1. ftl_page_get_oldest \in Pages /\ "gc" \in Loops
      BY <1>CollectPage, OldestType DEF CollectPage, TypeOK, Loops
    <2>2. /\ ftl_page_get_oldest \in 0 .. NPages + 1
          /\ LastKey(ftl_page_get_oldest) \in -1 .. PageElement - 1
      BY <1>CollectPage, <2>1, LastKeyType, Ranges DEF CollectPage
    <2>3. NPages - ftl_get_free_page_count - 1 \in 0 .. NPages
      BY <1>CollectPage, <2>1, <2>2, FreePagesType DEF CollectPage
    <2>4. walk' \in Walk
      BY <1>CollectPage, <2>1, <2>2, <2>3, LoopType DEF CollectPage
    <2> QED
      BY <1>CollectPage, <2>1, <2>2, <2>3, <2>4 DEF CollectPage, TypeOK, ram, Labels
  <1>CollectKey. CASE CollectKey
    <2>1. /\ walk.page \in Pages /\ walk.key \in 3 .. PageElement - 1
          /\ walk.key - 2 \in -1 .. PageElement - 1
      BY <1>CollectKey, WalkFields DEF CollectKey, TypeOK, Control
    <2>2. walk' \in Walk
      BY <1>CollectKey, <2>1, WalkType DEF CollectKey, TypeOK
    <2>3. item' \in Item \cup {NoItem}
      BY <1>CollectKey, <2>1, <2>2, PairType DEF CollectKey, TypeOK, Item
    <2> QED
      BY <1>CollectKey, <2>1, <2>2, <2>3 DEF CollectKey, TypeOK, ram, Labels
  <1>CollectErase. CASE CollectErase
    <2>1. walk.page \in Pages
      BY <1>CollectErase DEF CollectErase, Control
    <2> QED
      BY <1>CollectErase, <2>1 DEF CollectErase, TypeOK, ram, Target, Labels
  <1>CollectRetry. CASE CollectRetry
    <2>1. ftl_page_get_oldest \in Pages /\ walk.retry - 1 \in 0 .. NPages
      BY <1>CollectRetry, OldestType, WalkFields DEF CollectRetry, TypeOK
    <2>2. /\ ftl_page_get_oldest \in 0 .. NPages + 1
          /\ LastKey(ftl_page_get_oldest) \in -1 .. PageElement - 1
      BY <1>CollectRetry, <2>1, LastKeyType, Ranges DEF CollectRetry
    <2>3. walk' \in Walk
      BY <1>CollectRetry, <2>1, <2>2, WalkType DEF CollectRetry, TypeOK
    <2> QED
      BY <1>CollectRetry, <2>1, <2>2, <2>3, NoWalkType DEF CollectRetry, TypeOK, ram,
         Labels
  <1>CollectDone. CASE CollectDone
    BY <1>CollectDone, NoWalkType, FreePagesType DEF CollectDone, TypeOK, ram, Labels
  <1>ClearAll. CASE ClearAll
    BY <1>ClearAll, NoWalkType DEF ClearAll, TypeOK, ram, work, Labels
  <1>ClearPage. CASE ClearPage
    <2>1. walk.page \in Pages /\ walk.page + 1 \in 0 .. NPages + 1 /\ 0 \in Seqs
      BY <1>ClearPage, RingAssumption, WalkFields, Ranges DEF ClearPage, TypeOK, Seqs
    <2>2. walk' \in Walk
      BY <1>ClearPage, <2>1, WalkType DEF ClearPage, TypeOK
    <2>3. flash' \in [Pages -> Page]
      BY <1>ClearPage, <2>1, <2>2, FlashHeaderType DEF ClearPage, TypeOK
    <2> QED
      BY <1>ClearPage, <2>1, <2>2, <2>3 DEF ClearPage, TypeOK, ram
  <1>ClearReset. CASE ClearReset
    BY <1>ClearReset, NoWalkType, EmptyMapType, RingType DEF ClearReset, TypeOK, ram,
       INFO_size, Labels, Target
  <1>EraseInvalid. CASE EraseInvalid
    <2>1. ftl_get_free_page_count \in 0 .. NPages /\ "invalid" \in Loops
      BY <1>EraseInvalid, FreePagesType DEF EraseInvalid, Loops
    <2>2. 1 \in 0 .. NPages + 1
      BY <1>EraseInvalid, <2>1, Ranges DEF EraseInvalid
    <2>3. walk' \in Walk
      BY <1>EraseInvalid, <2>1, <2>2, LoopType DEF EraseInvalid
    <2> QED
      BY <1>EraseInvalid, <2>1, <2>2, <2>3, NoWalkType DEF EraseInvalid, TypeOK, ram,
         Labels
  <1>EraseInvalidPage. CASE EraseInvalidPage
    <2>1. cur \in Nat /\ walk.page \in Nat /\ walk.page <= NPages
      BY <1>EraseInvalidPage, WalkFields DEF EraseInvalidPage, TypeOK, Pages
    <2>2. cur + walk.page \in Nat /\ walk.page + 1 \in 0 .. NPages + 1
      BY <1>EraseInvalidPage, <2>1 DEF EraseInvalidPage
    <2>3. (cur + walk.page) % NPages \in Pages
      BY <1>EraseInvalidPage, <2>1, <2>2, RingType DEF EraseInvalidPage
    <2>4. walk' \in Walk
      BY <1>EraseInvalidPage, <2>1, <2>2, <2>3, WalkType DEF EraseInvalidPage, TypeOK
    <2>5. target' \in Target
      BY <1>EraseInvalidPage, <2>1, <2>2, <2>3, <2>4, RingType DEF EraseInvalidPage,
         TypeOK, Target
    <2> QED
      BY <1>EraseInvalidPage, <2>1, <2>2, <2>3, <2>4, <2>5 DEF EraseInvalidPage,
         TypeOK, ram, Labels
  <1>EraseInvalidDone. CASE EraseInvalidDone
    BY <1>EraseInvalidDone, NoWalkType DEF EraseInvalidDone, TypeOK, ram, Labels
  <1>PowerLoss. CASE PowerLoss
    BY <1>PowerLoss, NoWalkType, EmptyMapType, RingType DEF PowerLoss, TypeOK, ram,
       Reset, INFO_size, Labels
  <1>PowerLossInSector. CASE PowerLossInSector
    BY <1>PowerLossInSector, NoWalkType, EmptyMapType, RingType, BlankPageType
       DEF PowerLossInSector, TypeOK, ram, Reset, INFO_size, Labels
  <1>Stutter. CASE UNCHANGED vars
    BY <1>Stutter DEF TypeOK, ram, vars, work
  <1> QED
    BY <1>PowerOn, <1>ScanPage, <1>ScanNone, <1>FindCell, <1>MapKey, <1>MapPrev,
       <1>RecoverNone, <1>Recover, <1>RecoverKey, <1>RecoverDone, <1>Recount, <1>Save,
       <1>WriteData, <1>WriteKey, <1>SetEndPosition, <1>OpenNextPage, <1>PageErase,
       <1>PageMark, <1>FormatNext, <1>FormatFirst, <1>Collect, <1>CollectPage, <1>CollectKey,
       <1>CollectErase, <1>CollectRetry, <1>CollectDone, <1>ClearAll, <1>ClearPage,
       <1>ClearReset,
       <1>EraseInvalid, <1>EraseInvalidPage, <1>EraseInvalidDone, <1>PowerLoss,
       <1>PowerLossInSector,
       <1>Stutter DEF Next, Step, Boot, Append, Format, Gc, Clear, Request

\* Every step leaves the loop that runs, and what it appends, as its label says.
LEMMA ControlStep == TypeInv /\ [Next]_vars => Control'
  <1> SUFFICES ASSUME TypeInv, [Next]_vars PROVE Control'
    OBVIOUS
  <1> USE Sizes DEF TypeInv
  <1>PowerOn. CASE PowerOn
    BY <1>PowerOn DEF PowerOn, TypeOK, Control, NoWalk
  <1>ScanPage. CASE ScanPage
    BY <1>ScanPage DEF ScanPage, TypeOK, Control, Walk, Loops
  <1>ScanNone. CASE ScanNone
    BY <1>ScanNone, NoWalkType DEF ScanNone, TypeOK, Control, NoWalk
  <1>FindCell. CASE FindCell
    BY <1>FindCell DEF FindCell, TypeOK, Control, NoWalk
  <1>MapKey. CASE MapKey
    BY <1>MapKey DEF MapKey, TypeOK, Control
  <1>MapPrev. CASE MapPrev
    <2>1. PrevPage(walk.page) \in Pages /\ walk.loop = "map"
      BY <1>MapPrev, RingType DEF MapPrev, Control
    <2>2. \/ walk'.loop = "map" /\ walk'.page \in Pages /\ pc' = "map"
          \/ walk' = NoWalk /\ pc' = "recover"
      BY <1>MapPrev, <2>1 DEF MapPrev, TypeOK, Walk
    <2> QED
      BY <1>MapPrev, <2>2 DEF MapPrev, Control, NoWalk
  <1>RecoverNone. CASE RecoverNone
    BY <1>RecoverNone DEF RecoverNone, TypeOK, Control, work
  <1>Recover. CASE Recover
    BY <1>Recover, OldestType DEF Recover, TypeOK, Control, NoWalk
  <1>RecoverKey. CASE RecoverKey
    BY <1>RecoverKey, PairType, WordAssumption DEF RecoverKey, TypeOK, Control, Item,
       Room, Walk, Loops
  <1>RecoverDone. CASE RecoverDone
    BY <1>RecoverDone DEF RecoverDone, TypeOK, Control, NoWalk
  <1>Recount. CASE Recount
    BY <1>Recount DEF Recount, TypeOK, Control, work
  <1>Save. CASE \E s \in Saves : Save(s[1], s[2])
    BY <1>Save, CallAssumption, WordAssumption DEF Save, TypeOK, Control, Item, Word
  <1>WriteData. CASE WriteData
    BY <1>WriteData DEF WriteData, TypeOK, Control, work, ram, Room
  <1>WriteKey. CASE WriteKey
    BY <1>WriteKey DEF WriteKey, TypeOK, Control, Return, Walk, Loops
  <1>SetEndPosition. CASE SetEndPosition
    BY <1>SetEndPosition DEF SetEndPosition, TypeOK, Control, work, ram
  <1>OpenNextPage. CASE OpenNextPage
    BY <1>OpenNextPage DEF OpenNextPage, TypeOK, Control
  <1>PageErase. CASE PageErase
    BY <1>PageErase DEF PageErase, TypeOK, Control, AfterErase, work, Target
  <1>PageMark. CASE PageMark
    BY <1>PageMark DEF PageMark, TypeOK, Control, AfterErase, work, Target
  <1>FormatNext. CASE FormatNext
    BY <1>FormatNext DEF FormatNext, TypeOK, Control, FormatAs, NoTarget
  <1>FormatFirst. CASE FormatFirst
    BY <1>FormatFirst DEF FormatFirst, TypeOK, Control, FormatAs, NoTarget
  <1>Collect. CASE \E t \in GcCalls : Collect(t)
    BY <1>Collect DEF Collect, TypeOK, Control, work
  <1>CollectPage. CASE CollectPage
    BY <1>CollectPage, OldestType DEF CollectPage, TypeOK, Control
  <1>CollectKey. CASE CollectKey
    BY <1>CollectKey, PairType, WordAssumption DEF CollectKey, TypeOK, Control, Item,
       NoTarget, Walk, Loops
  <1>CollectErase. CASE CollectErase
    BY <1>CollectErase DEF CollectErase, TypeOK, Control, NoTarget
  <1>CollectRetry. CASE CollectRetry
    BY <1>CollectRetry, OldestType DEF CollectRetry, TypeOK, Control, NoTarget
  <1>CollectDone. CASE CollectDone
    BY <1>CollectDone DEF CollectDone, TypeOK, Control, NoTarget, NoWalk
  <1>ClearAll. CASE ClearAll
    BY <1>ClearAll DEF ClearAll, TypeOK, Control, work
  <1>ClearPage. CASE ClearPage
    BY <1>ClearPage DEF ClearPage, TypeOK, Control, Walk, Loops
  <1>ClearReset. CASE ClearReset
    BY <1>ClearReset DEF ClearReset, TypeOK, Control, NoWalk
  <1>EraseInvalid. CASE EraseInvalid
    BY <1>EraseInvalid DEF EraseInvalid, TypeOK, Control, NoWalk
  <1>EraseInvalidPage. CASE EraseInvalidPage
    BY <1>EraseInvalidPage DEF EraseInvalidPage, TypeOK, Control, Walk, Loops
  <1>EraseInvalidDone. CASE EraseInvalidDone
    BY <1>EraseInvalidDone DEF EraseInvalidDone, TypeOK, Control, NoWalk, NoTarget
  <1>PowerLoss. CASE PowerLoss
    BY <1>PowerLoss DEF PowerLoss, TypeOK, Control, Reset, NoWalk, NoTarget
  <1>PowerLossInSector. CASE PowerLossInSector
    BY <1>PowerLossInSector DEF PowerLossInSector, TypeOK, Control, Reset, NoWalk,
       NoTarget
  <1>Stutter. CASE UNCHANGED vars
    BY <1>Stutter DEF TypeOK, Control, vars, work, ram, Room
  <1> QED
    BY <1>PowerOn, <1>ScanPage, <1>ScanNone, <1>FindCell, <1>MapKey, <1>MapPrev,
       <1>RecoverNone, <1>Recover, <1>RecoverKey, <1>RecoverDone, <1>Recount, <1>Save,
       <1>WriteData, <1>WriteKey, <1>SetEndPosition, <1>OpenNextPage, <1>PageErase,
       <1>PageMark, <1>FormatNext, <1>FormatFirst, <1>Collect, <1>CollectPage, <1>CollectKey,
       <1>CollectErase, <1>CollectRetry, <1>CollectDone, <1>ClearAll, <1>ClearPage,
       <1>ClearReset,
       <1>EraseInvalid, <1>EraseInvalidPage, <1>EraseInvalidDone, <1>PowerLoss,
       <1>PowerLossInSector,
       <1>Stutter DEF Next, Step, Boot, Append, Format, Gc, Clear, Request

\* The strengthened type invariant holds in every state.
LEMMA TypeInvariant == Spec => []TypeInv
  <1>1. TypeInv /\ [Next]_vars => TypeInv'
    BY TypeStep, ControlStep DEF TypeInv
  <1> QED
    BY TypeInit, <1>1, PTL DEF Spec

\* Type correctness, for every ring, page size and set of callers: indices into
\* flash and the mapping table stay in range, a mapping entry stays below the
\* words of the ring and the count of free pages stays in its byte.
THEOREM TypeCorrect == Spec => []TypeOK
  <1>1. TypeInv => TypeOK
    BY DEF TypeInv
  <1> QED
    BY TypeInvariant, <1>1, PTL

-----------------------------------------------------------------------------
(* ftl_write only writes words that are blank, on every ring: the invariant *)
(* that says what is blank when, and its proof.                             *)

(* The ring: what ftl_get_free_page_count and ftl_page_get_oldest find.     *)

\* Once round the ring is the same page.
LEMMA ModShift == ASSUME NEW a \in Nat, NEW b \in Nat, a < b
                  PROVE  (a + b) % b = a
  OBVIOUS

\* The next position in the ring.
LEMMA ModSucc == ASSUME NEW a \in Nat, NEW b \in Nat, a < b, b >= 2
                 PROVE  (a + 1) % b = IF a + 1 < b THEN a + 1 ELSE 0
  OBVIOUS

\* A set of positions without gaps ends at its cardinality.
LEMMA PrefixCard ==
    ASSUME NEW N \in Nat, NEW S \in SUBSET (1 .. N),
           \A n \in S : \A i \in 1 .. n : i \in S
    PROVE  S = 1 .. Cardinality(S)
  <1> DEFINE c == Cardinality(S)
  <1>1. \A k \in Nat : IsFiniteSet(1 .. k) /\ Cardinality(1 .. k) = k
    BY FS_Interval
  <1>2. IsFiniteSet(S) /\ c \in Nat
    <2>1. IsFiniteSet(S)
      BY <1>1, FS_Subset
    <2> QED
      BY <2>1, FS_CardinalityType
  <1>3. \A k \in Nat : 1 .. k \subseteq S => k <= c
    BY <1>1, <1>2, FS_Subset
  <1>4. ASSUME NEW k \in Nat, S \subseteq 1 .. k PROVE c <= k
    <2>1. c <= Cardinality(1 .. k)
      BY <1>1, <1>4, FS_Subset
    <2> QED
      BY <1>1, <2>1
  <1> HIDE DEF c
  <1>5. ASSUME NEW n \in S PROVE n <= c
    <2>1. 1 .. n \subseteq S /\ n \in Nat
      OBVIOUS
    <2> QED
      BY <2>1, <1>3
  <1>6. ASSUME c > 0 PROVE c \in S
    <2>1. c - 1 \in Nat /\ ~(c <= c - 1)
      BY <1>2, <1>6
    <2>2. ~(S \subseteq 1 .. c - 1)
      BY <1>4, <2>1
    <2> QED
      BY <2>2, <1>5, <1>2
  <1>7. 1 .. c \subseteq S
    <2> SUFFICES ASSUME NEW i \in 1 .. c PROVE i \in S
      OBVIOUS
    <2> QED
      BY <1>2, <1>6
  <1>8. S \subseteq 1 .. c
    BY <1>2, <1>5
  <1> QED
    BY <1>7, <1>8 DEF c

\* While the current page is valid, not every page is free, and the page after
\* the free ones, the oldest, is valid; if none is free it is not the current.
LEMMA Oldest ==
    ASSUME cur \in Pages, ftl_page_is_valid(cur)
    PROVE  /\ ftl_page_is_valid(ftl_page_get_oldest)
           /\ ftl_get_free_page_count = 0 => ftl_page_get_oldest # cur
  <1> DEFINE n == ftl_get_free_page_count
             S == {k \in 1 .. NPages :
                     \A i \in 1 .. k : ~ftl_page_is_valid((cur + i) % NPages)}
  <1>1. cur \in Nat /\ cur < NPages
    BY Sizes DEF Pages
  <1>2. n = Cardinality(S)
    BY DEF ftl_get_free_page_count
  <1>3. n \in 0 .. NPages
    BY FreePagesType
  <1>4. S = 1 .. n
    <2>1. S \in SUBSET (1 .. NPages) /\ \A k \in S : \A i \in 1 .. k : i \in S
      BY Sizes
    <2> QED
      BY <2>1, <1>2, PrefixCard, Sizes
  <1> HIDE DEF n
  <1>5. NPages \notin S
    <2>1. (cur + NPages) % NPages = cur
      BY <1>1, ModShift, Sizes
    <2> QED
      BY <2>1, Sizes
  <1>6. n < NPages
    BY <1>3, <1>4, <1>5, Sizes
  <1>7. n + 1 \in 1 .. NPages /\ n + 1 \notin S
    <2> HIDE DEF S
    <2> QED
      BY <1>3, <1>4, <1>6, Sizes
  <1>8. ~(\A i \in 1 .. n + 1 : ~ftl_page_is_valid((cur + i) % NPages))
    BY <1>7
  <1>9. \A i \in 1 .. n : ~ftl_page_is_valid((cur + i) % NPages)
    BY <1>3, <1>4
  <1>10. ftl_page_is_valid((cur + (n + 1)) % NPages)
    <2>1. \A i \in 1 .. n + 1 : i \in 1 .. n \/ i = n + 1
      BY <1>3
    <2> QED
      BY <2>1, <1>8, <1>9
  <1>11. cur + (n + 1) = cur + 1 + n
    BY <1>1, <1>3
  <1>12. (cur + 1) % NPages # cur
    BY <1>1, ModSucc, Sizes
  <1>13. n = 0 => cur + 1 + n = cur + 1
    BY <1>1
  <1> QED
    BY <1>10, <1>11, <1>12, <1>13 DEF ftl_page_get_oldest, n

\* The next page of the ring is another page.
LEMMA NextIsOther == \A p \in Pages : NextPage(p) # p
  BY ModSucc, Sizes DEF Pages, NextPage

-----------------------------------------------------------------------------
(* Words are written above everything written so far, and the pages that    *)
(* are opened are blank.  That needs the current page to stay valid, hence  *)
(* to be known apart from every page that is erased or cleared.             *)

\* Page p has no word from cell f on.
UnwrittenFrom(p, f) == \A i \in Cells : i >= f => flash[p].word[i] = Blank

\* The current page has been found, and is not being cleared.
Booted == /\ pc \notin {"off", "scan", "cell", "clear"}
          /\ target.next \notin {"init", "clear"}

\* A page marked as erased is blank, and so is the page about to be formatted.
ErasedInv ==
    /\ \A p \in Pages : flash[p].mark = "erased" => UnwrittenFrom(p, INFO_size)
    /\ pc \in {"mark", "format"} => UnwrittenFrom(target.page, INFO_size)
    /\ pc \in {"erase", "mark", "format"} => target.next # "none"

\* The search for the current page finds a valid one; page 0 is the first.
ScanInv ==
    /\ pc = "off" => cur = 0
    /\ pc = "scan" => IF \E j \in Pages : j < walk.page /\ ftl_page_is_valid(j)
                      THEN ftl_page_is_valid(cur) ELSE cur = 0
    /\ pc = "cell" => ftl_page_is_valid(cur)
    /\ walk.loop = "scan" => pc = "scan"
    /\ target.next \in {"init", "clear"} => cur = 0 /\ target.page = 0
    /\ target.next = "clear" => free = INFO_size

\* The current page is valid and blank from the free cell on; nothing that is
\* erased, recycled or collected is the current page.
CurrentInv ==
    Booted => /\ ftl_page_is_valid(cur)
              /\ UnwrittenFrom(cur, IF pc = "key" THEN free + 1 ELSE free)
              /\ target.next # "none" => target.page # cur
              /\ walk.loop = "rec" => 
                   /\ walk.page # cur /\ target.next = "none"
                   /\ pc = "write" => Room
              /\ walk.loop = "gc" =>
                   /\ walk.page # cur
                   /\ target.next # "gc" => ftl_page_is_valid(walk.page)
                   /\ target.next = "write" => target.page # walk.page

LogInv == ErasedInv /\ ScanInv /\ CurrentInv

\* What a write, a header and an erase leave as they were.
LEMMA WordWritten ==
    ASSUME flash \in [Pages -> Page], NEW p \in Pages, NEW i \in Cells, NEW w
    PROVE  LET f == [flash EXCEPT ![p].word[i] = w]
           IN  /\ \A q \in Pages : f[q].mark = flash[q].mark
               /\ \A q \in Pages : \A j \in Cells :
                    f[q].word[j] = IF q = p /\ j = i THEN w ELSE flash[q].word[j]
  BY DEF Page

LEMMA HeaderWritten ==
    ASSUME flash \in [Pages -> Page], NEW p \in Pages, NEW m, NEW s
    PROVE  LET f == [flash EXCEPT ![p].mark = m, ![p].seq = s]
           IN  /\ \A q \in Pages : f[q].word = flash[q].word
               /\ \A q \in Pages : f[q].mark = IF q = p THEN m ELSE flash[q].mark
  BY DEF Page

LEMMA MarkWritten ==
    ASSUME flash \in [Pages -> Page], NEW p \in Pages, NEW m
    PROVE  LET f == [flash EXCEPT ![p].mark = m]
           IN  /\ \A q \in Pages : f[q].word = flash[q].word
               /\ \A q \in Pages : f[q].mark = IF q = p THEN m ELSE flash[q].mark
  BY DEF Page

LEMMA PageErased ==
    ASSUME flash \in [Pages -> Page], NEW p \in Pages
    PROVE  LET f == [flash EXCEPT ![p] = BlankPage]
           IN  /\ \A q \in Pages \ {p} : f[q] = flash[q]
               /\ f[p].mark = "blank"
               /\ \A j \in Cells : f[p].word[j] = Blank
  BY DEF BlankPage

\* Every step keeps what is marked as erased blank.
LEMMA ErasedStep == TypeInv /\ LogInv /\ [Next]_vars => ErasedInv'
  <1> SUFFICES ASSUME TypeInv, LogInv, [Next]_vars
               PROVE  ErasedInv'
    OBVIOUS
  <1> USE Sizes DEF TypeInv, LogInv
  <1>PowerOn. CASE PowerOn
    BY <1>PowerOn DEF PowerOn, ErasedInv, TypeOK, Control, ram, work, UnwrittenFrom,
       NoWalk
  <1>ScanPage. CASE ScanPage
    BY <1>ScanPage DEF ScanPage, ErasedInv, TypeOK, Control, ram, work, UnwrittenFrom
  <1>ScanNone. CASE ScanNone
    BY <1>ScanNone DEF ScanNone, ErasedInv, TypeOK, Control, ram, work, UnwrittenFrom
  <1>FindCell. CASE FindCell
    BY <1>FindCell DEF FindCell, ErasedInv, TypeOK, Control, ram, work, UnwrittenFrom
  <1>MapKey. CASE MapKey
    BY <1>MapKey DEF MapKey, ErasedInv, TypeOK, Control, ram, work, UnwrittenFrom
  <1>MapPrev. CASE MapPrev
    BY <1>MapPrev DEF MapPrev, ErasedInv, TypeOK, Control, ram, work, UnwrittenFrom
  <1>RecoverNone. CASE RecoverNone
    BY <1>RecoverNone DEF RecoverNone, ErasedInv, TypeOK, Control, ram, work,
       UnwrittenFrom
  <1>Recover. CASE Recover
    BY <1>Recover DEF Recover, ErasedInv, TypeOK, Control, ram, work, UnwrittenFrom
  <1>RecoverKey. CASE RecoverKey
    BY <1>RecoverKey DEF RecoverKey, ErasedInv, TypeOK, Control, ram, work,
       UnwrittenFrom
  <1>RecoverDone. CASE RecoverDone
    <2>1. walk.page \in Pages
      BY <1>RecoverDone, WalkFields, Ranges DEF RecoverDone, TypeOK, Control, Target
    <2>2. \A q \in Pages : /\ flash'[q].word = flash[q].word
                          /\ flash'[q].mark = "erased" => flash[q].mark = "erased"
      BY <1>RecoverDone, <2>1, HeaderWritten DEF RecoverDone, TypeOK, FormatAs
    <2> QED
      BY <1>RecoverDone, <2>1, <2>2 DEF RecoverDone, ErasedInv, TypeOK, Control, ram,
         work, UnwrittenFrom
  <1>Recount. CASE Recount
    BY <1>Recount DEF Recount, ErasedInv, TypeOK, Control, ram, work, UnwrittenFrom
  <1>Save. CASE \E s \in Saves : Save(s[1], s[2])
    BY <1>Save DEF Save, ErasedInv, TypeOK, Control, ram, work, UnwrittenFrom
  <1>WriteData. CASE WriteData
    <2>1. cur \in Pages /\ free \in Cells /\ flash[cur].mark # "erased"
      BY <1>WriteData DEF WriteData, TypeOK, Control, Room, Cells, CurrentInv,
         Booted, ftl_page_is_valid, Target
    <2>2. \A q \in Pages : flash'[q].mark = flash[q].mark /\ \A j \in Cells : q # cur => flash'[q].word[j] = flash[q].word[j]
      BY <1>WriteData, <2>1, WordWritten DEF WriteData, TypeOK
    <2> QED
      BY <1>WriteData, <2>1, <2>2 DEF WriteData, ErasedInv, TypeOK, Control, ram,
         work, UnwrittenFrom
  <1>WriteKey. CASE WriteKey
    <2>1. cur \in Pages /\ free + 1 \in Cells /\ flash[cur].mark # "erased"
      BY <1>WriteKey DEF WriteKey, TypeOK, Control, Room, Cells, INFO_size,
         CurrentInv, Booted, ftl_page_is_valid, Target
    <2>2. \A q \in Pages : flash'[q].mark = flash[q].mark /\ \A j \in Cells : q # cur => flash'[q].word[j] = flash[q].word[j]
      BY <1>WriteKey, <2>1, WordWritten DEF WriteKey, TypeOK
    <2> QED
      BY <1>WriteKey, <2>1, <2>2 DEF WriteKey, ErasedInv, TypeOK, Control, ram, work,
         UnwrittenFrom, Return, Walk, Loops
  <1>SetEndPosition. CASE SetEndPosition
    <2>1. \A q \in Pages : flash'[q].mark = flash[q].mark /\ flash'[q].word = flash[q].word
      BY <1>SetEndPosition DEF SetEndPosition, TypeOK, Page
    <2> QED
      BY <1>SetEndPosition, <2>1 DEF SetEndPosition, ErasedInv, TypeOK, Control, ram,
         work, UnwrittenFrom
  <1>OpenNextPage. CASE OpenNextPage
    BY <1>OpenNextPage DEF OpenNextPage, ErasedInv, TypeOK, Control, ram, work,
       UnwrittenFrom
  <1>PageErase. CASE PageErase
    <2>1. target.page \in Pages
      BY <1>PageErase DEF PageErase, TypeOK, Target
    <2>2. flash[target.page].mark # "erased" =>
             /\ \A q \in Pages \ {target.page} : flash'[q] = flash[q]
             /\ flash'[target.page].mark = "blank"
             /\ \A j \in Cells : flash'[target.page].word[j] = Blank
      BY <1>PageErase, <2>1, PageErased DEF PageErase, TypeOK
    <2> QED
      BY <1>PageErase, <2>1, <2>2 DEF PageErase, ErasedInv, TypeOK, Control, ram,
         work, UnwrittenFrom, AfterErase
  <1>PageMark. CASE PageMark
    <2>1. target.page \in Pages
      BY <1>PageMark DEF PageMark, TypeOK, Target
    <2>2. /\ \A q \in Pages : flash'[q].word = flash[q].word
          /\ \A q \in Pages \ {target.page} : flash'[q].mark = flash[q].mark
      BY <1>PageMark, <2>1, MarkWritten DEF PageMark, TypeOK
    <2> QED
      BY <1>PageMark, <2>1, <2>2 DEF PageMark, ErasedInv, TypeOK, Control, ram, work,
         UnwrittenFrom, AfterErase
  <1>FormatNext. CASE FormatNext
    <2>1. target.page \in Pages
      BY <1>FormatNext, WalkFields, Ranges DEF FormatNext, TypeOK, Control, Target
    <2>2. \A q \in Pages : /\ flash'[q].word = flash[q].word
                          /\ flash'[q].mark = "erased" => flash[q].mark = "erased"
      BY <1>FormatNext, <2>1, HeaderWritten DEF FormatNext, TypeOK, FormatAs
    <2> QED
      BY <1>FormatNext, <2>1, <2>2 DEF FormatNext, ErasedInv, TypeOK, Control, ram,
         work, UnwrittenFrom, FormatAs, NoTarget
  <1>FormatFirst. CASE FormatFirst
    <2>1. target.page \in Pages
      BY <1>FormatFirst, WalkFields, Ranges DEF FormatFirst, TypeOK, Control, Target
    <2>2. \A q \in Pages : /\ flash'[q].word = flash[q].word
                          /\ flash'[q].mark = "erased" => flash[q].mark = "erased"
      BY <1>FormatFirst, <2>1, HeaderWritten DEF FormatFirst, TypeOK, FormatAs
    <2> QED
      BY <1>FormatFirst, <2>1, <2>2 DEF FormatFirst, ErasedInv, TypeOK, Control, ram,
         work, UnwrittenFrom, FormatAs, NoTarget
  <1>Collect. CASE \E t \in GcCalls : Collect(t)
    BY <1>Collect DEF Collect, ErasedInv, TypeOK, Control, ram, work, UnwrittenFrom
  <1>CollectPage. CASE CollectPage
    BY <1>CollectPage DEF CollectPage, ErasedInv, TypeOK, Control, ram, work,
       UnwrittenFrom
  <1>CollectKey. CASE CollectKey
    BY <1>CollectKey DEF CollectKey, ErasedInv, TypeOK, Control, ram, work,
       UnwrittenFrom
  <1>CollectErase. CASE CollectErase
    BY <1>CollectErase DEF CollectErase, ErasedInv, TypeOK, Control, ram, work,
       UnwrittenFrom
  <1>CollectRetry. CASE CollectRetry
    BY <1>CollectRetry DEF CollectRetry, ErasedInv, TypeOK, Control, ram, work,
       UnwrittenFrom
  <1>CollectDone. CASE CollectDone
    BY <1>CollectDone DEF CollectDone, ErasedInv, TypeOK, Control, ram, work,
       UnwrittenFrom
  <1>ClearAll. CASE ClearAll
    BY <1>ClearAll DEF ClearAll, ErasedInv, TypeOK, Control, ram, work, UnwrittenFrom
  <1>ClearPage. CASE ClearPage
    <2>1. walk.page \in Pages
      BY <1>ClearPage, WalkFields, Ranges DEF ClearPage, TypeOK, Control, Target
    <2>2. \A q \in Pages : /\ flash'[q].word = flash[q].word
                          /\ flash'[q].mark = "erased" => flash[q].mark = "erased"
      BY <1>ClearPage, <2>1, HeaderWritten DEF ClearPage, TypeOK, FormatAs
    <2> QED
      BY <1>ClearPage, <2>1, <2>2 DEF ClearPage, ErasedInv, TypeOK, Control, ram,
         work, UnwrittenFrom
  <1>ClearReset. CASE ClearReset
    BY <1>ClearReset DEF ClearReset, ErasedInv, TypeOK, Control, ram, work,
       UnwrittenFrom
  <1>EraseInvalid. CASE EraseInvalid
    BY <1>EraseInvalid DEF EraseInvalid, ErasedInv, TypeOK, Control, ram, work,
       UnwrittenFrom
  <1>EraseInvalidPage. CASE EraseInvalidPage
    BY <1>EraseInvalidPage DEF EraseInvalidPage, ErasedInv, TypeOK, Control, ram,
       work, UnwrittenFrom
  <1>EraseInvalidDone. CASE EraseInvalidDone
    BY <1>EraseInvalidDone DEF EraseInvalidDone, ErasedInv, TypeOK, Control, ram,
       work, UnwrittenFrom
  <1>PowerLoss. CASE PowerLoss
    BY <1>PowerLoss DEF PowerLoss, ErasedInv, TypeOK, Control, ram, work,
       UnwrittenFrom, Reset
  <1>PowerLossInSector. CASE PowerLossInSector
    <2>1. cur \in Pages
      BY <1>PowerLossInSector DEF PowerLossInSector, TypeOK
    <2>2. /\ \A q \in Pages \ {cur} : flash'[q] = flash[q]
          /\ flash'[cur].mark # "erased"
      BY <1>PowerLossInSector, <2>1, PageErased DEF PowerLossInSector, TypeOK
    <2> QED
      BY <1>PowerLossInSector, <2>1, <2>2 DEF PowerLossInSector, ErasedInv, TypeOK,
         Control, ram, work, UnwrittenFrom, Reset
  <1>Stutter. CASE UNCHANGED vars
    BY <1>Stutter DEF vars, work, ram, ErasedInv, TypeOK, Control, ram, work,
       UnwrittenFrom, Room
  <1> QED
    BY <1>PowerOn, <1>ScanPage, <1>ScanNone, <1>FindCell, <1>MapKey, <1>MapPrev,
       <1>RecoverNone, <1>Recover, <1>RecoverKey, <1>RecoverDone, <1>Recount, <1>Save,
       <1>WriteData, <1>WriteKey, <1>SetEndPosition, <1>OpenNextPage, <1>PageErase,
       <1>PageMark, <1>FormatNext, <1>FormatFirst, <1>Collect, <1>CollectPage, <1>CollectKey,
       <1>CollectErase, <1>CollectRetry, <1>CollectDone, <1>ClearAll, <1>ClearPage,
       <1>ClearReset,
       <1>EraseInvalid, <1>EraseInvalidPage, <1>EraseInvalidDone, <1>PowerLoss,
       <1>PowerLossInSector,
       <1>Stutter DEF Next, Step, Boot, Append, Format, Gc, Clear, Request

\* Every step of the search keeps what it knows of the current page.
LEMMA ScanStep == TypeInv /\ LogInv /\ [Next]_vars => ScanInv'
  <1> SUFFICES ASSUME TypeInv, LogInv, [Next]_vars
               PROVE  ScanInv'
    OBVIOUS
  <1> USE Sizes DEF TypeInv, LogInv
  <1>PowerOn. CASE PowerOn
    BY <1>PowerOn DEF PowerOn, ScanInv, Control, work, ftl_page_is_valid, NoWalk,
       ram, NoWalk, Pages
  <1>ScanPage. CASE ScanPage
    <2>1. \A j \in Pages : j < walk.page + 1 <=> j < walk.page \/ j = walk.page
      BY <1>ScanPage, WalkFields DEF ScanPage, TypeOK, Pages
    <2>2. walk.page \in Pages /\ walk'.page = walk.page + 1
      BY <1>ScanPage, <2>1, WalkFields, Ranges DEF ScanPage, TypeOK, Walk
    <2>3. IsNewer(walk.page) => ftl_page_is_valid(walk.page)
      BY <1>ScanPage, <2>1, <2>2 DEF ScanPage, IsNewer
    <2>4. ftl_page_is_valid(walk.page) /\ ~(\E j \in Pages : j < walk.page /\ ftl_page_is_valid(j)) => IsNewer(walk.page)
      BY <1>ScanPage, <2>1, <2>2, <2>3 DEF ScanPage, IsNewer, Pages
    <2> QED
      BY <1>ScanPage, <2>1, <2>2, <2>3, <2>4 DEF ScanPage, ScanInv, Control, work,
         ftl_page_is_valid, NoWalk
  <1>ScanNone. CASE ScanNone
    BY <1>ScanNone DEF ScanNone, ScanInv, Control, work, ftl_page_is_valid, NoWalk,
       ram, NoWalk
  <1>FindCell. CASE FindCell
    BY <1>FindCell DEF FindCell, ScanInv, Control, work, ftl_page_is_valid, NoWalk,
       NoWalk, Pages
  <1>MapKey. CASE MapKey
    BY <1>MapKey DEF MapKey, ScanInv, Control, work, ftl_page_is_valid, NoWalk
  <1>MapPrev. CASE MapPrev
    <2>1. \/ walk'.loop = "map" /\ pc' = "map"
          \/ walk' = NoWalk /\ pc' = "recover"
      BY <1>MapPrev DEF MapPrev, TypeOK, Control, Walk
    <2> QED
      BY <1>MapPrev, <2>1 DEF MapPrev, ScanInv, Control, work, ftl_page_is_valid, NoWalk
  <1>RecoverNone. CASE RecoverNone
    BY <1>RecoverNone DEF RecoverNone, ScanInv, Control, work, ftl_page_is_valid, NoWalk
  <1>Recover. CASE Recover
    BY <1>Recover DEF Recover, ScanInv, Control, work, ftl_page_is_valid, NoWalk
  <1>RecoverKey. CASE RecoverKey
    BY <1>RecoverKey DEF RecoverKey, ScanInv, Control, work, ftl_page_is_valid, NoWalk
  <1>RecoverDone. CASE RecoverDone
    BY <1>RecoverDone DEF RecoverDone, ScanInv, Control, work, ftl_page_is_valid, NoWalk
  <1>Recount. CASE Recount
    BY <1>Recount DEF Recount, ScanInv, Control, work, ftl_page_is_valid, NoWalk
  <1>Save. CASE \E s \in Saves : Save(s[1], s[2])
    BY <1>Save DEF Save, ScanInv, Control, work, ftl_page_is_valid, NoWalk
  <1>WriteData. CASE WriteData
    BY <1>WriteData DEF WriteData, ScanInv, Control, work, ftl_page_is_valid, NoWalk
  <1>WriteKey. CASE WriteKey
    BY <1>WriteKey DEF WriteKey, ScanInv, Control, work, ftl_page_is_valid, NoWalk,
       Return, ram, TypeOK, Walk, Loops, Pages
  <1>SetEndPosition. CASE SetEndPosition
    BY <1>SetEndPosition DEF SetEndPosition, ScanInv, Control, work,
       ftl_page_is_valid, NoWalk, ram
  <1>OpenNextPage. CASE OpenNextPage
    BY <1>OpenNextPage DEF OpenNextPage, ScanInv, Control, work, ftl_page_is_valid,
       NoWalk
  <1>PageErase. CASE PageErase
    BY <1>PageErase DEF PageErase, ScanInv, Control, work, ftl_page_is_valid, NoWalk,
       ram, AfterErase
  <1>PageMark. CASE PageMark
    BY <1>PageMark DEF PageMark, ScanInv, Control, work, ftl_page_is_valid, NoWalk,
       ram, AfterErase
  <1>FormatNext. CASE FormatNext
    BY <1>FormatNext DEF FormatNext, ScanInv, Control, work, ftl_page_is_valid,
       NoWalk, FormatAs, NoTarget
  <1>FormatFirst. CASE FormatFirst
    <2>1. cur = 0 /\ target.page = 0 /\ cur \in Pages
      BY <1>FormatFirst DEF FormatFirst, ScanInv, TypeOK
    <2>2. flash'[cur].mark = "valid"
      BY <1>FormatFirst, <2>1, HeaderWritten DEF FormatFirst, TypeOK, FormatAs
    <2> QED
      BY <1>FormatFirst, <2>1, <2>2 DEF FormatFirst, ScanInv, Control, work,
         ftl_page_is_valid, NoWalk, FormatAs, NoTarget
  <1>Collect. CASE \E t \in GcCalls : Collect(t)
    BY <1>Collect DEF Collect, ScanInv, Control, work, ftl_page_is_valid, NoWalk
  <1>CollectPage. CASE CollectPage
    BY <1>CollectPage DEF CollectPage, ScanInv, Control, work, ftl_page_is_valid, NoWalk
  <1>CollectKey. CASE CollectKey
    BY <1>CollectKey DEF CollectKey, ScanInv, Control, work, ftl_page_is_valid, NoWalk
  <1>CollectErase. CASE CollectErase
    BY <1>CollectErase DEF CollectErase, ScanInv, Control, work, ftl_page_is_valid,
       NoWalk
  <1>CollectRetry. CASE CollectRetry
    BY <1>CollectRetry DEF CollectRetry, ScanInv, Control, work, ftl_page_is_valid,
       NoWalk, NoTarget, ram
  <1>CollectDone. CASE CollectDone
    BY <1>CollectDone DEF CollectDone, ScanInv, Control, work, ftl_page_is_valid,
       NoWalk, NoTarget, ram
  <1>ClearAll. CASE ClearAll
    BY <1>ClearAll DEF ClearAll, ScanInv, Control, work, ftl_page_is_valid, NoWalk
  <1>ClearPage. CASE ClearPage
    BY <1>ClearPage DEF ClearPage, ScanInv, Control, work, ftl_page_is_valid, NoWalk
  <1>ClearReset. CASE ClearReset
    BY <1>ClearReset DEF ClearReset, ScanInv, Control, work, ftl_page_is_valid, NoWalk
  <1>EraseInvalid. CASE EraseInvalid
    BY <1>EraseInvalid DEF EraseInvalid, ScanInv, Control, work, ftl_page_is_valid,
       NoWalk
  <1>EraseInvalidPage. CASE EraseInvalidPage
    BY <1>EraseInvalidPage DEF EraseInvalidPage, ScanInv, Control, work,
       ftl_page_is_valid, NoWalk
  <1>EraseInvalidDone. CASE EraseInvalidDone
    BY <1>EraseInvalidDone DEF EraseInvalidDone, ScanInv, Control, work,
       ftl_page_is_valid, NoWalk, NoTarget, ram
  <1>PowerLoss. CASE PowerLoss
    BY <1>PowerLoss DEF PowerLoss, ScanInv, Control, work, ftl_page_is_valid, NoWalk,
       Reset, NoTarget
  <1>PowerLossInSector. CASE PowerLossInSector
    BY <1>PowerLossInSector DEF PowerLossInSector, ScanInv, Control, work,
       ftl_page_is_valid, NoWalk, Reset, NoTarget
  <1>Stutter. CASE UNCHANGED vars
    BY <1>Stutter DEF vars, work, ram, ScanInv, Control, work, ftl_page_is_valid,
       NoWalk, Room
  <1> QED
    BY <1>PowerOn, <1>ScanPage, <1>ScanNone, <1>FindCell, <1>MapKey, <1>MapPrev,
       <1>RecoverNone, <1>Recover, <1>RecoverKey, <1>RecoverDone, <1>Recount, <1>Save,
       <1>WriteData, <1>WriteKey, <1>SetEndPosition, <1>OpenNextPage, <1>PageErase,
       <1>PageMark, <1>FormatNext, <1>FormatFirst, <1>Collect, <1>CollectPage, <1>CollectKey,
       <1>CollectErase, <1>CollectRetry, <1>CollectDone, <1>ClearAll, <1>ClearPage,
       <1>ClearReset,
       <1>EraseInvalid, <1>EraseInvalidPage, <1>EraseInvalidDone, <1>PowerLoss,
       <1>PowerLossInSector,
       <1>Stutter DEF Next, Step, Boot, Append, Format, Gc, Clear, Request

\* Every step keeps the current page valid and blank above the free cell.
LEMMA CurrentStep == TypeInv /\ LogInv /\ OldestIsNotCurrent' /\ [Next]_vars => CurrentInv'
  <1> SUFFICES ASSUME TypeInv, LogInv, OldestIsNotCurrent', [Next]_vars
               PROVE  CurrentInv'
    OBVIOUS
  <1> USE Sizes DEF TypeInv, LogInv
  <1>PowerOn. CASE PowerOn
    BY <1>PowerOn DEF PowerOn, CurrentInv, Booted, Control, work, ftl_page_is_valid,
       UnwrittenFrom, NoWalk, NoTarget, ram
  <1>ScanPage. CASE ScanPage
    BY <1>ScanPage DEF ScanPage, CurrentInv, Booted, Control, work,
       ftl_page_is_valid, UnwrittenFrom, NoWalk, NoTarget, ram
  <1>ScanNone. CASE ScanNone
    BY <1>ScanNone DEF ScanNone, CurrentInv, Booted, Control, work,
       ftl_page_is_valid, UnwrittenFrom, NoWalk, NoTarget, ram
  <1>FindCell. CASE FindCell
    <2>1. target.next = "none"
      BY <1>FindCell DEF FindCell, TypeOK, Target, Control
    <2>2. ftl_page_is_valid(cur) /\ cur \in Pages
      BY <1>FindCell, <2>1 DEF FindCell, TypeOK, ScanInv, Pages
    <2>3. UnwrittenFrom(cur, free')
      BY <1>FindCell, <2>1, <2>2 DEF FindCell, IsFreeCell, UnwrittenFrom, Cells,
         INFO_size
    <2> QED
      BY <1>FindCell, <2>1, <2>2, <2>3 DEF FindCell, CurrentInv, Booted, Control,
         work, ftl_page_is_valid, UnwrittenFrom, NoWalk, NoTarget, ram
  <1>MapKey. CASE MapKey
    <2>1. walk'.loop = walk.loop
      BY <1>MapKey DEF MapKey, TypeOK, Walk
    <2> QED
      BY <1>MapKey, <2>1 DEF MapKey, CurrentInv, Booted, Control, work,
         ftl_page_is_valid, UnwrittenFrom, NoWalk, NoTarget, ram
  <1>MapPrev. CASE MapPrev
    <2>1. \/ walk'.loop = "map" /\ pc' = "map"
          \/ walk' = NoWalk /\ pc' = "recover"
      BY <1>MapPrev DEF MapPrev, TypeOK, Control, Walk
    <2> QED
      BY <1>MapPrev, <2>1 DEF MapPrev, CurrentInv, Booted, Control, work,
         ftl_page_is_valid, UnwrittenFrom, NoWalk, NoTarget, ram
  <1>RecoverNone. CASE RecoverNone
    BY <1>RecoverNone DEF RecoverNone, CurrentInv, Booted, Control, work,
       ftl_page_is_valid, UnwrittenFrom, NoWalk, NoTarget, ram
  <1>Recover. CASE Recover
    <2>1. target.next = "none"
      BY <1>Recover DEF Recover, TypeOK, Target, Control
    <2>2. Booted /\ cur \in Pages
      BY <1>Recover, <2>1 DEF Recover, TypeOK, Target, Control, Booted
    <2>3. ftl_page_get_oldest # cur
      BY <1>Recover, <2>1, <2>2, Oldest DEF Recover, CurrentInv
    <2> QED
      BY <1>Recover, <2>1, <2>2, <2>3 DEF Recover, CurrentInv, Booted, Control, work,
         ftl_page_is_valid, UnwrittenFrom, NoWalk, NoTarget, ram
  <1>RecoverKey. CASE RecoverKey
    <2>1. target.next = "none"
      BY <1>RecoverKey DEF RecoverKey, TypeOK, Target, Control
    <2>2. walk'.loop = walk.loop /\ walk'.page = walk.page
      BY <1>RecoverKey, <2>1 DEF RecoverKey, TypeOK, Walk
    <2> QED
      BY <1>RecoverKey, <2>1, <2>2 DEF RecoverKey, CurrentInv, Booted, Control, work,
         ftl_page_is_valid, UnwrittenFrom, NoWalk, NoTarget, ram, Room
  <1>RecoverDone. CASE RecoverDone
    <2>1. target.next = "none"
      BY <1>RecoverDone DEF RecoverDone, TypeOK, Target, Control
    <2>2. walk.page \in Pages /\ cur \in Pages /\ walk.page # cur
      BY <1>RecoverDone, <2>1 DEF RecoverDone, TypeOK, Control, CurrentInv, Booted
    <2>3. flash'[cur].word = flash[cur].word /\ flash'[cur].mark = flash[cur].mark
      BY <1>RecoverDone, <2>1, <2>2, HeaderWritten DEF RecoverDone, TypeOK
    <2>4. ftl_page_is_valid(cur) /\ UnwrittenFrom(cur, free)
      BY <1>RecoverDone, <2>1, <2>2, <2>3 DEF RecoverDone, CurrentInv, Booted
    <2>5. pc' \notin {"key", "write"} /\ walk' = NoWalk
      BY <1>RecoverDone, <2>1, <2>2, <2>3, <2>4 DEF RecoverDone
    <2> QED
      BY <1>RecoverDone, <2>1, <2>2, <2>3, <2>4, <2>5 DEF RecoverDone, CurrentInv,
         Booted, Control, work, ftl_page_is_valid, UnwrittenFrom, NoWalk, NoTarget,
         ram
  <1>Recount. CASE Recount
    BY <1>Recount DEF Recount, CurrentInv, Booted, Control, work, ftl_page_is_valid,
       UnwrittenFrom, NoWalk, NoTarget, ram
  <1>Save. CASE \E s \in Saves : Save(s[1], s[2])
    BY <1>Save DEF Save, CurrentInv, Booted, Control, work, ftl_page_is_valid,
       UnwrittenFrom, NoWalk, NoTarget, ram
  <1>WriteData. CASE WriteData
    <2>1. target.next = "none"
      BY <1>WriteData DEF WriteData, TypeOK, Target, Control
    <2>2. Booted /\ cur \in Pages
      BY <1>WriteData, <2>1 DEF WriteData, TypeOK, Target, Control, Booted
    <2>3. free \in Cells
      BY <1>WriteData, <2>1, <2>2 DEF WriteData, TypeOK, Control, Room, Cells
    <2>4. /\ \A q \in Pages : flash'[q].mark = flash[q].mark
          /\ \A j \in Cells : j # free => flash'[cur].word[j] = flash[cur].word[j]
      BY <1>WriteData, <2>1, <2>2, <2>3, WordWritten DEF WriteData, TypeOK
    <2>5. \A j \in Cells : j >= free + 1 => flash'[cur].word[j] = Blank
      BY <1>WriteData, <2>1, <2>2, <2>3, <2>4 DEF WriteData, CurrentInv,
         UnwrittenFrom, Cells, TypeOK, INFO_size
    <2> QED
      BY <1>WriteData, <2>1, <2>2, <2>3, <2>4, <2>5 DEF WriteData, CurrentInv,
         Booted, Control, work, ftl_page_is_valid, UnwrittenFrom, NoWalk, NoTarget,
         ram, Room, TypeOK
  <1>WriteKey. CASE WriteKey
    <2>1. target.next = "none"
      BY <1>WriteKey DEF WriteKey, TypeOK, Target, Control
    <2>2. Booted /\ cur \in Pages
      BY <1>WriteKey, <2>1 DEF WriteKey, TypeOK, Target, Control, Booted
    <2>3. free \in Int /\ free + 1 \in Cells
      BY <1>WriteKey, <2>1, <2>2 DEF WriteKey, TypeOK, Control, Room, Cells, INFO_size
    <2>4. /\ \A q \in Pages : flash'[q].mark = flash[q].mark
          /\ \A j \in Cells : j # free + 1 => flash'[cur].word[j] = flash[cur].word[j]
      BY <1>WriteKey, <2>1, <2>2, <2>3, WordWritten DEF WriteKey, TypeOK
    <2>5. \A j \in Cells : j >= free + 2 => flash'[cur].word[j] = Blank
      BY <1>WriteKey, <2>1, <2>2, <2>3, <2>4 DEF WriteKey, CurrentInv, UnwrittenFrom,
         Cells, INFO_size
    <2>6. pc' # "key" /\ pc' # "write"
      BY <1>WriteKey, <2>1, <2>2, <2>3, <2>4, <2>5 DEF WriteKey, Return, TypeOK,
         Walk, Loops
    <2> QED
      BY <1>WriteKey, <2>1, <2>2, <2>3, <2>4, <2>5, <2>6 DEF WriteKey, CurrentInv,
         Booted, Control, work, ftl_page_is_valid, UnwrittenFrom, NoWalk, NoTarget,
         ram, TypeOK
  <1>SetEndPosition. CASE SetEndPosition
    <2>1. Booted /\ cur \in Pages
      BY <1>SetEndPosition DEF SetEndPosition, TypeOK, Target, Control, Booted
    <2>2. \A q \in Pages : flash'[q].mark = flash[q].mark /\ flash'[q].word = flash[q].word
      BY <1>SetEndPosition, <2>1 DEF SetEndPosition, TypeOK, Page
    <2> QED
      BY <1>SetEndPosition, <2>1, <2>2 DEF SetEndPosition, CurrentInv, Booted,
         Control, work, ftl_page_is_valid, UnwrittenFrom, NoWalk, NoTarget, ram,
         Room, TypeOK
  <1>OpenNextPage. CASE OpenNextPage
    <2>1. Booted /\ cur \in Pages
      BY <1>OpenNextPage DEF OpenNextPage, TypeOK, Target, Control, Booted
    <2>2. NextPage(cur) # cur
      BY <1>OpenNextPage, <2>1, NextIsOther DEF OpenNextPage
    <2> QED
      BY <1>OpenNextPage, <2>1, <2>2 DEF OpenNextPage, CurrentInv, Booted, Control,
         work, ftl_page_is_valid, UnwrittenFrom, NoWalk, NoTarget, ram, Room
  <1>PageErase. CASE PageErase
    <2>1. target.page \in Pages /\ cur \in Pages
      BY <1>PageErase DEF PageErase, TypeOK, Target
    <2>2. \A q \in Pages \ {target.page} : flash'[q] = flash[q]
      BY <1>PageErase, <2>1, PageErased DEF PageErase, TypeOK
    <2>3. Booted => flash'[cur] = flash[cur]
      BY <1>PageErase, <2>1, <2>2 DEF PageErase, CurrentInv, ErasedInv
    <2>4. Booted /\ walk.loop = "gc" /\ target.next # "gc" =>
             flash'[walk.page] = flash[walk.page]
      BY <1>PageErase, <2>1, <2>2, <2>3 DEF PageErase, CurrentInv, Booted, ErasedInv,
         Control, TypeOK, Target
    <2>5. pc' \notin {"key", "write"} /\ pc # "key" /\ (Booted' => Booted)
      BY <1>PageErase, <2>1, <2>2, <2>3, <2>4 DEF PageErase, AfterErase, Booted, work
    <2> QED
      BY <1>PageErase, <2>1, <2>2, <2>3, <2>4, <2>5 DEF PageErase, CurrentInv,
         Booted, Control, work, ftl_page_is_valid, UnwrittenFrom, NoWalk, NoTarget,
         ram
  <1>PageMark. CASE PageMark
    <2>1. target.page \in Pages /\ cur \in Pages
      BY <1>PageMark DEF PageMark, TypeOK, Target
    <2>2. \A q \in Pages \ {target.page} : flash'[q].word = flash[q].word /\ flash'[q].mark = flash[q].mark
      BY <1>PageMark, <2>1, MarkWritten DEF PageMark, TypeOK
    <2>3. Booted => flash'[cur].word = flash[cur].word /\ flash'[cur].mark = flash[cur].mark
      BY <1>PageMark, <2>1, <2>2 DEF PageMark, CurrentInv, ErasedInv
    <2>4. Booted /\ walk.loop = "gc" /\ target.next # "gc" =>
             flash'[walk.page].word = flash[walk.page].word /\ flash'[walk.page].mark = flash[walk.page].mark
      BY <1>PageMark, <2>1, <2>2, <2>3 DEF PageMark, CurrentInv, Booted, ErasedInv,
         Control, TypeOK, Target
    <2>5. pc' \notin {"key", "write"} /\ pc # "key" /\ (Booted' => Booted)
      BY <1>PageMark, <2>1, <2>2, <2>3, <2>4 DEF PageMark, AfterErase, Booted, work
    <2> QED
      BY <1>PageMark, <2>1, <2>2, <2>3, <2>4, <2>5 DEF PageMark, CurrentInv, Booted,
         Control, work, ftl_page_is_valid, UnwrittenFrom, NoWalk, NoTarget, ram
  <1>FormatNext. CASE FormatNext
    <2>1. Booted /\ cur \in Pages
      BY <1>FormatNext DEF FormatNext, TypeOK, Target, Control, Booted
    <2>2. target.page \in Pages
      BY <1>FormatNext, <2>1 DEF FormatNext, TypeOK, Target
    <2>3. /\ \A q \in Pages : flash'[q].word = flash[q].word
          /\ \A q \in Pages : flash'[q].mark = IF q = target.page THEN "valid" ELSE flash[q].mark
      BY <1>FormatNext, <2>1, <2>2, HeaderWritten DEF FormatNext, TypeOK, FormatAs
    <2>4. UnwrittenFrom(target.page, INFO_size)
      BY <1>FormatNext, <2>1, <2>2, <2>3 DEF FormatNext, ErasedInv
    <2>5. pc' # "key" /\ target' = NoTarget
      BY <1>FormatNext, <2>1, <2>2, <2>3, <2>4 DEF FormatNext, FormatAs
    <2> QED
      BY <1>FormatNext, <2>1, <2>2, <2>3, <2>4, <2>5 DEF FormatNext, CurrentInv,
         Booted, Control, work, ftl_page_is_valid, UnwrittenFrom, NoWalk, NoTarget,
         ram, ErasedInv, TypeOK
  <1>FormatFirst. CASE FormatFirst
    <2>1. target.page \in Pages /\ cur \in Pages
      BY <1>FormatFirst DEF FormatFirst, TypeOK, Target
    <2>2. /\ \A q \in Pages : flash'[q].word = flash[q].word
          /\ flash'[target.page].mark = "valid"
      BY <1>FormatFirst, <2>1, HeaderWritten DEF FormatFirst, TypeOK, FormatAs
    <2>3. UnwrittenFrom(target.page, INFO_size) /\ cur = target.page
      BY <1>FormatFirst, <2>1, <2>2 DEF FormatFirst, ErasedInv, ScanInv
    <2>4. pc' = "idle" => free = INFO_size /\ walk.loop = "none"
      BY <1>FormatFirst, <2>1, <2>2, <2>3 DEF FormatFirst, ScanInv, Control
    <2>5. target' = NoTarget
      BY <1>FormatFirst, <2>1, <2>2, <2>3, <2>4 DEF FormatFirst, FormatAs
    <2> QED
      BY <1>FormatFirst, <2>1, <2>2, <2>3, <2>4, <2>5 DEF FormatFirst, CurrentInv,
         Booted, Control, work, ftl_page_is_valid, UnwrittenFrom, NoWalk, NoTarget,
         ram
  <1>Collect. CASE \E t \in GcCalls : Collect(t)
    BY <1>Collect DEF Collect, CurrentInv, Booted, Control, work, ftl_page_is_valid,
       UnwrittenFrom, NoWalk, NoTarget, ram
  <1>CollectPage. CASE CollectPage
    <2>1. target.next = "none"
      BY <1>CollectPage DEF CollectPage, TypeOK, Target, Control
    <2>2. Booted /\ cur \in Pages
      BY <1>CollectPage, <2>1 DEF CollectPage, TypeOK, Target, Control, Booted
    <2>3. ftl_page_is_valid(ftl_page_get_oldest)
      BY <1>CollectPage, <2>1, <2>2, Oldest DEF CollectPage, CurrentInv
    <2>4. ftl_page_get_oldest # cur
      <3>1. walk'.loop = "gc" /\ walk'.page = ftl_page_get_oldest /\ cur' = cur
        BY <1>CollectPage DEF CollectPage, ram
      <3> QED
        BY <3>1 DEF OldestIsNotCurrent
    <2> QED
      BY <1>CollectPage, <2>1, <2>2, <2>3, <2>4 DEF CollectPage, CurrentInv, Booted,
         Control, work, ftl_page_is_valid, UnwrittenFrom, NoWalk, NoTarget, ram
  <1>CollectKey. CASE CollectKey
    <2>1. walk'.loop = walk.loop /\ walk'.page = walk.page
      BY <1>CollectKey DEF CollectKey, TypeOK, Walk
    <2> QED
      BY <1>CollectKey, <2>1 DEF CollectKey, CurrentInv, Booted, Control, work,
         ftl_page_is_valid, UnwrittenFrom, NoWalk, NoTarget, ram
  <1>CollectErase. CASE CollectErase
    BY <1>CollectErase DEF CollectErase, CurrentInv, Booted, Control, work,
       ftl_page_is_valid, UnwrittenFrom, NoWalk, NoTarget, ram
  <1>CollectRetry. CASE CollectRetry
    <2>1. Booted /\ cur \in Pages
      BY <1>CollectRetry DEF CollectRetry, TypeOK, Target, Control, Booted
    <2>2. ftl_page_is_valid(ftl_page_get_oldest)
      BY <1>CollectRetry, <2>1, Oldest DEF CollectRetry, CurrentInv
    <2>3. /\ walk'.page = ftl_page_get_oldest
          /\ walk'.loop = walk.loop /\ walk.loop = "gc" /\ cur' = cur
      BY <1>CollectRetry DEF CollectRetry, Control, TypeOK, Walk, ram
    <2>4. ftl_page_get_oldest # cur
      BY <2>3 DEF OldestIsNotCurrent
    <2> QED
      BY <1>CollectRetry, <2>1, <2>2, <2>3, <2>4 DEF CollectRetry, CurrentInv,
         Booted, Control, work, ftl_page_is_valid, UnwrittenFrom, NoWalk, NoTarget,
         ram
  <1>CollectDone. CASE CollectDone
    BY <1>CollectDone DEF CollectDone, CurrentInv, Booted, Control, work,
       ftl_page_is_valid, UnwrittenFrom, NoWalk, NoTarget, ram
  <1>ClearAll. CASE ClearAll
    BY <1>ClearAll DEF ClearAll, CurrentInv, Booted, Control, work,
       ftl_page_is_valid, UnwrittenFrom, NoWalk, NoTarget, ram
  <1>ClearPage. CASE ClearPage
    BY <1>ClearPage DEF ClearPage, CurrentInv, Booted, Control, work,
       ftl_page_is_valid, UnwrittenFrom, NoWalk, NoTarget, ram
  <1>ClearReset. CASE ClearReset
    BY <1>ClearReset DEF ClearReset, CurrentInv, Booted, Control, work,
       ftl_page_is_valid, UnwrittenFrom, NoWalk, NoTarget, ram
  <1>EraseInvalid. CASE EraseInvalid
    BY <1>EraseInvalid DEF EraseInvalid, CurrentInv, Booted, Control, work,
       ftl_page_is_valid, UnwrittenFrom, NoWalk, NoTarget, ram
  <1>EraseInvalidPage. CASE EraseInvalidPage
    <2>1. Booted /\ cur \in Pages
      BY <1>EraseInvalidPage DEF EraseInvalidPage, TypeOK, Target, Control, Booted
    <2>2. walk'.loop = walk.loop
      BY <1>EraseInvalidPage, <2>1 DEF EraseInvalidPage, TypeOK, Walk
    <2> QED
      BY <1>EraseInvalidPage, <2>1, <2>2 DEF EraseInvalidPage, CurrentInv, Booted,
         Control, work, ftl_page_is_valid, UnwrittenFrom, NoWalk, NoTarget, ram
  <1>EraseInvalidDone. CASE EraseInvalidDone
    BY <1>EraseInvalidDone DEF EraseInvalidDone, CurrentInv, Booted, Control, work,
       ftl_page_is_valid, UnwrittenFrom, NoWalk, NoTarget, ram
  <1>PowerLoss. CASE PowerLoss
    BY <1>PowerLoss DEF PowerLoss, CurrentInv, Booted, Control, work,
       ftl_page_is_valid, UnwrittenFrom, NoWalk, NoTarget, ram, Reset
  <1>PowerLossInSector. CASE PowerLossInSector
    BY <1>PowerLossInSector DEF PowerLossInSector, CurrentInv, Booted, Control, work,
       ftl_page_is_valid, UnwrittenFrom, NoWalk, NoTarget, ram, Reset
  <1>Stutter. CASE UNCHANGED vars
    BY <1>Stutter DEF vars, work, ram, CurrentInv, Booted, Control, work,
       ftl_page_is_valid, UnwrittenFrom, NoWalk, NoTarget, ram, Room
  <1> QED
    BY <1>PowerOn, <1>ScanPage, <1>ScanNone, <1>FindCell, <1>MapKey, <1>MapPrev,
       <1>RecoverNone, <1>Recover, <1>RecoverKey, <1>RecoverDone, <1>Recount, <1>Save,
       <1>WriteData, <1>WriteKey, <1>SetEndPosition, <1>OpenNextPage, <1>PageErase,
       <1>PageMark, <1>FormatNext, <1>FormatFirst, <1>Collect, <1>CollectPage, <1>CollectKey,
       <1>CollectErase, <1>CollectRetry, <1>CollectDone, <1>ClearAll, <1>ClearPage,
       <1>ClearReset,
       <1>EraseInvalid, <1>EraseInvalidPage, <1>EraseInvalidDone, <1>PowerLoss,
       <1>PowerLossInSector,
       <1>Stutter DEF Next, Step, Boot, Append, Format, Gc, Clear, Request

\* Initially every page is blank.
LEMMA LogInit == Init => LogInv
  BY DEF Init, LogInv, ErasedInv, ScanInv, CurrentInv, Booted, UnwrittenFrom,
         BlankPage, NoWalk, NoTarget

\* The invariant says what the assertions of ftl_write ask for.
LEMMA LogAppends == TypeInv /\ LogInv => AppendsToBlank
  <1> SUFFICES ASSUME TypeInv, LogInv PROVE AppendsToBlank
    OBVIOUS
  <1>1. pc \in {"write", "key"} => Booted
    BY DEF TypeInv, TypeOK, Control, Target, Booted
  <1>2. Room => free \in Cells /\ free + 1 \in Cells
    BY Sizes DEF TypeInv, TypeOK, Room, Cells, INFO_size
  <1>3. pc = "key" => Room
    BY DEF TypeInv, Control
  <1>4. free \in Int
    BY DEF TypeInv, TypeOK, INFO_size
  <1> QED
    BY <1>1, <1>2, <1>3, <1>4 DEF LogInv, CurrentInv, UnwrittenFrom, AppendsToBlank

\* As long as the page that is collected is not the current one, which
\* ftl_page_get_oldest asserts, ftl_write only writes words that are blank: on
\* every ring, whatever is saved, collected, cleared and erased, and wherever
\* the power fails, torn writes and lost sectors included.
THEOREM AppendsOnlyToBlank == Spec /\ []OldestIsNotCurrent => []AppendsToBlank
  <1>1. TypeInv /\ LogInv /\ OldestIsNotCurrent' /\ [Next]_vars => LogInv'
    BY ErasedStep, ScanStep, CurrentStep DEF LogInv
  <1> QED
    BY TypeInvariant, LogInit, <1>1, LogAppends, PTL DEF Spec
=============================================================================
