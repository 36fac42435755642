--------------------------- MODULE FtlRingProofs ---------------------------
(* The ring of Ftl as a whole: how many pages are free, that there is always*)
(* room, that the page that is collected or recycled is never the one that  *)
(* is written, and that no live pair is erased.  On it rest what ftl_read   *)
(* returns, that each flash operation keeps what a restart would find but   *)
(* for the key word of a save, and that the ring implements FtlStore.       *)
EXTENDS FtlProofs

-----------------------------------------------------------------------------
(* Positions in the ring, and the free pages as a function of the flash.    *)

\* The page i positions after c.
At(c, i) == (c + i) % NPages

Valid(f, p) == f[p].mark = "valid"

FreeAfter(f, c) == Cardinality({n \in 1 .. NPages : \A i \in 1 .. n : ~Valid(f, At(c, i))})

\* Positions without the remainder.
LEMMA AtValue ==
    ASSUME NEW c \in Pages, NEW i \in 0 .. NPages
    PROVE  At(c, i) = IF c + i < NPages THEN c + i ELSE c + i - NPages
  <1>1. c \in Nat /\ c < NPages
    BY Sizes DEF Pages
  <1>2. CASE c + i < NPages
    <2>1. (c + i) % NPages = c + i
      <3>1. c + i \in Nat
        BY <1>1
      <3> QED
        BY <3>1, <1>2, Sizes
    <2> QED
      BY <2>1, <1>2 DEF At
  <1>3. CASE ~(c + i < NPages)
    <2> DEFINE a == c + i - NPages
    <2>1. a \in Nat /\ a < NPages /\ a + NPages = c + i
      BY <1>1, <1>3, Sizes
    <2>2. (a + NPages) % NPages = a
      <3> HIDE DEF a
      <3> QED
        BY <2>1, ModShift, Sizes
    <2> QED
      BY <2>1, <2>2, <1>3 DEF At
  <1> QED
    BY <1>2, <1>3

\* Positions are pages; each page has one; the last is the page itself, and
\* those after the next page are the next positions.
LEMMA AtRing ==
    ASSUME NEW c \in Pages
    PROVE  /\ \A i \in 0 .. NPages : At(c, i) \in Pages
           /\ \A i, j \in 1 .. NPages : At(c, i) = At(c, j) => i = j
           /\ \A p \in Pages : \E i \in 1 .. NPages : At(c, i) = p
           /\ At(c, NPages) = c
           /\ \A i \in 0 .. NPages - 1 : At(At(c, 1), i) = At(c, i + 1)
           /\ NextPage(c) = At(c, 1)
           /\ At(c, 1) # c
  <1>1. c \in Nat /\ c < NPages /\ NPages \in Nat /\ NPages >= 3
    BY Sizes DEF Pages
  <1>2. \A i \in 0 .. NPages : At(c, i) = IF c + i < NPages THEN c + i ELSE c + i - NPages
    BY AtValue
  <1>3. \A i \in 0 .. NPages : At(c, i) \in Pages
    BY <1>1, <1>2 DEF Pages
  <1>4. \A p \in Pages : \E i \in 1 .. NPages : At(c, i) = p
    <2> SUFFICES ASSUME NEW p \in Pages PROVE \E i \in 1 .. NPages : At(c, i) = p
      OBVIOUS
    <2>1. p \in Nat /\ p < NPages
      BY <1>1 DEF Pages
    <2> DEFINE i == IF p > c THEN p - c ELSE p - c + NPages
    <2>2. i \in 1 .. NPages /\ At(c, i) = p
      BY <1>1, <1>2, <2>1
    <2> QED
      BY <2>2
  <1>5. At(c, 1) \in Pages
    BY <1>3, <1>1
  <1>6. \A i \in 0 .. NPages : At(At(c, 1), i) =
          IF At(c, 1) + i < NPages THEN At(c, 1) + i ELSE At(c, 1) + i - NPages
    BY <1>5, AtValue
  <1>7. At(c, 1) = IF c + 1 < NPages THEN c + 1 ELSE c + 1 - NPages
    BY <1>1, <1>2
  <1>8. \A i \in 0 .. NPages - 1 : At(At(c, 1), i) = At(c, i + 1)
    <2> SUFFICES ASSUME NEW i \in 0 .. NPages - 1 PROVE At(At(c, 1), i) = At(c, i + 1)
      OBVIOUS
    <2>1. At(c, i + 1) = IF c + (i + 1) < NPages THEN c + (i + 1) ELSE c + (i + 1) - NPages
      BY <1>1, <1>2
    <2>2. At(At(c, 1), i) = IF At(c, 1) + i < NPages THEN At(c, 1) + i ELSE At(c, 1) + i - NPages
      BY <1>1, <1>6
    <2> QED
      BY <1>1, <1>7, <2>1, <2>2
  <1>9. \A i, j \in 1 .. NPages : At(c, i) = At(c, j) => i = j
    <2> SUFFICES ASSUME NEW i \in 1 .. NPages, NEW j \in 1 .. NPages, At(c, i) = At(c, j)
                 PROVE  i = j
      OBVIOUS
    <2>1. PICK x \in Int : x = At(c, i)
      BY <1>1, <1>3 DEF Pages
    <2>2. x = IF c + i < NPages THEN c + i ELSE c + i - NPages
      BY <1>1, <1>2, <2>1
    <2>3. x = IF c + j < NPages THEN c + j ELSE c + j - NPages
      BY <1>1, <1>2, <2>1
    <2> QED
      BY <2>2, <2>3, <1>1
  <1>10. At(c, NPages) = c
    BY <1>1, <1>2
  <1>11. NextPage(c) = At(c, 1)
    BY DEF NextPage, At
  <1>12. At(c, 1) # c
    BY <1>1, <1>7
  <1> QED
    BY <1>3, <1>4, <1>8, <1>9, <1>10, <1>11, <1>12

\* The free pages are a run without gaps, and what ends it is a valid page.
LEMMA FreeHas ==
    ASSUME NEW f, NEW c
    PROVE  /\ FreeAfter(f, c) \in 0 .. NPages
           /\ \A i \in 1 .. FreeAfter(f, c) : ~Valid(f, At(c, i))
           /\ FreeAfter(f, c) < NPages => Valid(f, At(c, FreeAfter(f, c) + 1))
  <1> DEFINE n == FreeAfter(f, c)
             S == {k \in 1 .. NPages : \A i \in 1 .. k : ~Valid(f, At(c, i))}
  <1>1. n = Cardinality(S)
    BY DEF FreeAfter
  <1>2. S \in SUBSET (1 .. NPages) /\ \A k \in S : \A i \in 1 .. k : i \in S
    BY Sizes
  <1>3. S = 1 .. n
    BY <1>1, <1>2, PrefixCard, Sizes
  <1>4. n \in 0 .. NPages
    <2>1. IsFiniteSet(1 .. NPages) /\ Cardinality(1 .. NPages) = NPages
      BY FS_Interval, Sizes
    <2> HIDE DEF S
    <2>2. IsFiniteSet(S) /\ Cardinality(S) \in Nat /\ Cardinality(S) <= NPages
      BY <1>2, <2>1, FS_Subset, FS_CardinalityType
    <2> QED
      BY <1>1, <2>2, Sizes
  <1> HIDE DEF n
  <1>5. \A i \in 1 .. n : ~Valid(f, At(c, i))
    BY <1>3, <1>4
  <1>6. ASSUME n < NPages PROVE Valid(f, At(c, n + 1))
    <2>1. n + 1 \in 1 .. NPages /\ n + 1 \notin S
      <3> HIDE DEF S
      <3> QED
        BY <1>3, <1>4, <1>6, Sizes
    <2>2. ~(\A i \in 1 .. n + 1 : ~Valid(f, At(c, i)))
      BY <2>1
    <2>3. \A i \in 1 .. n + 1 : i \in 1 .. n \/ i = n + 1
      BY <1>4
    <2> QED
      BY <2>2, <2>3, <1>5
  <1> QED
    BY <1>4, <1>5, <1>6 DEF n

\* So that a run of free pages that a valid page ends is their number.
LEMMA FreeIs ==
    ASSUME NEW f, NEW c, NEW m \in 0 .. NPages,
           \A i \in 1 .. m : ~Valid(f, At(c, i)),
           m < NPages => Valid(f, At(c, m + 1))
    PROVE  FreeAfter(f, c) = m
  <1> DEFINE n == FreeAfter(f, c)
  <1>1. /\ n \in 0 .. NPages
        /\ \A i \in 1 .. n : ~Valid(f, At(c, i))
        /\ n < NPages => Valid(f, At(c, n + 1))
    BY FreeHas
  <1> HIDE DEF n
  <1>2. ~(n < m)
    <2>1. n < m => n + 1 \in 1 .. m /\ n < NPages
      BY <1>1, Sizes
    <2> QED
      BY <2>1, <1>1
  <1>3. ~(m < n)
    <2>1. m < n => m + 1 \in 1 .. n /\ m < NPages
      BY <1>1, Sizes
    <2> QED
      BY <2>1, <1>1
  <1> QED
    BY <1>1, <1>2, <1>3 DEF n

\* Only which pages are valid counts.
LEMMA FreeSame ==
    ASSUME NEW f, NEW g, NEW c \in Pages, \A p \in Pages : Valid(f, p) <=> Valid(g, p)
    PROVE  FreeAfter(f, c) = FreeAfter(g, c)
  <1>1. \A i \in 1 .. NPages : At(c, i) \in Pages
    BY AtRing
  <1>2. \A n \in 1 .. NPages : \A i \in 1 .. n : i \in 1 .. NPages
    BY Sizes
  <1>3. \A n \in 1 .. NPages : \A i \in 1 .. n : Valid(f, At(c, i)) <=> Valid(g, At(c, i))
    BY <1>1, <1>2
  <1>4. {n \in 1 .. NPages : \A i \in 1 .. n : ~Valid(f, At(c, i))}
          = {n \in 1 .. NPages : \A i \in 1 .. n : ~Valid(g, At(c, i))}
    BY <1>3
  <1> QED
    BY <1>4 DEF FreeAfter

\* The code's counts in these terms, before and after a step.
LEMMA FreePages ==
    /\ ftl_get_free_page_count = FreeAfter(flash, cur)
    /\ ftl_get_free_page_count' = FreeAfter(flash', cur')
    /\ \A p : ftl_page_is_valid(p) <=> Valid(flash, p)
    /\ \A p : ftl_page_is_valid(p)' <=> Valid(flash', p)
  BY DEF ftl_get_free_page_count, FreeAfter, ftl_page_is_valid, Valid, At

\* The oldest page in these terms.
LEMMA OldestAt ==
    /\ cur \in Pages => ftl_page_get_oldest = At(cur, FreeAfter(flash, cur) + 1)
    /\ cur' \in Pages => ftl_page_get_oldest' = At(cur', FreeAfter(flash', cur') + 1)
  <1>1. \A c \in Pages, k \in 0 .. NPages : c + 1 + k = c + (k + 1)
    BY Sizes DEF Pages
  <1> QED
    BY <1>1, FreeHas, FreePages DEF ftl_page_get_oldest, At


\* Opening the page after c takes one free page.
LEMMA FreeOpened ==
    ASSUME NEW f, NEW g, NEW c \in Pages, Valid(f, c), ~Valid(f, At(c, 1)),
           \A p \in Pages : Valid(g, p) <=> (Valid(f, p) \/ p = At(c, 1))
    PROVE  /\ FreeAfter(f, c) \in 1 .. NPages - 1
           /\ FreeAfter(g, At(c, 1)) = FreeAfter(f, c) - 1
  <1> DEFINE n == FreeAfter(f, c)
  <1>1. /\ n \in 0 .. NPages
        /\ \A i \in 1 .. n : ~Valid(f, At(c, i))
        /\ n < NPages => Valid(f, At(c, n + 1))
    BY FreeHas
  <1> HIDE DEF n
  <1>2. n # 0
    <2>1. n = 0 => n < NPages /\ n + 1 = 1
      BY Sizes
    <2> QED
      BY <1>1, <2>1
  <1>3. n # NPages
    <2>1. n = NPages => ~Valid(f, At(c, NPages))
      BY <1>1, Sizes
    <2> QED
      BY <2>1, AtRing
  <1>4. n \in 1 .. NPages - 1 /\ n - 1 \in 0 .. NPages
    BY <1>1, <1>2, <1>3, Sizes
  <1>5. At(c, 1) \in Pages
    BY AtRing, Sizes
  <1>6. \A i \in 1 .. n - 1 : ~Valid(g, At(At(c, 1), i))
    <2> SUFFICES ASSUME NEW i \in 1 .. n - 1 PROVE ~Valid(g, At(At(c, 1), i))
      OBVIOUS
    <2>1. /\ i \in 0 .. NPages - 1 /\ i + 1 \in 1 .. n /\ i + 1 \in 1 .. NPages
          /\ i + 1 # 1 /\ 1 \in 1 .. NPages /\ i + 1 \in 0 .. NPages
      BY <1>4, Sizes
    <2>2. At(At(c, 1), i) = At(c, i + 1) /\ At(c, i + 1) \in Pages /\ At(c, i + 1) # At(c, 1)
      BY <2>1, AtRing
    <2>3. ~Valid(f, At(c, i + 1))
      BY <2>1, <1>1
    <2> QED
      BY <2>2, <2>3
  <1>7. Valid(g, At(At(c, 1), n - 1 + 1))
    <2>1. n - 1 + 1 = n /\ n \in 0 .. NPages - 1 /\ n + 1 \in 0 .. NPages /\ n < NPages
      BY <1>4, Sizes
    <2>2. At(At(c, 1), n) = At(c, n + 1) /\ At(c, n + 1) \in Pages
      BY <2>1, AtRing
    <2>3. Valid(f, At(c, n + 1))
      BY <1>1, <2>1
    <2>4. Valid(g, At(At(c, 1), n))
      BY <2>2, <2>3
    <2> QED
      BY <2>1, <2>4
  <1>8. FreeAfter(g, At(c, 1)) = n - 1
    <2> DEFINE d == At(c, 1)
    <2> HIDE DEF d
    <2> QED
      BY <1>4, <1>6, <1>7, FreeIs DEF d
  <1> QED
    BY <1>4, <1>8 DEF n

\* Erasing the page behind the free ones frees one more page at least.
LEMMA FreeRemoved ==
    ASSUME NEW f, NEW g, NEW c \in Pages, FreeAfter(f, c) < NPages,
           \A p \in Pages : Valid(g, p) <=> (Valid(f, p) /\ p # At(c, FreeAfter(f, c) + 1))
    PROVE  FreeAfter(g, c) > FreeAfter(f, c)
  <1> DEFINE n == FreeAfter(f, c)
             m == FreeAfter(g, c)
  <1>1. /\ n \in 0 .. NPages
        /\ \A i \in 1 .. n : ~Valid(f, At(c, i))
        /\ m \in 0 .. NPages
        /\ m < NPages => Valid(g, At(c, m + 1))
    BY FreeHas
  <1> HIDE DEF n, m
  <1>2. ASSUME m <= n PROVE FALSE
    <2>1. m < NPages /\ m + 1 \in 1 .. n + 1 /\ m + 1 \in 0 .. NPages
      BY <1>1, <1>2, Sizes DEF n
    <2>2. At(c, m + 1) \in Pages
      BY <2>1, AtRing
    <2>3. Valid(f, At(c, m + 1)) /\ At(c, m + 1) # At(c, n + 1)
      BY <1>1, <2>1, <2>2 DEF n
    <2>4. m + 1 \in 1 .. n \/ m + 1 = n + 1
      BY <1>1, <2>1
    <2> QED
      BY <1>1, <2>3, <2>4
  <1> QED
    BY <1>1, <1>2 DEF n, m

\* Without a valid page all are free; with one valid page all but that one.
LEMMA FreeAll ==
    ASSUME NEW f, NEW c \in Pages
    PROVE  /\ (\A p \in Pages : ~Valid(f, p)) => FreeAfter(f, c) = NPages
           /\ (\A p \in Pages : Valid(f, p) <=> p = c) => FreeAfter(f, c) = NPages - 1
  <1>1. /\ NPages \in 0 .. NPages /\ NPages - 1 \in 0 .. NPages /\ NPages - 1 + 1 = NPages
        /\ 1 .. NPages \subseteq 0 .. NPages
        /\ \A i \in 1 .. NPages - 1 : i \in 1 .. NPages /\ i # NPages
        /\ NPages \in 1 .. NPages
    BY Sizes
  <1>2. \A i \in 1 .. NPages : At(c, i) \in Pages
    BY <1>1, AtRing
  <1>3. \A i \in 1 .. NPages - 1 : At(c, i) # c
    BY <1>1, AtRing
  <1>4. ASSUME \A p \in Pages : ~Valid(f, p) PROVE FreeAfter(f, c) = NPages
    <2>1. \A i \in 1 .. NPages : ~Valid(f, At(c, i))
      BY <1>2, <1>4
    <2>2. ~(NPages < NPages)
      BY Sizes
    <2> QED
      BY <1>1, <2>1, <2>2, FreeIs
  <1>5. ASSUME \A p \in Pages : Valid(f, p) <=> p = c PROVE FreeAfter(f, c) = NPages - 1
    <2>1. \A i \in 1 .. NPages - 1 : ~Valid(f, At(c, i))
      BY <1>1, <1>2, <1>3, <1>5
    <2>2. Valid(f, At(c, NPages - 1 + 1))
      BY <1>1, <1>5, AtRing
    <2> QED
      BY <1>1, <2>1, <2>2, FreeIs
  <1> QED
    BY <1>4, <1>5

\* The byte decremented.
LEMMA ByteDown == ASSUME NEW n \in 1 .. 255 PROVE (n + 255) % 256 = n - 1
  OBVIOUS

-----------------------------------------------------------------------------
(* The count of free pages, and the room for what has to be written.        *)

NFree == FreeAfter(flash, cur)

\* ftl_page_format keeps the count up; the collector, recovery and clearing
\* leave it behind until they count again.
Counted == /\ walk.loop \in {"none", "invalid"}
           /\ pc \notin {"off", "scan", "cell", "map", "recover", "recount", "clear"}
           /\ target.next # "init"

CountInv ==
    /\ Counted => freeCount = NFree
    /\ target.next # "none" /\ (target.next # "gc" \/ pc # "erase") =>
         ~Valid(flash, target.page)
    /\ target.next = "write" => target.page = NextPage(cur)
    /\ target.next \in {"init", "clear"} => \A p \in Pages : ~Valid(flash, p)
    /\ pc = "clear" => \A p \in Pages : p < walk.page => ~Valid(flash, p)
    /\ walk.loop = "none" /\ pc # "clear" => walk.page = 0

\* A pair is on its way to the current page.
Appending == pc \in {"write", "key"} \/ target.next = "write"

\* The pairs of the page being collected that may still have to be appended.
Left == (walk.key - 1) \div 2 + (IF Appending THEN 1 ELSE 0)

\* Outside of collection and recovery a page is free; a collection has a free
\* page or room in the current one for all that is left to copy; when it has
\* erased a page, that one is free.
RoomInv ==
    /\ Appending => walk.loop \in {"none", "gc", "rec"}
    /\ pc \in {"idle", "recount"} => NFree >= 1
    /\ walk.loop = "invalid" => NFree >= 1
    /\ walk.loop = "none" /\ Appending => NFree >= 1
    /\ pc = "collect" => walk.loop = "none" /\ (NFree >= 1 \/ free = INFO_size)
    /\ walk.loop = "rec" => NFree = 0 /\ walk.page = NextPage(cur)
    /\ walk.loop = "gc" /\ target.next # "gc" =>
         /\ walk.page = At(cur, NFree + 1)
         /\ NFree >= 1 \/ Left <= (PageElement - free) \div 2
         /\ Appending => walk.key >= 1 /\ walk.key <= PageElement - 3
    /\ walk.loop = "gc" /\ target.next = "gc" =>
         IF pc = "erase" THEN target.page = walk.page /\ walk.page = At(cur, NFree + 1)
                         ELSE NFree >= 1

\* Every step keeps the count, or leads to the next counting.
LEMMA CountStep == TypeInv /\ LogInv /\ CountInv /\ [Next]_vars => CountInv'
  <1> SUFFICES ASSUME TypeInv, LogInv, CountInv, [Next]_vars PROVE CountInv'
    OBVIOUS
  <1> USE DEF TypeInv
  <1>PowerOn. CASE PowerOn
    BY <1>PowerOn
       DEF PowerOn, CountInv, Counted, NFree, ram, work, NoWalk, NoTarget, TypeOK,
          Control
  <1>ScanPage. CASE ScanPage
    <2>1. walk'.loop = walk.loop /\ walk.loop # "none"
      BY <1>ScanPage DEF ScanPage, TypeOK, Walk, Control
    <2> QED
      BY <1>ScanPage, <2>1
         DEF ScanPage, CountInv, Counted, NFree, ram, work, NoWalk, NoTarget,
            TypeOK, Control
  <1>ScanNone. CASE ScanNone
    <2>1. \A q \in Pages : ~Valid(flash, q)
      BY <1>ScanNone DEF ScanNone, ftl_page_is_valid, Valid
    <2>2. 0 \in Pages
      BY <1>ScanNone, <2>1, RingType DEF ScanNone
    <2> QED
      BY <1>ScanNone, <2>1, <2>2
         DEF ScanNone, CountInv, Counted, NFree, ram, work, NoWalk, NoTarget
  <1>FindCell. CASE FindCell
    BY <1>FindCell
       DEF FindCell, CountInv, Counted, NFree, ram, work, NoWalk, NoTarget, TypeOK,
          Control
  <1>MapKey. CASE MapKey
    <2>1. walk'.loop = walk.loop /\ walk.loop # "none"
      BY <1>MapKey DEF MapKey, TypeOK, Walk, Control
    <2> QED
      BY <1>MapKey, <2>1
         DEF MapKey, CountInv, Counted, NFree, ram, work, NoWalk, NoTarget, TypeOK,
            Control
  <1>MapPrev. CASE MapPrev
    <2>1. walk' = NoWalk \/ walk'.loop = "map"
      BY <1>MapPrev DEF MapPrev, TypeOK, Walk, Control
    <2> QED
      BY <1>MapPrev, <2>1
         DEF MapPrev, CountInv, Counted, NFree, ram, work, NoWalk, NoTarget, TypeOK,
            Control
  <1>RecoverNone. CASE RecoverNone
    BY <1>RecoverNone, FreePages
       DEF RecoverNone, CountInv, Counted, NFree, ram, work, NoWalk, NoTarget,
          TypeOK, Control
  <1>Recover. CASE Recover
    BY <1>Recover
       DEF Recover, CountInv, Counted, NFree, ram, work, NoWalk, NoTarget, TypeOK,
          Control
  <1>RecoverKey. CASE RecoverKey
    <2>1. walk'.loop = walk.loop /\ walk.loop # "none"
      BY <1>RecoverKey DEF RecoverKey, TypeOK, Walk, Control
    <2> QED
      BY <1>RecoverKey, <2>1
         DEF RecoverKey, CountInv, Counted, NFree, ram, work, NoWalk, NoTarget,
            TypeOK, Control
  <1>RecoverDone. CASE RecoverDone
    <2>1. target.next = "none" /\ walk' = NoWalk /\ target' = target
      BY <1>RecoverDone DEF RecoverDone, TypeOK, Target, Control
    <2>2. \A q \in Pages : ~(q < 0)
      BY <1>RecoverDone, <2>1, Sizes DEF RecoverDone, Pages
    <2> QED
      BY <1>RecoverDone, <2>1, <2>2
         DEF RecoverDone, CountInv, Counted, NFree, ram, work, NoWalk, NoTarget,
            TypeOK
  <1>Recount. CASE Recount
    BY <1>Recount, FreePages
       DEF Recount, CountInv, Counted, NFree, ram, work, NoWalk, NoTarget, TypeOK,
          Control
  <1>Save. CASE \E s \in Saves : Save(s[1], s[2])
    BY <1>Save
       DEF Save, CountInv, Counted, NFree, ram, work, NoWalk, NoTarget, TypeOK,
          Control
  <1>WriteData. CASE WriteData
    <2>1. cur \in Pages /\ free \in Cells
      BY <1>WriteData, Sizes DEF WriteData, TypeOK, Control, Room, Cells, INFO_size
    <2>2. \A q \in Pages : Valid(flash', q) <=> Valid(flash, q)
      BY <1>WriteData, <2>1, WordWritten DEF WriteData, TypeOK, Valid
    <2>3. FreeAfter(flash', cur) = FreeAfter(flash, cur)
      BY <1>WriteData, <2>1, <2>2, FreeSame DEF WriteData, TypeOK
    <2> QED
      BY <1>WriteData, <2>1, <2>2, <2>3
         DEF WriteData, CountInv, Counted, NFree, ram, work, NoWalk, NoTarget,
            TypeOK, Control, Target
  <1>WriteKey. CASE WriteKey
    <2>1. cur \in Pages /\ free + 1 \in Cells
      BY <1>WriteKey, Sizes DEF WriteKey, TypeOK, Control, Room, Cells, INFO_size
    <2>2. \A q \in Pages : Valid(flash', q) <=> Valid(flash, q)
      BY <1>WriteKey, <2>1, WordWritten DEF WriteKey, TypeOK, Valid
    <2>3. FreeAfter(flash', cur) = FreeAfter(flash, cur)
      BY <1>WriteKey, <2>1, <2>2, FreeSame DEF WriteKey, TypeOK
    <2> QED
      BY <1>WriteKey, <2>1, <2>2, <2>3
         DEF WriteKey, CountInv, Counted, NFree, ram, work, NoWalk, NoTarget,
            TypeOK, Control, Target, Return, Walk, Loops
  <1>SetEndPosition. CASE SetEndPosition
    <2>1. cur \in Pages
      BY <1>SetEndPosition DEF SetEndPosition, TypeOK
    <2>2. \A q \in Pages : Valid(flash', q) <=> Valid(flash, q)
      BY <1>SetEndPosition, <2>1 DEF SetEndPosition, TypeOK, Page, Valid
    <2>3. FreeAfter(flash', cur) = FreeAfter(flash, cur)
      BY <1>SetEndPosition, <2>1, <2>2, FreeSame DEF SetEndPosition, TypeOK
    <2> QED
      BY <1>SetEndPosition, <2>1, <2>2, <2>3
         DEF SetEndPosition, CountInv, Counted, NFree, ram, work, NoWalk, NoTarget,
            TypeOK, Control, Target
  <1>OpenNextPage. CASE OpenNextPage
    BY <1>OpenNextPage
       DEF OpenNextPage, CountInv, Counted, NFree, ram, work, NoWalk, NoTarget,
          TypeOK, Control, ftl_page_is_valid, Valid
  <1>PageErase. CASE PageErase
    <2>1. target.page \in Pages /\ cur \in Pages /\ target.next # "none"
      BY <1>PageErase DEF PageErase, TypeOK, Target, LogInv, ErasedInv
    <2>2. \A q \in Pages : q # target.page => (Valid(flash', q) <=> Valid(flash, q))
      BY <1>PageErase, <2>1, PageErased DEF PageErase, TypeOK, Valid
    <2>3. ~Valid(flash', target.page)
      BY <1>PageErase, <2>1, <2>2, PageErased DEF PageErase, TypeOK, Valid
    <2>4. target.next # "gc" => FreeAfter(flash', cur) = FreeAfter(flash, cur)
      BY <1>PageErase, <2>1, <2>2, <2>3, FreeSame DEF PageErase, CountInv
    <2>5. Counted' => Counted /\ target.next # "gc"
      BY <1>PageErase, <2>1, <2>2, <2>3, <2>4
         DEF PageErase, Counted, work, ram, Control, AfterErase
    <2> QED
      BY <1>PageErase, <2>1, <2>2, <2>3, <2>4, <2>5
         DEF PageErase, CountInv, Counted, NFree, ram, work, NoWalk, NoTarget,
            TypeOK, Control, Target, AfterErase
  <1>PageMark. CASE PageMark
    <2>1. target.page \in Pages /\ cur \in Pages
      BY <1>PageMark DEF PageMark, TypeOK, Target
    <2>2. ~Valid(flash, target.page)
      BY <1>PageMark, <2>1 DEF PageMark, CountInv, ErasedInv, LogInv
    <2>3. \A q \in Pages : Valid(flash', q) <=> Valid(flash, q)
      BY <1>PageMark, <2>1, <2>2, MarkWritten DEF PageMark, TypeOK, Valid
    <2>4. FreeAfter(flash', cur) = FreeAfter(flash, cur)
      BY <1>PageMark, <2>1, <2>2, <2>3, FreeSame DEF PageMark, TypeOK
    <2> QED
      BY <1>PageMark, <2>1, <2>2, <2>3, <2>4, Sizes
         DEF PageMark, CountInv, Counted, NFree, ram, work, NoWalk, NoTarget,
            TypeOK, Control, Target, AfterErase, Pages
  <1>FormatNext. CASE FormatNext
    <2>1. cur \in Pages /\ target.page \in Pages /\ target.page = At(cur, 1)
      BY <1>FormatNext, AtRing DEF FormatNext, TypeOK, Target, CountInv
    <2>2. Valid(flash, cur) /\ ~Valid(flash, At(cur, 1))
      BY <1>FormatNext, <2>1
         DEF FormatNext, LogInv, CurrentInv, Booted, ftl_page_is_valid, Valid,
            CountInv, Control
    <2>3. \A q \in Pages : Valid(flash', q) <=> (Valid(flash, q) \/ q = At(cur, 1))
      BY <1>FormatNext, <2>1, <2>2, HeaderWritten
         DEF FormatNext, TypeOK, FormatAs, Valid
    <2>4. /\ FreeAfter(flash, cur) \in 1 .. NPages - 1
          /\ FreeAfter(flash', cur') = FreeAfter(flash, cur) - 1
      BY <1>FormatNext, <2>1, <2>2, <2>3, FreeOpened DEF FormatNext
    <2>5. freeCount = FreeAfter(flash, cur) => freeCount' = freeCount - 1
      BY <1>FormatNext, <2>1, <2>2, <2>3, <2>4, ByteDown, Sizes
         DEF FormatNext, FormatAs
    <2>6. target' = NoTarget /\ (Counted' => Counted)
      BY <1>FormatNext, <2>1, <2>2, <2>3, <2>4, <2>5
         DEF FormatNext, FormatAs, Counted, TypeOK, Target
    <2> QED
      BY <1>FormatNext, <2>1, <2>2, <2>3, <2>4, <2>5, <2>6
         DEF FormatNext, CountInv, Counted, NFree, ram, work, NoWalk, NoTarget,
            TypeOK, Control
  <1>FormatFirst. CASE FormatFirst
    <2>1. cur \in Pages /\ cur = 0 /\ target.page = 0
      BY <1>FormatFirst DEF FormatFirst, TypeOK, LogInv, ScanInv
    <2>2. \A q \in Pages : ~Valid(flash, q)
      BY <1>FormatFirst, <2>1 DEF FormatFirst, CountInv
    <2>3. \A q \in Pages : Valid(flash', q) <=> q = cur
      BY <1>FormatFirst, <2>1, <2>2, HeaderWritten
         DEF FormatFirst, TypeOK, FormatAs, Valid
    <2>4. FreeAfter(flash, cur) = NPages /\ FreeAfter(flash', cur) = NPages - 1
      BY <1>FormatFirst, <2>1, <2>2, <2>3, FreeAll DEF FormatFirst
    <2>5. NPages \in 1 .. 255 /\ (NPages + 255) % 256 = NPages - 1
      BY <1>FormatFirst, <2>1, <2>2, <2>3, <2>4, ByteDown, Sizes DEF FormatFirst
    <2>6. target' = NoTarget /\ (Counted' => Counted)
      BY <1>FormatFirst, <2>1, <2>2, <2>3, <2>4, <2>5
         DEF FormatFirst, FormatAs, Counted
    <2> QED
      BY <1>FormatFirst, <2>1, <2>2, <2>3, <2>4, <2>5, <2>6
         DEF FormatFirst, CountInv, Counted, NFree, ram, work, NoWalk, NoTarget,
            Control, FormatAs, TypeOK
  <1>Collect. CASE \E t \in GcCalls : Collect(t)
    BY <1>Collect
       DEF Collect, CountInv, Counted, NFree, ram, work, NoWalk, NoTarget, TypeOK,
          Control
  <1>CollectPage. CASE CollectPage
    BY <1>CollectPage
       DEF CollectPage, CountInv, Counted, NFree, ram, work, NoWalk, NoTarget,
          TypeOK, Control
  <1>CollectKey. CASE CollectKey
    <2>1. walk'.loop = walk.loop /\ walk.loop # "none"
      BY <1>CollectKey DEF CollectKey, TypeOK, Walk, Control
    <2> QED
      BY <1>CollectKey, <2>1
         DEF CollectKey, CountInv, Counted, NFree, ram, work, NoWalk, NoTarget,
            TypeOK, Control
  <1>CollectErase. CASE CollectErase
    BY <1>CollectErase
       DEF CollectErase, CountInv, Counted, NFree, ram, work, NoWalk, NoTarget,
          TypeOK, Control
  <1>CollectRetry. CASE CollectRetry
    <2>1. walk'.loop = walk.loop /\ walk.loop # "none"
      BY <1>CollectRetry DEF CollectRetry, TypeOK, Walk, Control
    <2> QED
      BY <1>CollectRetry, <2>1
         DEF CollectRetry, CountInv, Counted, NFree, ram, work, NoWalk, NoTarget,
            TypeOK, Control
  <1>CollectDone. CASE CollectDone
    BY <1>CollectDone, FreePages
       DEF CollectDone, CountInv, Counted, NFree, ram, work, NoWalk, NoTarget,
          TypeOK, Control
  <1>ClearAll. CASE ClearAll
    <2>1. \A q \in Pages : ~(q < 0)
      BY <1>ClearAll, Sizes DEF ClearAll, Pages
    <2>2. walk.page = 0 /\ target.next = "none"
      BY <1>ClearAll, <2>1 DEF ClearAll, TypeOK, Control, CountInv, Target
    <2> QED
      BY <1>ClearAll, <2>1, <2>2
         DEF ClearAll, CountInv, Counted, NFree, ram, work, NoWalk, NoTarget
  <1>ClearPage. CASE ClearPage
    <2>1. walk.page \in Pages
      BY <1>ClearPage, WalkFields, Ranges DEF ClearPage, TypeOK
    <2>2. target.next = "none" /\ target' = target
      BY <1>ClearPage, <2>1 DEF ClearPage, TypeOK, Target, Control
    <2>3. \A q \in Pages : Valid(flash', q) <=> (Valid(flash, q) /\ q # walk.page)
      BY <1>ClearPage, <2>1, <2>2, HeaderWritten DEF ClearPage, TypeOK, Valid
    <2>4. \A q \in Pages : q < walk.page => ~Valid(flash, q)
      BY <1>ClearPage, <2>1, <2>2, <2>3 DEF ClearPage, CountInv
    <2>5. \A q \in Pages : q < walk.page + 1 => q < walk.page \/ q = walk.page
      BY <1>ClearPage, <2>1, <2>2, <2>3, <2>4, Sizes DEF ClearPage, Pages
    <2>6. \A q \in Pages : q < walk.page + 1 => ~Valid(flash', q)
      BY <1>ClearPage, <2>1, <2>2, <2>3, <2>4, <2>5 DEF ClearPage
    <2>7. walk'.page = walk.page + 1 /\ pc' = "clear"
      BY <1>ClearPage, <2>1, <2>2, <2>3, <2>4, <2>5, <2>6
         DEF ClearPage, TypeOK, Walk
    <2> QED
      BY <1>ClearPage, <2>1, <2>2, <2>3, <2>4, <2>5, <2>6, <2>7
         DEF ClearPage, CountInv, Counted, NFree, ram, work, NoWalk, NoTarget
  <1>ClearReset. CASE ClearReset
    <2>1. \A q \in Pages : ~Valid(flash, q)
      BY <1>ClearReset, Sizes DEF ClearReset, CountInv, Pages
    <2>2. 0 \in Pages
      BY <1>ClearReset, <2>1, RingType DEF ClearReset
    <2>3. FreeAfter(flash, 0) = NPages
      BY <1>ClearReset, <2>1, <2>2, FreeAll DEF ClearReset
    <2> QED
      BY <1>ClearReset, <2>1, <2>2, <2>3
         DEF ClearReset, CountInv, Counted, NFree, ram, work, NoWalk, NoTarget
  <1>EraseInvalid. CASE EraseInvalid
    <2>1. /\ walk'.loop = "invalid" /\ freeCount' = freeCount /\ flash' = flash
          /\ cur' = cur /\ target' = target
      BY <1>EraseInvalid DEF EraseInvalid, NoWalk, ram
    <2>2. target.next = "none" /\ Counted
      BY <1>EraseInvalid, <2>1 DEF EraseInvalid, TypeOK, Control, Target, Counted
    <2> QED
      BY <1>EraseInvalid, <2>1, <2>2
         DEF EraseInvalid, CountInv, Counted, NFree, ram, work, NoWalk, NoTarget
  <1>EraseInvalidPage. CASE EraseInvalidPage
    <2>1. /\ walk'.loop = walk.loop /\ walk.loop = "invalid" /\ freeCount' = freeCount
          /\ flash' = flash /\ cur' = cur
      BY <1>EraseInvalidPage DEF EraseInvalidPage, TypeOK, Walk, Control, ram
    <2>2. target' # target => target'.next = "invalid" /\ ~Valid(flash, target'.page)
      BY <1>EraseInvalidPage, <2>1 DEF EraseInvalidPage, ftl_page_is_valid, Valid
    <2>3. target.next \in {"none", "invalid"}
      BY <1>EraseInvalidPage, <2>1, <2>2
         DEF EraseInvalidPage, TypeOK, Control, Target
    <2>4. Counted /\ Counted'
      BY <1>EraseInvalidPage, <2>1, <2>2, <2>3 DEF EraseInvalidPage, Counted, ram
    <2> QED
      BY <1>EraseInvalidPage, <2>1, <2>2, <2>3, <2>4
         DEF EraseInvalidPage, CountInv, Counted, NFree, ram, work, NoWalk, NoTarget
  <1>EraseInvalidDone. CASE EraseInvalidDone
    BY <1>EraseInvalidDone
       DEF EraseInvalidDone, CountInv, Counted, NFree, ram, work, NoWalk, NoTarget,
          TypeOK, Control
  <1>PowerLoss. CASE PowerLoss
    BY <1>PowerLoss
       DEF PowerLoss, CountInv, Counted, NFree, ram, work, NoWalk, NoTarget, Reset
  <1>PowerLossInSector. CASE PowerLossInSector
    BY <1>PowerLossInSector
       DEF PowerLossInSector, CountInv, Counted, NFree, ram, work, NoWalk, NoTarget,
          Reset
  <1>Stutter. CASE UNCHANGED vars
    BY <1>Stutter
       DEF vars, CountInv, Counted, NFree, ram, work, NoWalk, NoTarget, TypeOK,
          Control
  <1> QED
    BY <1>PowerOn, <1>ScanPage, <1>ScanNone, <1>FindCell, <1>MapKey, <1>MapPrev,
       <1>RecoverNone, <1>Recover, <1>RecoverKey, <1>RecoverDone, <1>Recount, <1>Save,
       <1>WriteData, <1>WriteKey, <1>SetEndPosition, <1>OpenNextPage, <1>PageErase,
       <1>PageMark, <1>FormatNext, <1>FormatFirst, <1>Collect, <1>CollectPage, <1>CollectKey,
       <1>CollectErase, <1>CollectRetry, <1>CollectDone, <1>ClearAll, <1>ClearPage,
       <1>ClearReset,
       <1>EraseInvalid, <1>EraseInvalidPage, <1>EraseInvalidDone, <1>PowerLoss,
       <1>PowerLossInSector,
       <1>Stutter DEF Next, Step, Boot, Append, Format, Gc, Clear, Request

\* A valid page is not free after itself.
LEMMA FreeCur == ASSUME NEW f, NEW c \in Pages, Valid(f, c) PROVE FreeAfter(f, c) < NPages
  <1>1. FreeAfter(f, c) = NPages => ~Valid(f, At(c, NPages))
    <2>1. NPages \in 1 .. NPages
      BY Sizes
    <2> QED
      BY <2>1, FreeHas
  <1>2. At(c, NPages) = c /\ FreeAfter(f, c) \in 0 .. NPages
    BY AtRing, FreeHas
  <1> QED
    BY <1>1, <1>2, Sizes

\* Pairs that fit in the cells that are left.
LEMMA Halves ==
    /\ \A k \in 3 .. PageElement - 1 : (k - 2 - 1) \div 2 + 1 = (k - 1) \div 2
    /\ \A k \in -1 .. PageElement - 1 : (k - 1) \div 2 <= (PageElement - 2) \div 2
    /\ \A k \in -1 .. PageElement - 3 : (k - 1) \div 2 + 1 <= (PageElement - 2) \div 2
    /\ \A f \in 2 .. PageElement : (PageElement - (f + 2)) \div 2 = (PageElement - f) \div 2 - 1
    /\ \A f \in 2 .. PageElement : ~(f + 1 < PageElement) => (PageElement - f) \div 2 = 0
    /\ \A k \in 1 .. PageElement : (k - 1) \div 2 >= 0
    /\ 2 <= PageElement \div 2
  <1>1. PageElement \in Nat /\ PageElement >= 4 /\ PageElement % 2 = 0
    BY PageAssumption
  <1> QED
    BY <1>1

\* Every step keeps room for what is on its way to the current page.
LEMMA RoomStep == TypeInv /\ LogInv /\ CountInv /\ RoomInv /\ [Next]_vars => RoomInv'
  <1> SUFFICES ASSUME TypeInv, LogInv, CountInv, RoomInv, [Next]_vars PROVE RoomInv'
    OBVIOUS
  <1> USE DEF TypeInv
  <1>PowerOn. CASE PowerOn
    BY <1>PowerOn
       DEF PowerOn, RoomInv, Appending, Left, NFree, ram, work, NoWalk, NoTarget,
          TypeOK, Control
  <1>ScanPage. CASE ScanPage
    <2>1. walk'.loop = walk.loop /\ walk.loop \in {"scan", "map", "invalid"}
      BY <1>ScanPage DEF ScanPage, TypeOK, Walk, Control
    <2>2. target.next \notin {"write", "gc"}
      BY <1>ScanPage, <2>1 DEF ScanPage, TypeOK, Control, Target
    <2> QED
      BY <1>ScanPage, <2>1, <2>2
         DEF ScanPage, RoomInv, Appending, Left, NFree, ram, work, NoWalk, NoTarget,
            Control
  <1>ScanNone. CASE ScanNone
    BY <1>ScanNone
       DEF ScanNone, RoomInv, Appending, Left, NFree, ram, work, NoWalk, NoTarget,
          TypeOK, Control
  <1>FindCell. CASE FindCell
    BY <1>FindCell
       DEF FindCell, RoomInv, Appending, Left, NFree, ram, work, NoWalk, NoTarget,
          TypeOK, Control
  <1>MapKey. CASE MapKey
    <2>1. walk'.loop = walk.loop /\ walk.loop \in {"scan", "map", "invalid"}
      BY <1>MapKey DEF MapKey, TypeOK, Walk, Control
    <2>2. target.next \notin {"write", "gc"}
      BY <1>MapKey, <2>1 DEF MapKey, TypeOK, Control, Target
    <2> QED
      BY <1>MapKey, <2>1, <2>2
         DEF MapKey, RoomInv, Appending, Left, NFree, ram, work, NoWalk, NoTarget,
            Control
  <1>MapPrev. CASE MapPrev
    <2>1. (walk' = NoWalk /\ pc' = "recover") \/ (walk'.loop = "map" /\ pc' = "map")
      BY <1>MapPrev DEF MapPrev, TypeOK, Walk, Control
    <2> QED
      BY <1>MapPrev, <2>1
         DEF MapPrev, RoomInv, Appending, Left, NFree, ram, work, NoWalk, NoTarget,
            TypeOK, Control
  <1>RecoverNone. CASE RecoverNone
    <2>1. FreeAfter(flash, cur) \in Nat /\ FreeAfter(flash, cur) >= 1
      BY <1>RecoverNone, FreePages, FreeHas, Sizes DEF RecoverNone
    <2> QED
      BY <1>RecoverNone, <2>1
         DEF RecoverNone, RoomInv, Appending, Left, NFree, ram, work, NoWalk,
            NoTarget, TypeOK, Control, Target
  <1>Recover. CASE Recover
    <2>1. ftl_page_get_oldest = NextPage(cur) /\ FreeAfter(flash, cur) = 0
      BY <1>Recover, OldestAt, FreePages, AtRing DEF Recover, TypeOK
    <2>2. target.next = "none"
      BY <1>Recover, <2>1 DEF Recover, TypeOK, Control, Target
    <2> QED
      BY <1>Recover, <2>1, <2>2
         DEF Recover, RoomInv, Appending, Left, NFree, ram, work, NoWalk, NoTarget
  <1>RecoverKey. CASE RecoverKey
    <2>1. walk'.loop = walk.loop /\ walk'.page = walk.page /\ walk.loop = "rec"
      BY <1>RecoverKey DEF RecoverKey, TypeOK, Walk, Control
    <2>2. target.next = "none"
      BY <1>RecoverKey, <2>1 DEF RecoverKey, TypeOK, Control, Target
    <2> QED
      BY <1>RecoverKey, <2>1, <2>2
         DEF RecoverKey, RoomInv, Appending, Left, NFree, ram, work, NoWalk,
            NoTarget
  <1>RecoverDone. CASE RecoverDone
    <2>1. /\ target.next = "none" /\ walk' = NoWalk /\ target' = target /\ walk.loop = "rec"
          /\ cur' = cur /\ cur \in Pages
      BY <1>RecoverDone DEF RecoverDone, TypeOK, Target, Control, ram
    <2>2. Valid(flash, cur)
      BY <1>RecoverDone, <2>1
         DEF RecoverDone, LogInv, CurrentInv, Booted, Valid, ftl_page_is_valid
    <2>3. FreeAfter(flash, cur) = 0 /\ walk.page = At(cur, 0 + 1) /\ walk.page \in Pages
      BY <1>RecoverDone, <2>1, <2>2, AtRing DEF RecoverDone, RoomInv, NFree, Control
    <2>4. \A q \in Pages : Valid(flash', q) <=> (Valid(flash, q) /\ q # walk.page)
      BY <1>RecoverDone, <2>1, <2>2, <2>3, HeaderWritten
         DEF RecoverDone, TypeOK, Valid
    <2>5. FreeAfter(flash', cur) > 0
      BY <1>RecoverDone, <2>1, <2>2, <2>3, <2>4, FreeRemoved, FreeCur
         DEF RecoverDone
    <2>6. FreeAfter(flash', cur) \in Nat
      BY <1>RecoverDone, <2>1, <2>2, <2>3, <2>4, <2>5, FreeHas, Sizes
         DEF RecoverDone
    <2>7. FreeAfter(flash', cur) >= 1
      BY <1>RecoverDone, <2>1, <2>2, <2>3, <2>4, <2>5, <2>6 DEF RecoverDone
    <2> QED
      BY <1>RecoverDone, <2>1, <2>2, <2>3, <2>4, <2>5, <2>6, <2>7
         DEF RecoverDone, RoomInv, Appending, Left, NFree, ram, work, NoWalk,
            NoTarget
  <1>Recount. CASE Recount
    <2>1. target.next = "none"
      BY <1>Recount DEF Recount, TypeOK, Control, Target
    <2> QED
      BY <1>Recount, <2>1
         DEF Recount, RoomInv, Appending, Left, NFree, ram, work, NoWalk, NoTarget,
            Control
  <1>Save. CASE \E s \in Saves : Save(s[1], s[2])
    <2>1. target.next = "none"
      BY <1>Save DEF Save, TypeOK, Control, Target
    <2> QED
      BY <1>Save, <2>1
         DEF Save, RoomInv, Appending, Left, NFree, ram, work, NoWalk, NoTarget,
            Control
  <1>WriteData. CASE WriteData
    <2>1. cur \in Pages /\ free \in Cells
      BY <1>WriteData, Sizes DEF WriteData, TypeOK, Control, Room, Cells, INFO_size
    <2>2. \A q \in Pages : Valid(flash', q) <=> Valid(flash, q)
      BY <1>WriteData, <2>1, WordWritten DEF WriteData, TypeOK, Valid
    <2>3. FreeAfter(flash', cur) = FreeAfter(flash, cur)
      BY <1>WriteData, <2>1, <2>2, FreeSame DEF WriteData, TypeOK
    <2>4. target.next = "none"
      BY <1>WriteData, <2>1, <2>2, <2>3 DEF WriteData, TypeOK, Control, Target
    <2> QED
      BY <1>WriteData, <2>1, <2>2, <2>3, <2>4
         DEF WriteData, RoomInv, Appending, Left, NFree, ram, work, NoWalk, NoTarget
  <1>WriteKey. CASE WriteKey
    <2>1. cur \in Pages /\ free + 1 \in Cells
      BY <1>WriteKey, Sizes DEF WriteKey, TypeOK, Control, Room, Cells, INFO_size
    <2>2. \A q \in Pages : Valid(flash', q) <=> Valid(flash, q)
      BY <1>WriteKey, <2>1, WordWritten DEF WriteKey, TypeOK, Valid
    <2>3. FreeAfter(flash', cur) = FreeAfter(flash, cur)
      BY <1>WriteKey, <2>1, <2>2, FreeSame DEF WriteKey, TypeOK
    <2>4. target.next = "none"
      BY <1>WriteKey, <2>1, <2>2, <2>3 DEF WriteKey, TypeOK, Control, Target
    <2>5. /\ pc' = Return /\ Return \in {"idle", "gc", "rec"}
          /\ (pc' = "idle" <=> walk.loop = "none")
      BY <1>WriteKey, <2>1, <2>2, <2>3, <2>4
         DEF WriteKey, RoomInv, Appending, Return
    <2>6. (PageElement - (free + 2)) \div 2 = (PageElement - free) \div 2 - 1
      BY <1>WriteKey, <2>1, <2>2, <2>3, <2>4, <2>5, Halves
         DEF WriteKey, TypeOK, INFO_size
    <2>7. (walk.key - 1) \div 2 \in Int /\ (PageElement - free) \div 2 \in Int
      BY <1>WriteKey, <2>1, <2>2, <2>3, <2>4, <2>5, <2>6, Sizes, WalkFields
         DEF WriteKey, TypeOK, INFO_size
    <2> QED
      BY <1>WriteKey, <2>1, <2>2, <2>3, <2>4, <2>5, <2>6, <2>7
         DEF WriteKey, RoomInv, Appending, Left, NFree, ram, work, NoWalk, NoTarget,
            Control
  <1>SetEndPosition. CASE SetEndPosition
    <2>1. cur \in Pages
      BY <1>SetEndPosition DEF SetEndPosition, TypeOK
    <2>2. \A q \in Pages : Valid(flash', q) <=> Valid(flash, q)
      BY <1>SetEndPosition, <2>1 DEF SetEndPosition, TypeOK, Page, Valid
    <2>3. FreeAfter(flash', cur) = FreeAfter(flash, cur)
      BY <1>SetEndPosition, <2>1, <2>2, FreeSame DEF SetEndPosition, TypeOK
    <2> QED
      BY <1>SetEndPosition, <2>1, <2>2, <2>3
         DEF SetEndPosition, RoomInv, Appending, Left, NFree, ram, work, NoWalk,
            NoTarget, TypeOK, Control, Target
  <1>OpenNextPage. CASE OpenNextPage
    <2>1. target.next = "none"
      BY <1>OpenNextPage DEF OpenNextPage, TypeOK, Control, Target
    <2> QED
      BY <1>OpenNextPage, <2>1
         DEF OpenNextPage, RoomInv, Appending, Left, NFree, ram, work, NoWalk,
            NoTarget, Control
  <1>PageErase. CASE PageErase
    <2>1. target.page \in Pages /\ cur \in Pages /\ target.next # "none"
      BY <1>PageErase DEF PageErase, TypeOK, Target, LogInv, ErasedInv
    <2>2. \A q \in Pages : q # target.page => (Valid(flash', q) <=> Valid(flash, q))
      BY <1>PageErase, <2>1, PageErased DEF PageErase, TypeOK, Valid
    <2>3. ~Valid(flash', target.page)
      BY <1>PageErase, <2>1, <2>2, PageErased DEF PageErase, TypeOK, Valid
    <2>4. target.next # "gc" => FreeAfter(flash', cur) = FreeAfter(flash, cur)
      BY <1>PageErase, <2>1, <2>2, <2>3, FreeSame DEF PageErase, CountInv
    <2>5. target.next = "gc" => Booted /\ walk.loop = "gc"
      BY <1>PageErase, <2>1, <2>2, <2>3, <2>4 DEF PageErase, Control, Booted
    <2>6. target.next = "gc" => Valid(flash, cur)
      BY <1>PageErase, <2>1, <2>2, <2>3, <2>4, <2>5
         DEF PageErase, LogInv, CurrentInv, Valid, ftl_page_is_valid
    <2>7. target.next = "gc" => target.page = At(cur, FreeAfter(flash, cur) + 1)
      BY <1>PageErase, <2>1, <2>2, <2>3, <2>4, <2>5, <2>6
         DEF PageErase, RoomInv, NFree
    <2>8. target.next = "gc" => FreeAfter(flash', cur) > FreeAfter(flash, cur)
      BY <1>PageErase, <2>1, <2>2, <2>3, <2>4, <2>5, <2>6, <2>7, FreeRemoved,
         FreeCur
         DEF PageErase
    <2>9. FreeAfter(flash, cur) \in Nat /\ FreeAfter(flash', cur) \in Nat
      BY <1>PageErase, <2>1, <2>2, <2>3, <2>4, <2>5, <2>6, <2>7, <2>8, FreeHas,
         Sizes
         DEF PageErase
    <2>10. /\ pc' \in {"mark", "gc", "invalid", "format"} /\ target' = target
           /\ walk' = walk /\ cur' = cur /\ free' = free
      BY <1>PageErase, <2>1, <2>2, <2>3, <2>4, <2>5, <2>6, <2>7, <2>8, <2>9
         DEF PageErase, AfterErase, ram, work
    <2>11. target.next = "gc" => FreeAfter(flash', cur) >= 1
      BY <1>PageErase, <2>1, <2>2, <2>3, <2>4, <2>5, <2>6, <2>7, <2>8, <2>9, <2>10
         DEF PageErase
    <2> QED
      BY <1>PageErase, <2>1, <2>2, <2>3, <2>4, <2>5, <2>6, <2>7, <2>8, <2>9, <2>10,
         <2>11
         DEF PageErase, RoomInv, Appending, Left, NFree, ram, work, NoWalk,
            NoTarget, Control
  <1>PageMark. CASE PageMark
    <2>1. target.page \in Pages /\ cur \in Pages
      BY <1>PageMark DEF PageMark, TypeOK, Target
    <2>2. ~Valid(flash, target.page)
      BY <1>PageMark, <2>1 DEF PageMark, CountInv, ErasedInv, LogInv
    <2>3. \A q \in Pages : Valid(flash', q) <=> Valid(flash, q)
      BY <1>PageMark, <2>1, <2>2, MarkWritten DEF PageMark, TypeOK, Valid
    <2>4. FreeAfter(flash', cur) = FreeAfter(flash, cur)
      BY <1>PageMark, <2>1, <2>2, <2>3, FreeSame DEF PageMark, TypeOK
    <2>5. target.next \in {"gc", "invalid"} => pc' = target.next
      BY <1>PageMark, <2>1, <2>2, <2>3, <2>4 DEF PageMark, AfterErase
    <2>6. target.next \notin {"gc", "invalid"} => pc' = "format"
      BY <1>PageMark, <2>1, <2>2, <2>3, <2>4, <2>5 DEF PageMark, AfterErase
    <2> QED
      BY <1>PageMark, <2>1, <2>2, <2>3, <2>4, <2>5, <2>6
         DEF PageMark, RoomInv, Appending, Left, NFree, ram, work, NoWalk, NoTarget,
            Control
  <1>FormatNext. CASE FormatNext
    <2>1. cur \in Pages /\ target.page \in Pages /\ target.page = At(cur, 1)
      BY <1>FormatNext, AtRing DEF FormatNext, TypeOK, Target, CountInv
    <2>2. Valid(flash, cur) /\ ~Valid(flash, At(cur, 1))
      BY <1>FormatNext, <2>1
         DEF FormatNext, LogInv, CurrentInv, Booted, ftl_page_is_valid, Valid,
            CountInv, Control
    <2>3. \A q \in Pages : Valid(flash', q) <=> (Valid(flash, q) \/ q = At(cur, 1))
      BY <1>FormatNext, <2>1, <2>2, HeaderWritten
         DEF FormatNext, TypeOK, FormatAs, Valid
    <2>4. /\ FreeAfter(flash, cur) \in 1 .. NPages - 1
          /\ FreeAfter(flash', cur') = FreeAfter(flash, cur) - 1
      BY <1>FormatNext, <2>1, <2>2, <2>3, FreeOpened DEF FormatNext
    <2>5. freeCount = FreeAfter(flash, cur) => freeCount' = freeCount - 1
      BY <1>FormatNext, <2>1, <2>2, <2>3, <2>4, ByteDown, Sizes
         DEF FormatNext, FormatAs
    <2>6. cur' = At(cur, 1) /\ free' = 2 /\ target' = NoTarget /\ walk' = walk
      BY <1>FormatNext, <2>1, <2>2, <2>3, <2>4, <2>5
         DEF FormatNext, FormatAs, INFO_size
    <2>7. walk.loop \in {"none", "gc"}
      BY <1>FormatNext, <2>1, <2>2, <2>3, <2>4, <2>5, <2>6
         DEF FormatNext, RoomInv, Appending, LogInv, CurrentInv, Booted, Control
    <2>8. walk.loop = "none" => freeCount = FreeAfter(flash, cur)
      BY <1>FormatNext, <2>1, <2>2, <2>3, <2>4, <2>5, <2>6, <2>7
         DEF FormatNext, CountInv, Counted, NFree
    <2>9. pc' = "collect" => walk.loop = "none"
      BY <1>FormatNext, <2>1, <2>2, <2>3, <2>4, <2>5, <2>6, <2>7, <2>8
         DEF FormatNext, MustCollect
    <2>10. pc' \in {"write", "collect"}
      BY <1>FormatNext, <2>1, <2>2, <2>3, <2>4, <2>5, <2>6, <2>7, <2>8, <2>9
         DEF FormatNext
    <2>11. walk.loop = "none" /\ pc' = "write" => FreeAfter(flash', cur') >= 1
      BY <1>FormatNext, <2>1, <2>2, <2>3, <2>4, <2>5, <2>6, <2>7, <2>8, <2>9, <2>10,
         Halves
         DEF FormatNext, MustCollect, INFO_size
    <2>12. At(At(cur, 1), (FreeAfter(flash, cur) - 1) + 1) = At(cur, FreeAfter(flash, cur) + 1)
      BY <1>FormatNext, <2>1, <2>2, <2>3, <2>4, <2>5, <2>6, <2>7, <2>8, <2>9, <2>10,
         <2>11, AtRing
         DEF FormatNext
    <2>13. walk.loop = "gc" => walk.page = At(cur', FreeAfter(flash', cur') + 1) /\ walk.key >= 1 /\ walk.key <= PageElement - 3
      BY <1>FormatNext, <2>1, <2>2, <2>3, <2>4, <2>5, <2>6, <2>7, <2>8, <2>9, <2>10,
         <2>11, <2>12
         DEF FormatNext, RoomInv, Appending, NFree
    <2>14. walk.loop = "gc" => (walk.key - 1) \div 2 + 1 <= (PageElement - 2) \div 2
      BY <1>FormatNext, <2>1, <2>2, <2>3, <2>4, <2>5, <2>6, <2>7, <2>8, <2>9, <2>10,
         <2>11, <2>12, <2>13, Halves, WalkFields
         DEF FormatNext, TypeOK
    <2> QED
      BY <1>FormatNext, <2>1, <2>2, <2>3, <2>4, <2>5, <2>6, <2>7, <2>8, <2>9, <2>10,
         <2>11, <2>12, <2>13, <2>14
         DEF FormatNext, RoomInv, Appending, Left, NFree, ram, work, NoWalk,
            NoTarget, INFO_size
  <1>FormatFirst. CASE FormatFirst
    <2>1. cur \in Pages /\ cur = 0 /\ target.page = 0 /\ walk.loop = "none"
      BY <1>FormatFirst DEF FormatFirst, TypeOK, LogInv, ScanInv, Control
    <2>2. \A q \in Pages : ~Valid(flash, q)
      BY <1>FormatFirst, <2>1 DEF FormatFirst, CountInv
    <2>3. \A q \in Pages : Valid(flash', q) <=> q = cur
      BY <1>FormatFirst, <2>1, <2>2, HeaderWritten
         DEF FormatFirst, TypeOK, FormatAs, Valid
    <2>4. FreeAfter(flash', cur) >= 1
      BY <1>FormatFirst, <2>1, <2>2, <2>3, FreeAll, Sizes DEF FormatFirst
    <2>5. target' = NoTarget /\ pc' \in {"cell", "idle"} /\ walk' = walk /\ cur' = cur
      BY <1>FormatFirst, <2>1, <2>2, <2>3, <2>4 DEF FormatFirst, FormatAs
    <2> QED
      BY <1>FormatFirst, <2>1, <2>2, <2>3, <2>4, <2>5
         DEF FormatFirst, RoomInv, Appending, Left, NFree, ram, work, NoWalk,
            NoTarget
  <1>Collect. CASE \E t \in GcCalls : Collect(t)
    <2>1. target.next = "none"
      BY <1>Collect DEF Collect, TypeOK, Control, Target
    <2> QED
      BY <1>Collect, <2>1
         DEF Collect, RoomInv, Appending, Left, NFree, ram, work, NoWalk, NoTarget,
            Control
  <1>CollectPage. CASE CollectPage
    <2>1. /\ ftl_page_get_oldest = At(cur, FreeAfter(flash, cur) + 1)
          /\ LastKey(ftl_page_get_oldest) \in 0 .. PageElement - 1
      BY <1>CollectPage, OldestAt, OldestType, LastKeyType DEF CollectPage, TypeOK
    <2>2. target.next = "none"
      BY <1>CollectPage, <2>1 DEF CollectPage, TypeOK, Control, Target
    <2>3. walk'.page = At(cur, FreeAfter(flash, cur) + 1) /\ walk'.loop = "gc"
      BY <1>CollectPage, <2>1, <2>2 DEF CollectPage
    <2>4. walk'.key \in 0 .. PageElement - 1
      BY <1>CollectPage, <2>1, <2>2, <2>3 DEF CollectPage
    <2>5. (walk'.key - 1) \div 2 <= (PageElement - 2) \div 2 /\ (walk'.key - 1) \div 2 \in Int
      BY <1>CollectPage, <2>1, <2>2, <2>3, <2>4, Halves, Sizes DEF CollectPage
    <2>6. FreeAfter(flash, cur) >= 1 \/ free = 2
      BY <1>CollectPage, <2>1, <2>2, <2>3, <2>4, <2>5
         DEF CollectPage, RoomInv, NFree, INFO_size
    <2>7. pc' = "gc" /\ target' = target /\ free' = free /\ flash' = flash /\ cur' = cur
      BY <1>CollectPage, <2>1, <2>2, <2>3, <2>4, <2>5, <2>6 DEF CollectPage, ram
    <2>8. ~Appending'
      BY <1>CollectPage, <2>1, <2>2, <2>3, <2>4, <2>5, <2>6, <2>7
         DEF CollectPage, Appending
    <2>9. FreeAfter(flash', cur') >= 1 \/ (walk'.key - 1) \div 2 + 0 <= (PageElement - free') \div 2
      BY <1>CollectPage, <2>1, <2>2, <2>3, <2>4, <2>5, <2>6, <2>7, <2>8
         DEF CollectPage
    <2> QED
      BY <1>CollectPage, <2>1, <2>2, <2>3, <2>4, <2>5, <2>6, <2>7, <2>8, <2>9
         DEF CollectPage, RoomInv, Appending, Left, NFree, ram, work, NoWalk,
            NoTarget
  <1>CollectKey. CASE CollectKey
    <2>1. /\ walk'.page = walk.page /\ walk'.loop = "gc" /\ walk.loop = "gc"
          /\ walk'.key = walk.key - 2
      BY <1>CollectKey DEF CollectKey, TypeOK, Walk, Control
    <2>2. walk.key \in 3 .. PageElement - 1 /\ walk.key - 2 \in 1 .. PageElement - 3
      BY <1>CollectKey, <2>1, WalkFields, Sizes DEF CollectKey, TypeOK
    <2>3. (walk'.key - 1) \div 2 + 1 = (walk.key - 1) \div 2 /\ (walk'.key - 1) \div 2 \in Int
      BY <1>CollectKey, <2>1, <2>2, Halves, Sizes DEF CollectKey
    <2>4. (PageElement - free) \div 2 \in Int
      BY <1>CollectKey, <2>1, <2>2, <2>3, Sizes DEF CollectKey, TypeOK, INFO_size
    <2>5. FreeAfter(flash, cur) >= 1 \/ (walk.key - 1) \div 2 <= (PageElement - free) \div 2
      BY <1>CollectKey, <2>1, <2>2, <2>3, <2>4
         DEF CollectKey, RoomInv, Left, Appending, NFree, NoTarget
    <2> QED
      BY <1>CollectKey, <2>1, <2>2, <2>3, <2>4, <2>5
         DEF CollectKey, RoomInv, Appending, Left, NFree, ram, work, NoWalk,
            NoTarget
  <1>CollectErase. CASE CollectErase
    <2>1. walk.loop = "gc"
      BY <1>CollectErase DEF CollectErase, Control
    <2> QED
      BY <1>CollectErase, <2>1
         DEF CollectErase, RoomInv, Appending, Left, NFree, ram, work, NoWalk,
            NoTarget
  <1>CollectRetry. CASE CollectRetry
    <2>1. ftl_page_get_oldest = At(cur, FreeAfter(flash, cur) + 1)
      BY <1>CollectRetry, OldestAt DEF CollectRetry, TypeOK
    <2>2. walk'.page = ftl_page_get_oldest /\ walk'.loop = "gc" /\ walk.loop = "gc"
      BY <1>CollectRetry, <2>1 DEF CollectRetry, TypeOK, Walk, Control
    <2> QED
      BY <1>CollectRetry, <2>1, <2>2
         DEF CollectRetry, RoomInv, Appending, Left, NFree, ram, work, NoWalk,
            NoTarget
  <1>CollectDone. CASE CollectDone
    <2>1. walk.loop = "gc"
      BY <1>CollectDone DEF CollectDone, Control
    <2> QED
      BY <1>CollectDone, <2>1
         DEF CollectDone, RoomInv, Appending, Left, NFree, ram, work, NoWalk,
            NoTarget, TypeOK
  <1>ClearAll. CASE ClearAll
    BY <1>ClearAll
       DEF ClearAll, RoomInv, Appending, Left, NFree, ram, work, NoWalk, NoTarget,
          TypeOK, Control
  <1>ClearPage. CASE ClearPage
    <2>1. walk'.loop = walk.loop /\ walk.loop = "none"
      BY <1>ClearPage DEF ClearPage, TypeOK, Walk, Control
    <2>2. target.next = "none"
      BY <1>ClearPage, <2>1 DEF ClearPage, TypeOK, Control, Target
    <2> QED
      BY <1>ClearPage, <2>1, <2>2
         DEF ClearPage, RoomInv, Appending, Left, NFree, ram, work, NoWalk, NoTarget
  <1>ClearReset. CASE ClearReset
    <2>1. walk.loop = "none"
      BY <1>ClearReset DEF ClearReset, Control
    <2> QED
      BY <1>ClearReset, <2>1
         DEF ClearReset, RoomInv, Appending, Left, NFree, ram, work, NoWalk,
            NoTarget
  <1>EraseInvalid. CASE EraseInvalid
    <2>1. target.next = "none"
      BY <1>EraseInvalid DEF EraseInvalid, TypeOK, Control, Target
    <2> QED
      BY <1>EraseInvalid, <2>1
         DEF EraseInvalid, RoomInv, Appending, Left, NFree, ram, work, NoWalk,
            NoTarget
  <1>EraseInvalidPage. CASE EraseInvalidPage
    <2>1. walk'.loop = walk.loop /\ walk.loop \in {"scan", "map", "invalid"}
      BY <1>EraseInvalidPage DEF EraseInvalidPage, TypeOK, Walk, Control
    <2>2. target.next \notin {"write", "gc"}
      BY <1>EraseInvalidPage, <2>1 DEF EraseInvalidPage, TypeOK, Control, Target
    <2> QED
      BY <1>EraseInvalidPage, <2>1, <2>2
         DEF EraseInvalidPage, RoomInv, Appending, Left, NFree, ram, work, NoWalk,
            NoTarget, Control
  <1>EraseInvalidDone. CASE EraseInvalidDone
    BY <1>EraseInvalidDone
       DEF EraseInvalidDone, RoomInv, Appending, Left, NFree, ram, work, NoWalk,
          NoTarget, TypeOK, Control
  <1>PowerLoss. CASE PowerLoss
    BY <1>PowerLoss
       DEF PowerLoss, RoomInv, Appending, Left, NFree, ram, work, NoWalk, NoTarget,
          Reset
  <1>PowerLossInSector. CASE PowerLossInSector
    BY <1>PowerLossInSector
       DEF PowerLossInSector, RoomInv, Appending, Left, NFree, ram, work, NoWalk,
          NoTarget, Reset
  <1>Stutter. CASE UNCHANGED vars
    BY <1>Stutter
       DEF vars, RoomInv, Appending, Left, NFree, ram, work, NoWalk, NoTarget,
          TypeOK, Control
  <1> QED
    BY <1>PowerOn, <1>ScanPage, <1>ScanNone, <1>FindCell, <1>MapKey, <1>MapPrev,
       <1>RecoverNone, <1>Recover, <1>RecoverKey, <1>RecoverDone, <1>Recount, <1>Save,
       <1>WriteData, <1>WriteKey, <1>SetEndPosition, <1>OpenNextPage, <1>PageErase,
       <1>PageMark, <1>FormatNext, <1>FormatFirst, <1>Collect, <1>CollectPage, <1>CollectKey,
       <1>CollectErase, <1>CollectRetry, <1>CollectDone, <1>ClearAll, <1>ClearPage,
       <1>ClearReset,
       <1>EraseInvalid, <1>EraseInvalidPage, <1>EraseInvalidDone, <1>PowerLoss,
       <1>PowerLossInSector,
       <1>Stutter DEF Next, Step, Boot, Append, Format, Gc, Clear, Request

\* Initially nothing is counted and no loop runs.
LEMMA RoomInit == Init => CountInv /\ RoomInv
  <1> SUFFICES ASSUME Init PROVE CountInv /\ RoomInv
    OBVIOUS
  <1>1. \A p \in Pages : ~(p < 0)
    BY Sizes DEF Pages
  <1> QED
    BY <1>1 DEF Init, CountInv, Counted, RoomInv, Appending, NoWalk, NoTarget

\* What the two invariants say of the code's count and of a save.
LEMMA RoomMeans ==
    TypeInv /\ LogInv /\ CountInv /\ RoomInv => FreeCountIsExact /\ NeverOutOfSpace
  <1> SUFFICES ASSUME TypeInv, LogInv, CountInv, RoomInv
               PROVE  FreeCountIsExact /\ NeverOutOfSpace
    OBVIOUS
  <1> USE DEF TypeInv
  <1>1. FreeCountIsExact
    <2>1. pc = "idle" => Counted
      BY DEF Control, Counted
    <2> QED
      BY <2>1, FreePages DEF FreeCountIsExact, CountInv, NFree
  <1>2. ASSUME pc = "write", ~Room PROVE ~ftl_page_is_valid(NextPage(cur))
    <2>1. cur \in Pages /\ free \in 2 .. PageElement /\ target.next = "none"
      BY <1>2 DEF TypeOK, INFO_size, Control, Target
    <2>2. walk.loop \in {"none", "gc"}
      BY <1>2, <2>1 DEF RoomInv, Appending, LogInv, CurrentInv, Booted
    <2>3. walk.loop = "gc" => NFree >= 1
      <3>1. (PageElement - free) \div 2 = 0
        BY <1>2, <2>1, Halves DEF Room
      <3>2. walk.loop = "gc" => walk.key \in 1 .. PageElement
        BY <1>2, <2>1, WalkFields, Sizes DEF TypeOK, RoomInv, Appending
      <3>3. walk.loop = "gc" => (walk.key - 1) \div 2 \in Int /\ (walk.key - 1) \div 2 >= 0
        BY <3>2, Halves, Sizes
      <3> QED
        BY <1>2, <2>1, <3>1, <3>3 DEF RoomInv, Appending, Left
    <2>4. NFree >= 1
      BY <1>2, <2>2, <2>3 DEF RoomInv, Appending
    <2>5. 1 \in 1 .. FreeAfter(flash, cur)
      BY <2>4, FreeHas DEF NFree
    <2>6. ~Valid(flash, At(cur, 1))
      BY <2>5, FreeHas
    <2> QED
      BY <2>1, <2>6, AtRing, FreePages
  <1> QED
    BY <1>1, <1>2 DEF NeverOutOfSpace

\* Every step keeps what is blank, counted and free, as long as the page that
\* is collected is not the current one.
LEMMA RoomInvariant == Spec /\ []OldestIsNotCurrent => [](LogInv /\ CountInv /\ RoomInv)
  <1>1. TypeInv /\ LogInv /\ OldestIsNotCurrent' /\ [Next]_vars => LogInv'
    BY ErasedStep, ScanStep, CurrentStep DEF LogInv
  <1>2. /\ TypeInv
        /\ LogInv /\ CountInv /\ RoomInv
        /\ OldestIsNotCurrent'
        /\ [Next]_vars
        => (LogInv /\ CountInv /\ RoomInv)'
    BY <1>1, CountStep, RoomStep
  <1>3. Init => LogInv /\ CountInv /\ RoomInv
    BY LogInit, RoomInit
  <1> QED
    BY TypeInvariant, <1>2, <1>3, PTL DEF Spec

\* The count of free pages, which decides when to collect, is exact between two
\* calls, on every ring: ftl_page_format counts down in a byte, the collector,
\* recovery and clearing count anew, whatever is torn and wherever power fails.
THEOREM CountIsExact == Spec /\ []OldestIsNotCurrent => []FreeCountIsExact
  BY RoomInvariant, RoomMeans, TypeInvariant, PTL

\* A save that fills its page finds a free one to go on with, and so does the
\* collector: FTL_WRITE_ERROR_OUT_OF_SPACE never happens, on every ring, also
\* on one whose pages torn writes have made smaller.
THEOREM SavesHaveRoom == Spec /\ []OldestIsNotCurrent => []NeverOutOfSpace
  BY RoomInvariant, RoomMeans, TypeInvariant, PTL

-----------------------------------------------------------------------------
(* The shape of an intact ring: valid pages follow each other without a gap *)
(* and with consecutive numbers, all but the newest are full, and pairs are *)
(* at even cells.                                                           *)

Odd(k) == k % 2 = 1

\* The sequence number d steps before s.
SeqBack(s, d) == IF s >= d THEN s - d ELSE s - d + SeqMod

\* After the newest page c come m invalid pages, then the valid ones, with
\* consecutive numbers and closed, up to c.
IsRun(f, c, m) ==
    /\ \A i \in 1 .. NPages : Valid(f, At(c, i)) <=> i > m
    /\ \A i \in 1 .. NPages : i > m => f[At(c, i)].seq = SeqBack(f[c].seq, NPages - i)
    /\ \A i \in 1 .. NPages - 1 : i > m => f[At(c, i)].end # 0

\* Numbers one step apart; none in the ring follows the newest one.
LEMMA SeqSteps ==
    ASSUME NEW s \in Seqs
    PROVE  /\ NextSeq(s) \in Seqs
           /\ SeqBack(s, 0) = s
           /\ \A d \in 0 .. NPages : SeqBack(s, d) \in Seqs
           /\ \A d \in 0 .. NPages - 1 : SeqBack(NextSeq(s), d + 1) = SeqBack(s, d)
           /\ \A d \in 0 .. NPages - 1 : NextSeq(SeqBack(s, d + 1)) = SeqBack(s, d)
           /\ \A d \in 0 .. NPages - 1 : SeqBack(s, d) # NextSeq(s)
  <1>1. /\ s \in Nat /\ s < SeqMod /\ SeqMod \in Nat /\ SeqMod > NPages /\ NPages \in Nat
        /\ NPages >= 3
    BY RingAssumption DEF Seqs
  <1>2. \A r \in Seqs : NextSeq(r) = IF r + 1 < SeqMod THEN r + 1 ELSE 0
    <2> SUFFICES ASSUME NEW r \in Seqs PROVE NextSeq(r) = IF r + 1 < SeqMod THEN r + 1 ELSE 0
      OBVIOUS
    <2>1. r \in Nat /\ r < SeqMod
      BY <1>1 DEF Seqs
    <2> QED
      BY <2>1, <1>1, ModSucc DEF NextSeq
  <1>3. \A d \in 0 .. NPages : SeqBack(s, d) \in Seqs
    BY <1>1 DEF SeqBack, Seqs
  <1>4. NextSeq(s) \in Seqs
    BY <1>1, <1>2 DEF Seqs
  <1>5. \A d \in 0 .. NPages - 1 : SeqBack(NextSeq(s), d + 1) = SeqBack(s, d)
    <2> SUFFICES ASSUME NEW d \in 0 .. NPages - 1
                 PROVE  SeqBack(NextSeq(s), d + 1) = SeqBack(s, d)
      OBVIOUS
    <2>1. PICK t \in Nat : t = NextSeq(s) /\ t = IF s + 1 < SeqMod THEN s + 1 ELSE 0
      BY <1>1, <1>2
    <2>2. (IF t >= d + 1 THEN t - (d + 1) ELSE t - (d + 1) + SeqMod)
            = (IF s >= d THEN s - d ELSE s - d + SeqMod)
      BY <1>1, <2>1
    <2> QED
      BY <2>1, <2>2 DEF SeqBack
  <1>6. \A d \in 0 .. NPages - 1 : NextSeq(SeqBack(s, d + 1)) = SeqBack(s, d)
    <2> SUFFICES ASSUME NEW d \in 0 .. NPages - 1
                 PROVE  NextSeq(SeqBack(s, d + 1)) = SeqBack(s, d)
      OBVIOUS
    <2>0. d + 1 \in 0 .. NPages
      BY <1>1
    <2>1. PICK t \in Seqs : t = SeqBack(s, d + 1)
      BY <2>0, <1>3
    <2>2. t = IF s >= d + 1 THEN s - (d + 1) ELSE s - (d + 1) + SeqMod
      BY <2>1 DEF SeqBack
    <2>3. NextSeq(t) = IF t + 1 < SeqMod THEN t + 1 ELSE 0
      BY <1>2
    <2>4. NextSeq(t) = IF s >= d THEN s - d ELSE s - d + SeqMod
      BY <1>1, <2>2, <2>3
    <2> QED
      BY <2>1, <2>4 DEF SeqBack
  <1>7. \A d \in 0 .. NPages - 1 : SeqBack(s, d) # NextSeq(s)
    <2> SUFFICES ASSUME NEW d \in 0 .. NPages - 1, SeqBack(s, d) = NextSeq(s) PROVE FALSE
      OBVIOUS
    <2>1. PICK t \in Nat : t = NextSeq(s) /\ t = IF s + 1 < SeqMod THEN s + 1 ELSE 0
      BY <1>1, <1>2
    <2>2. t = IF s >= d THEN s - d ELSE s - d + SeqMod
      BY <2>1 DEF SeqBack
    <2> QED
      BY <1>1, <2>1, <2>2
  <1>8. SeqBack(s, 0) = s
    BY <1>1 DEF SeqBack
  <1> QED
    BY <1>3, <1>4, <1>5, <1>6, <1>7, <1>8

\* In a run the valid page after a page that is not the newest has the next
\* number, and no number follows that of the newest.
LEMMA RunNext ==
    ASSUME NEW f \in [Pages -> Page], NEW c \in Pages, NEW m \in 0 .. NPages, IsRun(f, c, m),
           NEW p \in Pages, Valid(f, p)
    PROVE  /\ Valid(f, c)
           /\ f[p].seq # NextSeq(f[c].seq)
           /\ p # c => /\ Valid(f, NextPage(p))
                       /\ f[NextPage(p)].seq = NextSeq(f[p].seq)
                       /\ f[p].end # 0
  <1>1. PICK i \in 1 .. NPages : At(c, i) = p
    BY AtRing
  <1>2. i > m /\ f[p].seq = SeqBack(f[c].seq, NPages - i)
    BY <1>1 DEF IsRun
  <1>3. f[c].seq \in Seqs
    BY DEF Page
  <1>4. NPages - i \in 0 .. NPages - 1 /\ NPages \in 1 .. NPages /\ NPages > m
    BY <1>2, Sizes
  <1>5. Valid(f, c)
    BY <1>4, AtRing DEF IsRun
  <1>6. f[p].seq # NextSeq(f[c].seq)
    BY <1>2, <1>3, <1>4, SeqSteps
  <1>7. ASSUME p # c
        PROVE  /\ Valid(f, NextPage(p))
               /\ f[NextPage(p)].seq = NextSeq(f[p].seq)
               /\ f[p].end # 0
    <2>1. i # NPages
      BY <1>1, <1>7, AtRing
    <2>2. /\ i \in 1 .. NPages - 1 /\ i + 1 \in 1 .. NPages /\ i + 1 > m
          /\ NPages - (i + 1) \in 0 .. NPages - 1
          /\ NPages - i = NPages - (i + 1) + 1
      BY <1>2, <2>1, Sizes
    <2>3. NextPage(p) = At(c, i + 1)
      <3>1. /\ c \in Nat /\ c < NPages /\ p \in Nat /\ p < NPages
        BY Sizes DEF Pages
      <3>2. p = IF c + i < NPages THEN c + i ELSE c + i - NPages
        BY <1>1, <2>2, AtValue, Sizes
      <3>3. At(c, i + 1) = IF c + (i + 1) < NPages THEN c + (i + 1) ELSE c + (i + 1) - NPages
        BY <2>2, AtValue, Sizes
      <3>4. At(p, 1) = IF p + 1 < NPages THEN p + 1 ELSE p + 1 - NPages
        BY <2>2, AtValue, Sizes
      <3>5. At(p, 1) = At(c, i + 1)
        BY <3>1, <3>2, <3>3, <3>4, <2>2, Sizes
      <3> QED
        BY <3>5, AtRing
    <2>4. f[NextPage(p)].seq = SeqBack(f[c].seq, NPages - (i + 1))
      BY <2>2, <2>3 DEF IsRun
    <2>5. f[p].seq = SeqBack(f[c].seq, NPages - (i + 1) + 1)
      BY <1>2, <2>2
    <2>6. f[p].end # 0
      BY <1>1, <1>2, <2>2 DEF IsRun
    <2>7. Valid(f, NextPage(p))
      BY <2>2, <2>3 DEF IsRun
    <2>8. NextSeq(SeqBack(f[c].seq, NPages - (i + 1) + 1)) = SeqBack(f[c].seq, NPages - (i + 1))
      BY <1>3, <2>2, SeqSteps
    <2> QED
      BY <2>4, <2>5, <2>6, <2>7, <2>8
  <1> QED
    BY <1>5, <1>6, <1>7

\* The length of a run is the number of free pages after its newest.
LEMMA RunFree ==
    ASSUME NEW f, NEW c \in Pages, NEW m \in 0 .. NPages, IsRun(f, c, m)
    PROVE  FreeAfter(f, c) = m
  <1>1. \A i \in 1 .. m : i \in 1 .. NPages /\ ~(i > m)
    BY Sizes
  <1>2. \A i \in 1 .. m : ~Valid(f, At(c, i))
    BY <1>1 DEF IsRun
  <1>3. m < NPages => m + 1 \in 1 .. NPages /\ m + 1 > m
    BY Sizes
  <1>4. m < NPages => Valid(f, At(c, m + 1))
    BY <1>3 DEF IsRun
  <1> QED
    BY <1>2, <1>4, FreeIs

\* What does not touch the headers of valid pages keeps a run.
LEMMA RunSame ==
    ASSUME NEW f, NEW g, NEW c \in Pages, NEW m \in 0 .. NPages, IsRun(f, c, m),
           \A p \in Pages : Valid(g, p) <=> Valid(f, p),
           \A p \in Pages : Valid(f, p) => g[p].seq = f[p].seq /\ (f[p].end # 0 => g[p].end # 0)
    PROVE  IsRun(g, c, m)
  <1>1. \A i \in 1 .. NPages : At(c, i) \in Pages
    BY AtRing
  <1>2. 1 .. NPages - 1 \subseteq 1 .. NPages
    BY Sizes
  <1>3. \A i \in 1 .. NPages : i > m => g[c].seq = f[c].seq
    <2>1. NPages \in 1 .. NPages /\ At(c, NPages) = c /\ \A i \in 1 .. NPages : i > m => NPages > m
      BY AtRing, Sizes
    <2>2. NPages > m => Valid(f, c)
      BY <2>1 DEF IsRun
    <2> QED
      BY <2>1, <2>2
  <1> QED
    BY <1>1, <1>2, <1>3 DEF IsRun

\* The page that ends the free ones leaves the run.
LEMMA RunRemoved ==
    ASSUME NEW f, NEW g, NEW c \in Pages, NEW m \in 0 .. NPages - 2, IsRun(f, c, m),
           ~Valid(g, At(c, m + 1)),
           \A p \in Pages \ {At(c, m + 1)} :
             /\ Valid(g, p) <=> Valid(f, p)
             /\ g[p].seq = f[p].seq /\ g[p].end = f[p].end
    PROVE  IsRun(g, c, m + 1)
  <1>1. \A i \in 1 .. NPages : At(c, i) \in Pages
    BY AtRing
  <1>2. \A i \in 1 .. NPages : /\ (i > m + 1 <=> i > m /\ i # m + 1)
                               /\ m + 1 \in 1 .. NPages /\ m + 1 # NPages
                               /\ i \in 1 .. NPages
    BY Sizes
  <1>3. \A i \in 1 .. NPages : i # m + 1 => At(c, i) \in Pages \ {At(c, m + 1)}
    BY <1>1, <1>2, AtRing
  <1>4. g[c].seq = f[c].seq
    <2>1. NPages \in 1 .. NPages /\ NPages # m + 1
      BY Sizes
    <2> QED
      BY <2>1, <1>3, AtRing
  <1>5. 1 .. NPages - 1 \subseteq 1 .. NPages
    BY Sizes
  <1>6. \A i \in 1 .. NPages : Valid(g, At(c, i)) <=> i > m + 1
    BY <1>2, <1>3 DEF IsRun
  <1> QED
    BY <1>2, <1>3, <1>4, <1>5, <1>6 DEF IsRun

\* The next page becomes the newest of the run.
LEMMA RunOpened ==
    ASSUME NEW f \in [Pages -> Page], NEW g, NEW c \in Pages, NEW m \in 1 .. NPages,
           IsRun(f, c, m), f[c].end # 0, Valid(f, c),
           Valid(g, At(c, 1)), g[At(c, 1)].seq = NextSeq(f[c].seq),
           \A p \in Pages \ {At(c, 1)} :
             /\ Valid(g, p) <=> Valid(f, p)
             /\ g[p].seq = f[p].seq /\ g[p].end = f[p].end
    PROVE  IsRun(g, At(c, 1), m - 1)
  <1> DEFINE d == At(c, 1)
  <1>1. d \in Pages /\ At(d, NPages) = d
    BY AtRing, Sizes
  <1>2. \A i \in 1 .. NPages - 1 : At(d, i) = At(c, i + 1) /\ At(c, i + 1) \in Pages \ {d}
    <2> SUFFICES ASSUME NEW i \in 1 .. NPages - 1
                 PROVE  At(d, i) = At(c, i + 1) /\ At(c, i + 1) \in Pages \ {d}
      OBVIOUS
    <2>1. i \in 0 .. NPages - 1 /\ i + 1 \in 1 .. NPages /\ i + 1 # 1 /\ 1 \in 1 .. NPages
          /\ i + 1 \in 0 .. NPages
      BY Sizes
    <2> QED
      BY <2>1, AtRing
  <1>3. f[c].seq \in Seqs
    BY DEF Page
  <1> HIDE DEF d
  <1>4. g[d].seq = NextSeq(f[c].seq) /\ Valid(g, d)
    BY DEF d
  <1>5. \A i \in 1 .. NPages : i < NPages => i \in 1 .. NPages - 1
    BY Sizes
  <1>6. \A i \in 1 .. NPages - 1 :
           /\ i + 1 \in 1 .. NPages /\ (i + 1 > m <=> i > m - 1)
           /\ NPages - (i + 1) \in 0 .. NPages - 1 /\ NPages - (i + 1) + 1 = NPages - i
    BY Sizes
  <1>7. \A p \in Pages \ {d} : /\ Valid(g, p) <=> Valid(f, p)
                               /\ g[p].seq = f[p].seq /\ g[p].end = f[p].end
    BY DEF d
  <1>8. ASSUME NEW i \in 1 .. NPages - 1
        PROVE  /\ Valid(g, At(d, i)) <=> i > m - 1
               /\ i > m - 1 => g[At(d, i)].seq = SeqBack(g[d].seq, NPages - i)
               /\ i > m - 1 => g[At(d, i)].end # 0
    <2>1. Valid(g, At(d, i)) <=> i > m - 1
      BY <1>2, <1>6, <1>7 DEF IsRun
    <2>2. i > m - 1 => f[At(c, i + 1)].seq = SeqBack(f[c].seq, NPages - (i + 1))
      BY <1>6 DEF IsRun
    <2>3. SeqBack(NextSeq(f[c].seq), NPages - i) = SeqBack(f[c].seq, NPages - (i + 1))
      BY <1>3, <1>6, SeqSteps
    <2>4. i > m - 1 => f[At(c, i + 1)].end # 0
      <3>1. CASE i + 1 = NPages
        BY <3>1, AtRing
      <3>2. CASE i + 1 # NPages
        <4>1. i + 1 \in 1 .. NPages - 1
          BY <3>2, Sizes
        <4> QED
          BY <4>1, <1>6 DEF IsRun
      <3> QED
        BY <3>1, <3>2
    <2> QED
      BY <2>1, <2>2, <2>3, <2>4, <1>2, <1>4, <1>7
  <1>9. /\ NPages > m - 1 /\ NPages - NPages = 0 /\ ~(NPages \in 1 .. NPages - 1)
        /\ \A i \in 1 .. NPages : i \in 1 .. NPages - 1 \/ i = NPages
    BY Sizes
  <1>10. g[d].seq = SeqBack(g[d].seq, 0)
    BY <1>3, <1>4, SeqSteps
  <1>11. \A i \in 1 .. NPages : Valid(g, At(d, i)) <=> i > m - 1
    BY <1>1, <1>4, <1>8, <1>9
  <1>12. \A i \in 1 .. NPages : i > m - 1 => g[At(d, i)].seq = SeqBack(g[d].seq, NPages - i)
    BY <1>1, <1>8, <1>9, <1>10
  <1>13. \A i \in 1 .. NPages - 1 : i > m - 1 => g[At(d, i)].end # 0
    BY <1>8
  <1> QED
    BY <1>11, <1>12, <1>13 DEF IsRun, d

\* No valid page, and only one, make runs.
LEMMA RunFirst ==
    ASSUME NEW f \in [Pages -> Page], NEW c \in Pages
    PROVE  /\ (\A p \in Pages : ~Valid(f, p)) => IsRun(f, c, NPages)
           /\ (\A p \in Pages : Valid(f, p) <=> p = c) => IsRun(f, c, NPages - 1)
  <1>1. \A i \in 1 .. NPages : At(c, i) \in Pages
    BY AtRing
  <1>2. /\ \A i \in 1 .. NPages : ~(i > NPages) /\ (i > NPages - 1 <=> i = NPages)
        /\ \A i \in 1 .. NPages - 1 : i \in 1 .. NPages /\ i # NPages
        /\ NPages - NPages = 0 /\ NPages \in 1 .. NPages
    BY Sizes
  <1>3. At(c, NPages) = c /\ \A i \in 1 .. NPages : (At(c, i) = c <=> i = NPages)
    <2>1. At(c, NPages) = c /\ NPages \in 1 .. NPages
      BY AtRing, <1>2
    <2>2. \A i \in 1 .. NPages : At(c, i) = At(c, NPages) => i = NPages
      BY AtRing, <1>2
    <2> QED
      BY <2>1, <2>2
  <1>4. f[c].seq = SeqBack(f[c].seq, 0)
    BY SeqSteps DEF Page
  <1>5. ASSUME \A p \in Pages : ~Valid(f, p) PROVE IsRun(f, c, NPages)
    BY <1>1, <1>2, <1>5 DEF IsRun
  <1>6. ASSUME \A p \in Pages : Valid(f, p) <=> p = c PROVE IsRun(f, c, NPages - 1)
    BY <1>1, <1>2, <1>3, <1>4, <1>6 DEF IsRun
  <1> QED
    BY <1>5, <1>6

\* A pair is a word at an even cell and a key at the odd cell after it. Pairs
\* are written from the start of the page; a word without key can only be at
\* cell x. An end position says that the page is full of pairs.
PageWords(w, e, x) ==
    /\ \A k \in Cells : Odd(k) => w[k] = Blank \/ KeyAt(w[k])
    /\ \A j, k \in Cells : Odd(j) /\ Odd(k) /\ j < k /\ KeyAt(w[k]) => KeyAt(w[j])
    /\ \A i \in Cells : ~Odd(i) /\ w[i] # Blank /\ i # x => KeyAt(w[i + 1])
    /\ e # 0 => e = PageElement - 1 /\ \A k \in Cells : Odd(k) => KeyAt(w[k])

\* Where a word without key may be.
OpenCell(p) == IF pc = "key" /\ p = cur THEN free ELSE 0

\* Every page holds pairs, and the current page holds them up to the free cell.
WordsInv ==
    /\ \A p \in Pages : PageWords(flash[p].word, flash[p].end, OpenCell(p))
    /\ Booted => /\ ~Odd(free)
                 /\ \A k \in Cells : Odd(k) /\ k < free => KeyAt(flash[cur].word[k])
    /\ pc = "key" => flash[cur].word[free] = item.val

SomeRun(f) == \E c \in Pages, m \in 0 .. NPages : IsRun(f, c, m)

\* The search for the newest page, having seen the pages before walk.page.
ScanSees(c) == IF c < walk.page THEN cur = c
               ELSE \/ \A j \in Pages : j < walk.page => ~Valid(flash, j)
                    \/ walk.page = cur + 1 /\ Valid(flash, cur)

\* The valid pages are a run that ends in the current page, once that is known.
RunInv ==
    /\ Booted => IsRun(flash, cur, NFree)
    /\ ~Booted /\ (pc = "clear" => walk.page = 0) => SomeRun(flash)
    /\ pc = "clear" => walk.page <= NPages
    /\ pc = "scan" => \A c \in Pages, m \in 0 .. NPages - 1 :
                        IsRun(flash, c, m) => ScanSees(c)
    /\ pc = "cell" => IsRun(flash, cur, NPages - 1)
    /\ target.next = "write" => flash[cur].end # 0

\* What a header and a mark leave of every page.
LEMMA HeaderKeeps ==
    ASSUME flash \in [Pages -> Page], NEW p \in Pages, NEW m, NEW s
    PROVE  /\ LET f == [flash EXCEPT ![p].mark = m, ![p].seq = s]
              IN  \A q \in Pages : /\ f[q].word = flash[q].word /\ f[q].end = flash[q].end
                                   /\ f[q].seq = IF q = p THEN s ELSE flash[q].seq
           /\ LET f == [flash EXCEPT ![p].mark = m]
              IN  \A q \in Pages : /\ f[q].word = flash[q].word /\ f[q].end = flash[q].end
                                   /\ f[q].seq = flash[q].seq
  BY DEF Page

\* What a word and an end position leave of every page.
LEMMA WordKeeps ==
    ASSUME flash \in [Pages -> Page], NEW p \in Pages
    PROVE  /\ \A i \in Cells : \A w :
                LET f == [flash EXCEPT ![p].word[i] = w]
                IN  \A q \in Pages : /\ f[q].word = IF q = p THEN [flash[p].word EXCEPT ![i] = w]
                                                            ELSE flash[q].word
                                     /\ f[q].end = flash[q].end /\ f[q].seq = flash[q].seq
           /\ \A e : LET f == [flash EXCEPT ![p].end = e]
                     IN  \A q \in Pages : /\ f[q].word = flash[q].word
                                          /\ f[q].end = IF q = p THEN e ELSE flash[q].end
                                          /\ f[q].seq = flash[q].seq
  BY DEF Page

\* Odd cells and the even cells before them.
LEMMA Parity ==
    /\ \A i \in Cells : ~Odd(i) => i + 1 \in Cells /\ Odd(i + 1)
    /\ \A f \in INFO_size .. PageElement : Odd(f) => f \in Cells
    /\ \A f \in INFO_size .. PageElement : f # INFO_size => f - 1 \in Cells
    /\ \A f \in INFO_size .. PageElement : Odd(f) => ~Odd(f - 1) /\ f # INFO_size
    /\ \A f \in INFO_size .. PageElement : ~Odd(f) => Odd(f - 1) /\ ~Odd(f + 2)
    /\ \A j, k \in Cells : Odd(j) /\ ~Odd(k) /\ j < k + 1 => j < k
    /\ \A j, k \in Cells : Odd(j) /\ ~Odd(k) /\ j < k + 2 => j < k \/ j = k + 1
    /\ \A f \in INFO_size .. PageElement : ~Odd(f) /\ ~(f + 1 < PageElement) => f = PageElement
    /\ ~Odd(INFO_size) /\ \A k \in Cells : ~(k < INFO_size) /\ k # 0 /\ k < PageElement
  BY PageAssumption DEF Cells, Odd, INFO_size

\* Nothing written is a page of pairs.
LEMMA WordsBlank ==
    ASSUME NEW w, \A k \in Cells : w[k] = Blank, NEW x PROVE PageWords(w, 0, x)
  BY WordAssumption DEF PageWords, KeyAt

\* The free cell that is found is even, and pairs fill the page below it.
LEMMA WordsFree ==
    ASSUME NEW w, NEW e, PageWords(w, e, 0), NEW f \in INFO_size .. PageElement,
           \A i \in f .. PageElement - 1 : w[i] = Blank, f # INFO_size => w[f - 1] # Blank
    PROVE  ~Odd(f) /\ \A k \in Cells : Odd(k) /\ k < f => KeyAt(w[k])
  <1>1. ASSUME Odd(f) PROVE FALSE
    <2>1. f \in Cells /\ f - 1 \in Cells /\ ~Odd(f - 1) /\ f # INFO_size /\ f - 1 # 0
      BY <1>1, Parity
    <2>2. f - 1 + 1 = f /\ f \in f .. PageElement - 1
      BY <2>1, Sizes DEF Cells, INFO_size
    <2>3. KeyAt(w[f - 1 + 1])
      BY <2>1 DEF PageWords
    <2> QED
      BY <2>2, <2>3, WordAssumption DEF KeyAt
  <1>2. ASSUME NEW k \in Cells, Odd(k), k < f PROVE KeyAt(w[k])
    <2>1. f # INFO_size /\ Odd(f - 1) /\ f - 1 \in Cells
      BY <1>1, <1>2, Parity
    <2>2. KeyAt(w[f - 1])
      BY <2>1 DEF PageWords
    <2>3. k = f - 1 \/ k < f - 1
      BY <1>2, Sizes DEF Cells, INFO_size
    <2> QED
      BY <1>2, <2>1, <2>2, <2>3 DEF PageWords
  <1> QED
    BY <1>1, <1>2

\* A word is written, then its key.
LEMMA WordsData ==
    ASSUME NEW w \in [Cells -> Word], NEW e, PageWords(w, e, 0), NEW i \in Cells, ~Odd(i), NEW v
    PROVE  PageWords([w EXCEPT ![i] = v], e, i)
  <1> DEFINE u == [w EXCEPT ![i] = v]
  <1>1. \A k \in Cells : u[k] = IF k = i THEN v ELSE w[k]
    OBVIOUS
  <1>2. \A k \in Cells : ~Odd(k) => k + 1 \in Cells /\ Odd(k + 1)
    BY Parity
  <1>3. \A k \in Cells : Odd(k) => u[k] = w[k]
    BY <1>1
  <1>4. \A k \in Cells : ~Odd(k) /\ k # i => u[k] = w[k] /\ u[k + 1] = w[k + 1] /\ k # 0
    BY <1>1, <1>2, <1>3, Parity
  <1> HIDE DEF u
  <1> QED
    BY <1>3, <1>4 DEF PageWords, u

LEMMA WordsKey ==
    ASSUME NEW w \in [Cells -> Word], NEW e, NEW i \in Cells, ~Odd(i), PageWords(w, e, i),
           \A k \in Cells : Odd(k) /\ k < i => KeyAt(w[k]), NEW v, KeyAt(v)
    PROVE  /\ PageWords([w EXCEPT ![i + 1] = v], e, 0)
           /\ \A k \in Cells : Odd(k) /\ k < i + 2 => KeyAt([w EXCEPT ![i + 1] = v][k])
  <1> DEFINE u == [w EXCEPT ![i + 1] = v]
  <1>1. i + 1 \in Cells /\ Odd(i + 1)
    BY Parity
  <1>2. \A k \in Cells : u[k] = IF k = i + 1 THEN v ELSE w[k]
    BY <1>1
  <1>3. \A k \in Cells : ~Odd(k) => k + 1 \in Cells /\ Odd(k + 1) /\ k # i + 1 /\ u[k] = w[k]
    BY <1>1, <1>2, Parity
  <1>4. \A k \in Cells : KeyAt(w[k]) => KeyAt(u[k])
    BY <1>2
  <1>5. \A k \in Cells : Odd(k) => u[k] = Blank \/ KeyAt(u[k])
    BY <1>2 DEF PageWords
  <1>6. \A j, k \in Cells : Odd(j) /\ Odd(k) /\ j < k /\ KeyAt(u[k]) => KeyAt(u[j])
    <2> SUFFICES ASSUME NEW j \in Cells, NEW k \in Cells, Odd(j), Odd(k), j < k, KeyAt(u[k])
                 PROVE  KeyAt(u[j])
      OBVIOUS
    <2>1. CASE k = i + 1
      <3>1. j < i
        BY <2>1, Parity
      <3> QED
        BY <3>1, <1>4
    <2>2. CASE k # i + 1
      BY <2>2, <1>2, <1>4 DEF PageWords
    <2> QED
      BY <2>1, <2>2
  <1>7. \A k \in Cells : ~Odd(k) /\ u[k] # Blank => KeyAt(u[k + 1])
    <2> SUFFICES ASSUME NEW k \in Cells, ~Odd(k), u[k] # Blank PROVE KeyAt(u[k + 1])
      OBVIOUS
    <2>1. CASE k = i
      BY <2>1, <1>1, <1>2
    <2>2. CASE k # i
      BY <2>2, <1>3, <1>4 DEF PageWords
    <2> QED
      BY <2>1, <2>2
  <1>8. \A k \in Cells : Odd(k) /\ k < i + 2 => KeyAt(u[k])
    BY <1>1, <1>2, <1>4, Parity
  <1>9. e # 0 => e = PageElement - 1 /\ \A k \in Cells : Odd(k) => KeyAt(u[k])
    BY <1>4 DEF PageWords
  <1> HIDE DEF u
  <1> QED
    BY <1>5, <1>6, <1>7, <1>8, <1>9 DEF PageWords, u

\* A word that is blank after all needs no key; a full page may be closed.
LEMMA WordsClosed ==
    ASSUME NEW w, NEW e, NEW x
    PROVE  /\ x \in Cells /\ w[x] = Blank /\ PageWords(w, e, x) => PageWords(w, e, 0)
           /\ PageWords(w, e, x) /\ (\A k \in Cells : Odd(k) /\ k < PageElement => KeyAt(w[k]))
                => PageWords(w, PageElement - 1, x)
  BY Parity DEF PageWords

\* Every step keeps the pages full of pairs,
\* while no write is torn.
LEMMA WordsStep == TypeInv /\ LogInv /\ WordsInv /\ Intact' /\ [Next]_vars => WordsInv'
  <1> SUFFICES ASSUME TypeInv, LogInv, WordsInv, Intact', [Next]_vars PROVE WordsInv'
    OBVIOUS
  <1> USE DEF TypeInv
  <1>PowerOn. CASE PowerOn
    BY <1>PowerOn
       DEF PowerOn, WordsInv, OpenCell, Booted, ram, work, TypeOK, Control, NoWalk
  <1>ScanPage. CASE ScanPage
    BY <1>ScanPage
       DEF ScanPage, WordsInv, OpenCell, Booted, ram, work, TypeOK, Control
  <1>ScanNone. CASE ScanNone
    BY <1>ScanNone
       DEF ScanNone, WordsInv, OpenCell, Booted, ram, work, TypeOK, Control
  <1>FindCell. CASE FindCell
    <2>1. PICK f \in INFO_size .. PageElement : IsFreeCell(f) /\ free' = f
      BY <1>FindCell DEF FindCell
    <2>2. cur \in Pages /\ PageWords(flash[cur].word, flash[cur].end, 0)
      BY <1>FindCell, <2>1 DEF FindCell, TypeOK, WordsInv, OpenCell
    <2>3. ~Odd(f) /\ \A k \in Cells : Odd(k) /\ k < f => KeyAt(flash[cur].word[k])
      BY <1>FindCell, <2>1, <2>2, WordsFree DEF FindCell, IsFreeCell
    <2> QED
      BY <1>FindCell, <2>1, <2>2, <2>3
         DEF FindCell, WordsInv, OpenCell, Booted, ram, work, TypeOK, Control
  <1>MapKey. CASE MapKey
    <2>1. /\ pc # "key" /\ pc' # "key" /\ cur' = cur /\ free' = free /\ flash' = flash
          /\ (Booted' => Booted)
      BY <1>MapKey DEF MapKey, TypeOK, Control, Booted, ram, work, Target, NoTarget
    <2> QED
      BY <1>MapKey, <2>1 DEF MapKey, WordsInv, OpenCell, Booted, ram, work
  <1>MapPrev. CASE MapPrev
    <2>1. /\ pc # "key" /\ pc' # "key" /\ cur' = cur /\ free' = free /\ flash' = flash
          /\ (Booted' => Booted)
      BY <1>MapPrev
         DEF MapPrev, TypeOK, Control, Booted, ram, work, Target, NoTarget
    <2> QED
      BY <1>MapPrev, <2>1 DEF MapPrev, WordsInv, OpenCell, Booted, ram, work
  <1>RecoverNone. CASE RecoverNone
    <2>1. /\ pc # "key" /\ pc' # "key" /\ cur' = cur /\ free' = free /\ flash' = flash
          /\ (Booted' => Booted)
      BY <1>RecoverNone
         DEF RecoverNone, TypeOK, Control, Booted, ram, work, Target, NoTarget
    <2> QED
      BY <1>RecoverNone, <2>1 DEF RecoverNone, WordsInv, OpenCell, Booted, ram, work
  <1>Recover. CASE Recover
    <2>1. /\ pc # "key" /\ pc' # "key" /\ cur' = cur /\ free' = free /\ flash' = flash
          /\ (Booted' => Booted)
      BY <1>Recover
         DEF Recover, TypeOK, Control, Booted, ram, work, Target, NoTarget
    <2> QED
      BY <1>Recover, <2>1 DEF Recover, WordsInv, OpenCell, Booted, ram, work
  <1>RecoverKey. CASE RecoverKey
    <2>1. /\ pc # "key" /\ pc' # "key" /\ cur' = cur /\ free' = free /\ flash' = flash
          /\ (Booted' => Booted)
      BY <1>RecoverKey
         DEF RecoverKey, TypeOK, Control, Booted, ram, work, Target, NoTarget
    <2> QED
      BY <1>RecoverKey, <2>1 DEF RecoverKey, WordsInv, OpenCell, Booted, ram, work
  <1>RecoverDone. CASE RecoverDone
    <2>1. walk.page \in Pages
      BY <1>RecoverDone, WalkFields, Ranges DEF RecoverDone, TypeOK, Target, Control
    <2>2. \A q \in Pages : flash'[q].word = flash[q].word /\ flash'[q].end = flash[q].end
      BY <1>RecoverDone, <2>1, HeaderKeeps DEF RecoverDone, TypeOK, FormatAs
    <2>3. \A q \in Pages : PageWords(flash[q].word, flash[q].end, 0)
      BY <1>RecoverDone, <2>1, <2>2 DEF RecoverDone, WordsInv, OpenCell
    <2>4. pc' # "key" /\ free' = free /\ cur' = cur /\ cur \in Pages /\ (Booted' => Booted)
      BY <1>RecoverDone, <2>1, <2>2, <2>3 DEF RecoverDone, Booted, ram, TypeOK
    <2> QED
      BY <1>RecoverDone, <2>1, <2>2, <2>3, <2>4
         DEF RecoverDone, WordsInv, OpenCell, Booted, ram, work
  <1>Recount. CASE Recount
    <2>1. /\ pc # "key" /\ pc' # "key" /\ cur' = cur /\ free' = free /\ flash' = flash
          /\ (Booted' => Booted)
      BY <1>Recount
         DEF Recount, TypeOK, Control, Booted, ram, work, Target, NoTarget
    <2> QED
      BY <1>Recount, <2>1 DEF Recount, WordsInv, OpenCell, Booted, ram, work
  <1>Save. CASE \E s \in Saves : Save(s[1], s[2])
    <2>1. /\ pc # "key" /\ pc' # "key" /\ cur' = cur /\ free' = free /\ flash' = flash
          /\ (Booted' => Booted)
      BY <1>Save DEF Save, TypeOK, Control, Booted, ram, work, Target, NoTarget
    <2> QED
      BY <1>Save, <2>1 DEF Save, WordsInv, OpenCell, Booted, ram, work
  <1>WriteData. CASE WriteData
    <2>1. cur \in Pages /\ free \in Cells /\ Booted /\ ~Odd(free)
      BY <1>WriteData, Sizes
         DEF WriteData, TypeOK, Control, Room, Cells, INFO_size, Booted, WordsInv,
            Target
    <2>2. \A q \in Pages : flash'[q].end = flash[q].end /\ flash'[q].word = IF q = cur THEN [flash[cur].word EXCEPT ![free] = item.val] ELSE flash[q].word
      BY <1>WriteData, <2>1, WordKeeps DEF WriteData, TypeOK
    <2>3. flash[cur].word \in [Cells -> Word] /\ \A q \in Pages : PageWords(flash[q].word, flash[q].end, 0)
      BY <1>WriteData, <2>1, <2>2 DEF WriteData, TypeOK, Page, WordsInv, OpenCell
    <2>4. PageWords(flash'[cur].word, flash'[cur].end, free)
      BY <1>WriteData, <2>1, <2>2, <2>3, WordsData DEF WriteData
    <2>5. \A k \in Cells : k < free => flash'[cur].word[k] = flash[cur].word[k]
      BY <1>WriteData, <2>1, <2>2, <2>3, <2>4, Sizes DEF WriteData, Cells, INFO_size
    <2>6. flash'[cur].word[free] = item.val
      BY <1>WriteData, <2>1, <2>2, <2>3, <2>4, <2>5 DEF WriteData
    <2>7. pc' = "key" /\ cur' = cur /\ free' = free /\ item' = item
      BY <1>WriteData, <2>1, <2>2, <2>3, <2>4, <2>5, <2>6 DEF WriteData, ram, work
    <2>8. \A q \in Pages : PageWords(flash'[q].word, flash'[q].end, IF q = cur THEN free ELSE 0)
      BY <1>WriteData, <2>1, <2>2, <2>3, <2>4, <2>5, <2>6, <2>7 DEF WriteData
    <2>9. \A k \in Cells : Odd(k) /\ k < free => KeyAt(flash'[cur].word[k])
      BY <1>WriteData, <2>1, <2>2, <2>3, <2>4, <2>5, <2>6, <2>7, <2>8
         DEF WriteData, WordsInv
    <2> QED
      BY <1>WriteData, <2>1, <2>2, <2>3, <2>4, <2>5, <2>6, <2>7, <2>8, <2>9
         DEF WriteData, WordsInv, OpenCell, Booted, ram, work
  <1>WriteKey. CASE WriteKey
    <2>1. cur \in Pages /\ free \in Cells /\ free + 1 \in Cells /\ Booted /\ ~Odd(free)
      BY <1>WriteKey, Sizes
         DEF WriteKey, TypeOK, Control, Room, Cells, INFO_size, Booted, WordsInv,
            Target
    <2>2. \A q \in Pages : flash'[q].end = flash[q].end /\ flash'[q].word = IF q = cur THEN [flash[cur].word EXCEPT ![free + 1] = Key(item.addr)] ELSE flash[q].word
      BY <1>WriteKey, <2>1, WordKeeps DEF WriteKey, TypeOK
    <2>3. flash[cur].word \in [Cells -> Word] /\ \A q \in Pages : PageWords(flash[q].word, flash[q].end, IF q = cur THEN free ELSE 0)
      BY <1>WriteKey, <2>1, <2>2 DEF WriteKey, TypeOK, Page, WordsInv, OpenCell
    <2>4. \A k \in Cells : Odd(k) /\ k < free => KeyAt(flash[cur].word[k])
      BY <1>WriteKey, <2>1, <2>2, <2>3 DEF WriteKey, WordsInv
    <2>5. KeyAt(Key(item.addr))
      BY <1>WriteKey, <2>1, <2>2, <2>3, <2>4
         DEF WriteKey, KeyAt, Keys, TypeOK, Control, Item
    <2>6. PageWords(flash'[cur].word, flash'[cur].end, 0) /\ \A k \in Cells : Odd(k) /\ k < free + 2 => KeyAt(flash'[cur].word[k])
      BY <1>WriteKey, <2>1, <2>2, <2>3, <2>4, <2>5, WordsKey DEF WriteKey
    <2>7. pc' # "key" /\ cur' = cur /\ free' = free + 2
      BY <1>WriteKey, <2>1, <2>2, <2>3, <2>4, <2>5, <2>6
         DEF WriteKey, Return, TypeOK, Walk, Loops
    <2>8. ~Odd(free + 2)
      BY <1>WriteKey, <2>1, <2>2, <2>3, <2>4, <2>5, <2>6, <2>7, Parity
         DEF WriteKey, TypeOK
    <2>9. \A q \in Pages : PageWords(flash'[q].word, flash'[q].end, 0)
      BY <1>WriteKey, <2>1, <2>2, <2>3, <2>4, <2>5, <2>6, <2>7, <2>8 DEF WriteKey
    <2> QED
      BY <1>WriteKey, <2>1, <2>2, <2>3, <2>4, <2>5, <2>6, <2>7, <2>8, <2>9
         DEF WriteKey, WordsInv, OpenCell, Booted, ram, work
  <1>SetEndPosition. CASE SetEndPosition
    <2>1. cur \in Pages /\ Booted /\ ~Odd(free) /\ free = PageElement
      BY <1>SetEndPosition, Parity
         DEF SetEndPosition, TypeOK, Control, Room, Booted, WordsInv, Target
    <2>2. \A q \in Pages : flash'[q].word = flash[q].word /\ flash'[q].end = IF q = cur THEN free - 1 ELSE flash[q].end
      BY <1>SetEndPosition, <2>1, WordKeeps DEF SetEndPosition, TypeOK
    <2>3. \A q \in Pages : PageWords(flash[q].word, flash[q].end, 0)
      BY <1>SetEndPosition, <2>1, <2>2 DEF SetEndPosition, WordsInv, OpenCell
    <2>4. PageWords(flash'[cur].word, flash'[cur].end, 0)
      BY <1>SetEndPosition, <2>1, <2>2, <2>3, WordsClosed
         DEF SetEndPosition, WordsInv
    <2>5. \A q \in Pages : PageWords(flash'[q].word, flash'[q].end, 0)
      BY <1>SetEndPosition, <2>1, <2>2, <2>3, <2>4 DEF SetEndPosition
    <2>6. pc' # "key" /\ cur' = cur /\ free' = free
      BY <1>SetEndPosition, <2>1, <2>2, <2>3, <2>4, <2>5 DEF SetEndPosition, ram
    <2> QED
      BY <1>SetEndPosition, <2>1, <2>2, <2>3, <2>4, <2>5, <2>6
         DEF SetEndPosition, WordsInv, OpenCell, Booted, ram, work
  <1>OpenNextPage. CASE OpenNextPage
    <2>1. /\ pc # "key" /\ pc' # "key" /\ cur' = cur /\ free' = free /\ flash' = flash
          /\ (Booted' => Booted)
      BY <1>OpenNextPage
         DEF OpenNextPage, TypeOK, Control, Booted, ram, work, Target, NoTarget
    <2> QED
      BY <1>OpenNextPage, <2>1
         DEF OpenNextPage, WordsInv, OpenCell, Booted, ram, work
  <1>PageErase. CASE PageErase
    <2>1. target.page \in Pages /\ target.next # "none"
      BY <1>PageErase DEF PageErase, TypeOK, Target, LogInv, ErasedInv
    <2>2. Booted => target.page # cur
      BY <1>PageErase, <2>1 DEF PageErase, LogInv, CurrentInv
    <2>3. \A q \in Pages : PageWords(flash[q].word, flash[q].end, 0)
      BY <1>PageErase, <2>1, <2>2 DEF PageErase, WordsInv, OpenCell
    <2>4. PageWords(BlankPage.word, BlankPage.end, 0)
      BY <1>PageErase, <2>1, <2>2, <2>3, WordsBlank DEF PageErase, BlankPage
    <2>5. \A q \in Pages : PageWords(flash'[q].word, flash'[q].end, 0) /\ (q # target.page => flash'[q] = flash[q])
      BY <1>PageErase, <2>1, <2>2, <2>3, <2>4 DEF PageErase, TypeOK
    <2>6. pc' # "key" /\ cur' = cur /\ free' = free /\ (Booted' => Booted) /\ cur \in Pages
      BY <1>PageErase, <2>1, <2>2, <2>3, <2>4, <2>5
         DEF PageErase, AfterErase, ram, work, Booted, TypeOK
    <2> QED
      BY <1>PageErase, <2>1, <2>2, <2>3, <2>4, <2>5, <2>6
         DEF PageErase, WordsInv, OpenCell, Booted, ram, work
  <1>PageMark. CASE PageMark
    <2>1. target.page \in Pages
      BY <1>PageMark, WalkFields, Ranges DEF PageMark, TypeOK, Target
    <2>2. \A q \in Pages : flash'[q].word = flash[q].word /\ flash'[q].end = flash[q].end
      BY <1>PageMark, <2>1, HeaderKeeps DEF PageMark, TypeOK, FormatAs
    <2>3. \A q \in Pages : PageWords(flash[q].word, flash[q].end, 0)
      BY <1>PageMark, <2>1, <2>2 DEF PageMark, WordsInv, OpenCell
    <2>4. pc' # "key" /\ cur' = cur /\ free' = free /\ (Booted' => Booted) /\ cur \in Pages
      BY <1>PageMark, <2>1, <2>2, <2>3
         DEF PageMark, AfterErase, ram, work, Booted, TypeOK
    <2> QED
      BY <1>PageMark, <2>1, <2>2, <2>3, <2>4
         DEF PageMark, WordsInv, OpenCell, Booted, ram, work
  <1>FormatNext. CASE FormatNext
    <2>1. target.page \in Pages
      BY <1>FormatNext, WalkFields, Ranges DEF FormatNext, TypeOK, Target
    <2>2. \A q \in Pages : flash'[q].word = flash[q].word /\ flash'[q].end = flash[q].end
      BY <1>FormatNext, <2>1, HeaderKeeps DEF FormatNext, TypeOK, FormatAs
    <2>3. \A q \in Pages : PageWords(flash[q].word, flash[q].end, 0)
      BY <1>FormatNext, <2>1, <2>2 DEF FormatNext, WordsInv, OpenCell
    <2>4. pc' # "key" /\ free' = INFO_size /\ cur' \in Pages
      BY <1>FormatNext, <2>1, <2>2, <2>3 DEF FormatNext
    <2> QED
      BY <1>FormatNext, <2>1, <2>2, <2>3, <2>4, Parity
         DEF FormatNext, WordsInv, OpenCell, Booted, ram, work
  <1>FormatFirst. CASE FormatFirst
    <2>1. target.page \in Pages
      BY <1>FormatFirst, WalkFields, Ranges DEF FormatFirst, TypeOK, Target
    <2>2. \A q \in Pages : flash'[q].word = flash[q].word /\ flash'[q].end = flash[q].end
      BY <1>FormatFirst, <2>1, HeaderKeeps DEF FormatFirst, TypeOK, FormatAs
    <2>3. \A q \in Pages : PageWords(flash[q].word, flash[q].end, 0)
      BY <1>FormatFirst, <2>1, <2>2 DEF FormatFirst, WordsInv, OpenCell
    <2>4. pc' # "key" /\ free' = free /\ cur' = cur /\ (Booted' => free = INFO_size)
      BY <1>FormatFirst, <2>1, <2>2, <2>3 DEF FormatFirst, Booted, LogInv, ScanInv
    <2> QED
      BY <1>FormatFirst, <2>1, <2>2, <2>3, <2>4, Parity
         DEF FormatFirst, WordsInv, OpenCell, Booted, ram, work
  <1>Collect. CASE \E t \in GcCalls : Collect(t)
    <2>1. /\ pc # "key" /\ pc' # "key" /\ cur' = cur /\ free' = free /\ flash' = flash
          /\ (Booted' => Booted)
      BY <1>Collect
         DEF Collect, TypeOK, Control, Booted, ram, work, Target, NoTarget
    <2> QED
      BY <1>Collect, <2>1 DEF Collect, WordsInv, OpenCell, Booted, ram, work
  <1>CollectPage. CASE CollectPage
    <2>1. /\ pc # "key" /\ pc' # "key" /\ cur' = cur /\ free' = free /\ flash' = flash
          /\ (Booted' => Booted)
      BY <1>CollectPage
         DEF CollectPage, TypeOK, Control, Booted, ram, work, Target, NoTarget
    <2> QED
      BY <1>CollectPage, <2>1 DEF CollectPage, WordsInv, OpenCell, Booted, ram, work
  <1>CollectKey. CASE CollectKey
    <2>1. /\ pc # "key" /\ pc' # "key" /\ cur' = cur /\ free' = free /\ flash' = flash
          /\ (Booted' => Booted)
      BY <1>CollectKey
         DEF CollectKey, TypeOK, Control, Booted, ram, work, Target, NoTarget
    <2> QED
      BY <1>CollectKey, <2>1 DEF CollectKey, WordsInv, OpenCell, Booted, ram, work
  <1>CollectErase. CASE CollectErase
    <2>1. /\ pc # "key" /\ pc' # "key" /\ cur' = cur /\ free' = free /\ flash' = flash
          /\ (Booted' => Booted)
      BY <1>CollectErase
         DEF CollectErase, TypeOK, Control, Booted, ram, work, Target, NoTarget
    <2> QED
      BY <1>CollectErase, <2>1
         DEF CollectErase, WordsInv, OpenCell, Booted, ram, work
  <1>CollectRetry. CASE CollectRetry
    <2>1. /\ pc # "key" /\ pc' # "key" /\ cur' = cur /\ free' = free /\ flash' = flash
          /\ (Booted' => Booted)
      BY <1>CollectRetry
         DEF CollectRetry, TypeOK, Control, Booted, ram, work, Target, NoTarget
    <2> QED
      BY <1>CollectRetry, <2>1
         DEF CollectRetry, WordsInv, OpenCell, Booted, ram, work
  <1>CollectDone. CASE CollectDone
    <2>1. /\ pc # "key" /\ pc' # "key" /\ cur' = cur /\ free' = free /\ flash' = flash
          /\ (Booted' => Booted)
      BY <1>CollectDone
         DEF CollectDone, TypeOK, Control, Booted, ram, work, Target, NoTarget
    <2> QED
      BY <1>CollectDone, <2>1 DEF CollectDone, WordsInv, OpenCell, Booted, ram, work
  <1>ClearAll. CASE ClearAll
    <2>1. /\ pc # "key" /\ pc' # "key" /\ cur' = cur /\ free' = free /\ flash' = flash
          /\ (Booted' => Booted)
      BY <1>ClearAll
         DEF ClearAll, TypeOK, Control, Booted, ram, work, Target, NoTarget
    <2> QED
      BY <1>ClearAll, <2>1 DEF ClearAll, WordsInv, OpenCell, Booted, ram, work
  <1>ClearPage. CASE ClearPage
    <2>1. walk.page \in Pages
      BY <1>ClearPage, WalkFields, Ranges DEF ClearPage, TypeOK, Target
    <2>2. \A q \in Pages : flash'[q].word = flash[q].word /\ flash'[q].end = flash[q].end
      BY <1>ClearPage, <2>1, HeaderKeeps DEF ClearPage, TypeOK, FormatAs
    <2>3. \A q \in Pages : PageWords(flash[q].word, flash[q].end, 0)
      BY <1>ClearPage, <2>1, <2>2 DEF ClearPage, WordsInv, OpenCell
    <2>4. pc' = "clear"
      BY <1>ClearPage, <2>1, <2>2, <2>3 DEF ClearPage
    <2> QED
      BY <1>ClearPage, <2>1, <2>2, <2>3, <2>4
         DEF ClearPage, WordsInv, OpenCell, Booted, ram, work
  <1>ClearReset. CASE ClearReset
    <2>1. pc' # "key" /\ ~Booted'
      BY <1>ClearReset DEF ClearReset, Booted
    <2> QED
      BY <1>ClearReset, <2>1 DEF ClearReset, WordsInv, OpenCell, Booted, ram, work
  <1>EraseInvalid. CASE EraseInvalid
    <2>1. /\ pc # "key" /\ pc' # "key" /\ cur' = cur /\ free' = free /\ flash' = flash
          /\ (Booted' => Booted)
      BY <1>EraseInvalid
         DEF EraseInvalid, TypeOK, Control, Booted, ram, work, Target, NoTarget
    <2> QED
      BY <1>EraseInvalid, <2>1
         DEF EraseInvalid, WordsInv, OpenCell, Booted, ram, work
  <1>EraseInvalidPage. CASE EraseInvalidPage
    <2>1. /\ pc # "key" /\ pc' # "key" /\ cur' = cur /\ free' = free /\ flash' = flash
          /\ (Booted' => Booted)
      BY <1>EraseInvalidPage
         DEF EraseInvalidPage, TypeOK, Control, Booted, ram, work, Target, NoTarget
    <2> QED
      BY <1>EraseInvalidPage, <2>1
         DEF EraseInvalidPage, WordsInv, OpenCell, Booted, ram, work
  <1>EraseInvalidDone. CASE EraseInvalidDone
    <2>1. /\ pc # "key" /\ pc' # "key" /\ cur' = cur /\ free' = free /\ flash' = flash
          /\ (Booted' => Booted)
      BY <1>EraseInvalidDone
         DEF EraseInvalidDone, TypeOK, Control, Booted, ram, work, Target, NoTarget
    <2> QED
      BY <1>EraseInvalidDone, <2>1
         DEF EraseInvalidDone, WordsInv, OpenCell, Booted, ram, work
  <1>PowerLoss. CASE PowerLoss
    <2>1. pc' = "off" /\ ~Torn /\ flash' = flash
      BY <1>PowerLoss DEF PowerLoss, Reset, Intact
    <2>2. pc = "key" => cur \in Pages /\ free \in Cells /\ flash[cur].word[free] = Blank
      BY <1>PowerLoss, <2>1, Sizes
         DEF PowerLoss, WordsInv, Torn, TypeOK, Control, Room, Cells, INFO_size
    <2>3. \A q \in Pages : PageWords(flash[q].word, flash[q].end, 0)
      BY <1>PowerLoss, <2>1, <2>2, WordsClosed DEF PowerLoss, WordsInv, OpenCell
    <2>4. ~Booted'
      BY <1>PowerLoss, <2>1, <2>2, <2>3 DEF PowerLoss, Booted
    <2> QED
      BY <1>PowerLoss, <2>1, <2>2, <2>3, <2>4
         DEF PowerLoss, WordsInv, OpenCell, Booted, ram, work
  <1>PowerLossInSector. CASE PowerLossInSector
    <2>1. ~Intact'
      BY <1>PowerLossInSector DEF PowerLossInSector, Intact
    <2> QED
      BY <1>PowerLossInSector, <2>1
         DEF PowerLossInSector, WordsInv, OpenCell, Booted, ram, work
  <1>Stutter. CASE UNCHANGED vars
    BY <1>Stutter DEF vars, WordsInv, OpenCell, Booted, ram, work
  <1> QED
    BY <1>PowerOn, <1>ScanPage, <1>ScanNone, <1>FindCell, <1>MapKey, <1>MapPrev,
       <1>RecoverNone, <1>Recover, <1>RecoverKey, <1>RecoverDone, <1>Recount, <1>Save,
       <1>WriteData, <1>WriteKey, <1>SetEndPosition, <1>OpenNextPage, <1>PageErase,
       <1>PageMark, <1>FormatNext, <1>FormatFirst, <1>Collect, <1>CollectPage, <1>CollectKey,
       <1>CollectErase, <1>CollectRetry, <1>CollectDone, <1>ClearAll, <1>ClearPage,
       <1>ClearReset,
       <1>EraseInvalid, <1>EraseInvalidPage, <1>EraseInvalidDone, <1>PowerLoss,
       <1>PowerLossInSector,
       <1>Stutter DEF Next, Step, Boot, Append, Format, Gc, Clear, Request

\* Every step keeps the valid pages a run; erasing and recycling
\* take its oldest page, formatting adds a newest one, and the search at power
\* on finds the newest.
LEMMA RunStep == TypeInv /\ LogInv /\ CountInv /\ RoomInv /\ RunInv /\ Intact' /\ [Next]_vars => RunInv'
  <1> SUFFICES ASSUME TypeInv, LogInv, CountInv, RoomInv, RunInv, Intact', [Next]_vars
               PROVE  RunInv'
    OBVIOUS
  <1> USE DEF TypeInv
  <1>PowerOn. CASE PowerOn
    <2>1. /\ flash' = flash /\ cur' = cur /\ ~Booted /\ ~Booted' /\ pc' = "scan"
          /\ walk'.page = 0 /\ target' = target
      BY <1>PowerOn DEF PowerOn, Booted, ram, NoWalk
    <2>2. \A j \in Pages : ~(j < 0)
      BY <1>PowerOn, <2>1, Sizes DEF PowerOn, Pages
    <2>3. target.next # "write"
      BY <1>PowerOn, <2>1, <2>2 DEF PowerOn, Control, TypeOK
    <2> QED
      BY <1>PowerOn, <2>1, <2>2, <2>3 DEF PowerOn, RunInv, NFree, ScanSees
  <1>ScanPage. CASE ScanPage
    <2> DEFINE p == walk.page
    <2>1. p \in Pages /\ cur \in Pages /\ walk'.page = p + 1 /\ flash' = flash /\ pc' = "scan"
      BY <1>ScanPage, WalkFields, Ranges DEF ScanPage, TypeOK, Walk
    <2>2. cur' = IF IsNewer(p) THEN p ELSE cur
      BY <1>ScanPage DEF ScanPage
    <2>3. IsNewer(p) <=> /\ Valid(flash, p)
                         /\ \/ \A j \in Pages : j < p => ~Valid(flash, j)
                            \/ flash[p].seq = NextSeq(flash[cur].seq)
      <3>1. 0 .. p - 1 = {j \in Pages : j < p}
        BY <2>1, Sizes DEF Pages
      <3> QED
        BY <3>1 DEF IsNewer, ftl_page_is_valid, Valid
    <2>4. \A j \in Pages : j < p + 1 <=> j < p \/ j = p
      BY <2>1, Sizes DEF Pages
    <2>5. p = cur + 1 => NextPage(cur) = p
      BY <2>1, ModSucc, Sizes DEF NextPage, Pages
    <2>6. ~Booted /\ ~Booted' /\ target'.next # "write" /\ SomeRun(flash)
      BY <1>ScanPage DEF RunInv, ScanPage, Booted, TypeOK, Control, Target
    <2> HIDE DEF p
    <2>7. ASSUME NEW c \in Pages, NEW m \in 0 .. NPages - 1, IsRun(flash, c, m) PROVE ScanSees(c)'
      <3>1. ScanSees(c) /\ m \in 0 .. NPages /\ flash \in [Pages -> Page]
        BY <1>ScanPage, <2>7, Sizes DEF ScanPage, RunInv, TypeOK
      <3>2. Valid(flash, c) /\ \A q \in Pages : Valid(flash, q) =>
              /\ flash[q].seq # NextSeq(flash[c].seq)
              /\ q # c => Valid(flash, NextPage(q)) /\ flash[NextPage(q)].seq = NextSeq(flash[q].seq)
        <4>1. NPages \in 1 .. NPages /\ NPages > m
          BY Sizes
        <4>2. Valid(flash, c)
          BY <4>1, <2>7, AtRing DEF IsRun
        <4> QED
          BY <4>2, <3>1, <2>7, RunNext
      <3>3. CASE c < p
        <4>1. cur = c /\ ~IsNewer(p)
          BY <3>1, <3>2, <3>3, <2>1, <2>3 DEF ScanSees, p
        <4> QED
          BY <4>1, <3>3, <2>1, <2>2, <2>4 DEF ScanSees
      <3>4. CASE ~(c < p)
        <4>1. \/ \A j \in Pages : j < p => ~Valid(flash, j)
              \/ p = cur + 1 /\ Valid(flash, cur)
          BY <3>1, <3>4 DEF ScanSees, p
        <4>2. p = cur + 1 => cur # c
          BY <3>4, <2>1, Sizes DEF Pages
        <4>3. Valid(flash, p) => IsNewer(p)
          BY <4>1, <4>2, <3>2, <2>1, <2>3, <2>5
        <4>4. ~Valid(flash, p) => \A j \in Pages : j < p => ~Valid(flash, j)
          BY <4>1, <4>2, <3>2, <2>1, <2>5
        <4>5. CASE c = p
          BY <4>3, <4>5, <3>2, <2>1, <2>2, <2>4 DEF ScanSees
        <4>6. CASE c # p
          <5>1. ~(c < p + 1)
            BY <4>6, <3>4, <2>4
          <5> QED
            BY <4>3, <4>4, <5>1, <2>1, <2>2, <2>4 DEF ScanSees
        <4> QED
          BY <4>5, <4>6
      <3> QED
        BY <3>3, <3>4
    <2> QED
      BY <2>1, <2>6, <2>7 DEF RunInv
  <1>ScanNone. CASE ScanNone
    <2>1. /\ flash' = flash /\ ~Booted /\ ~Booted' /\ pc' = "erase" /\ target'.next = "init"
          /\ pc = "scan"
      BY <1>ScanNone DEF ScanNone, Booted
    <2> QED
      BY <1>ScanNone, <2>1 DEF ScanNone, RunInv, NFree
  <1>FindCell. CASE FindCell
    <2>1. /\ flash' = flash /\ cur' = cur /\ cur \in Pages /\ pc' = "map"
          /\ target' = target /\ target.next # "write"
      BY <1>FindCell DEF FindCell, TypeOK, Control, Target
    <2>2. \E m \in 0 .. NPages : IsRun(flash, cur, m)
      <3>1. CASE pc = "cell"
        BY <3>1, Sizes DEF RunInv
      <3>2. CASE pc # "cell"
        <4>1. pc = "scan" /\ walk.page = NPages /\ \E p \in Pages : Valid(flash, p)
          BY <1>FindCell, <3>2 DEF FindCell, ftl_page_is_valid, Valid
        <4>2. PICK c \in Pages, m \in 0 .. NPages : IsRun(flash, c, m)
          BY <4>1 DEF RunInv, Booted, SomeRun
        <4>3. m # NPages
          <5>1. PICK p \in Pages : Valid(flash, p)
            BY <4>1
          <5>2. PICK i \in 1 .. NPages : At(c, i) = p
            BY AtRing
          <5> QED
            BY <4>2, <5>1, <5>2, Sizes DEF IsRun
        <4>4. m \in 0 .. NPages - 1 /\ c < NPages
          BY <4>3, Sizes DEF Pages
        <4>5. cur = c
          BY <4>1, <4>2, <4>4 DEF RunInv, ScanSees
        <4> QED
          BY <4>2, <4>5
      <3> QED
        BY <3>1, <3>2
    <2>3. IsRun(flash, cur, FreeAfter(flash, cur))
      BY <2>1, <2>2, RunFree
    <2>4. Booted' => target'.next # "write" /\ pc' = "map"
      BY <2>1
    <2>5. ~Booted' => target'.next \in {"init", "clear"}
      BY <2>1 DEF Booted
    <2>6. Booted'
      BY <1>FindCell, <2>1 DEF FindCell, Booted, Control
    <2> QED
      BY <2>1, <2>3, <2>6 DEF RunInv, NFree
  <1>MapKey. CASE MapKey
    <2>1. /\ Booted /\ Booted' /\ flash' = flash /\ cur' = cur
          /\ pc' \notin {"clear", "scan", "cell"}
      BY <1>MapKey DEF MapKey, TypeOK, Control, Target, Booted, ram, work, NoTarget
    <2>2. target'.next = "write" => target' = target \/ flash[cur].end # 0
      BY <1>MapKey, <2>1 DEF MapKey, ram, work, NoTarget
    <2> QED
      BY <1>MapKey, <2>1, <2>2 DEF MapKey, RunInv, NFree
  <1>MapPrev. CASE MapPrev
    <2>1. /\ Booted /\ Booted' /\ flash' = flash /\ cur' = cur
          /\ pc' \notin {"clear", "scan", "cell"}
      BY <1>MapPrev
         DEF MapPrev, TypeOK, Control, Target, Booted, ram, work, NoTarget
    <2>2. target'.next = "write" => target' = target \/ flash[cur].end # 0
      BY <1>MapPrev, <2>1 DEF MapPrev, ram, work, NoTarget
    <2> QED
      BY <1>MapPrev, <2>1, <2>2 DEF MapPrev, RunInv, NFree
  <1>RecoverNone. CASE RecoverNone
    <2>1. /\ Booted /\ Booted' /\ flash' = flash /\ cur' = cur
          /\ pc' \notin {"clear", "scan", "cell"}
      BY <1>RecoverNone
         DEF RecoverNone, TypeOK, Control, Target, Booted, ram, work, NoTarget
    <2>2. target'.next = "write" => target' = target \/ flash[cur].end # 0
      BY <1>RecoverNone, <2>1 DEF RecoverNone, ram, work, NoTarget
    <2> QED
      BY <1>RecoverNone, <2>1, <2>2 DEF RecoverNone, RunInv, NFree
  <1>Recover. CASE Recover
    <2>1. /\ Booted /\ Booted' /\ flash' = flash /\ cur' = cur
          /\ pc' \notin {"clear", "scan", "cell"}
      BY <1>Recover
         DEF Recover, TypeOK, Control, Target, Booted, ram, work, NoTarget
    <2>2. target'.next = "write" => target' = target \/ flash[cur].end # 0
      BY <1>Recover, <2>1 DEF Recover, ram, work, NoTarget
    <2> QED
      BY <1>Recover, <2>1, <2>2 DEF Recover, RunInv, NFree
  <1>RecoverKey. CASE RecoverKey
    <2>1. /\ Booted /\ Booted' /\ flash' = flash /\ cur' = cur
          /\ pc' \notin {"clear", "scan", "cell"}
      BY <1>RecoverKey
         DEF RecoverKey, TypeOK, Control, Target, Booted, ram, work, NoTarget
    <2>2. target'.next = "write" => target' = target \/ flash[cur].end # 0
      BY <1>RecoverKey, <2>1 DEF RecoverKey, ram, work, NoTarget
    <2> QED
      BY <1>RecoverKey, <2>1, <2>2 DEF RecoverKey, RunInv, NFree
  <1>RecoverDone. CASE RecoverDone
    <2>1. /\ walk.page \in Pages /\ cur \in Pages /\ cur' = cur /\ flash \in [Pages -> Page]
          /\ walk.loop = "rec"
      BY <1>RecoverDone DEF RecoverDone, TypeOK, Control, Target, ram
    <2>2. NFree = 0 /\ walk.page = At(cur, 0 + 1) /\ 0 \in 0 .. NPages - 2 /\ 1 \in 0 .. NPages
      BY <1>RecoverDone, <2>1, AtRing, Sizes DEF RecoverDone, RoomInv
    <2>3. IsRun(flash, cur, 0)
      BY <1>RecoverDone, <2>1, <2>2
         DEF RecoverDone, RunInv, Booted, TypeOK, Control, Target
    <2>4. ~Valid(flash', walk.page) /\ \A q \in Pages \ {walk.page} :
            /\ Valid(flash', q) <=> Valid(flash, q)
            /\ flash'[q].seq = flash[q].seq /\ flash'[q].end = flash[q].end
      BY <1>RecoverDone, <2>1, <2>2, <2>3, HeaderWritten, HeaderKeeps
         DEF RecoverDone, Valid
    <2>5. IsRun(flash', cur, 0 + 1)
      BY <1>RecoverDone, <2>1, <2>2, <2>3, <2>4, RunRemoved DEF RecoverDone
    <2>6. 0 + 1 = 1 /\ FreeAfter(flash', cur) = 1
      BY <1>RecoverDone, <2>1, <2>2, <2>3, <2>4, <2>5, RunFree DEF RecoverDone
    <2>7. SomeRun(flash')
      BY <1>RecoverDone, <2>1, <2>2, <2>3, <2>4, <2>5, <2>6 DEF RecoverDone, SomeRun
    <2>8. /\ pc' \in {"clear", "recount"} /\ walk'.page = 0 /\ 0 <= NPages
          /\ target' = target /\ target.next # "write"
      BY <1>RecoverDone, <2>1, <2>2, <2>3, <2>4, <2>5, <2>6, <2>7, Sizes
         DEF RecoverDone, NoWalk, TypeOK, Control, Target
    <2> QED
      BY <1>RecoverDone, <2>1, <2>2, <2>3, <2>4, <2>5, <2>6, <2>7, <2>8
         DEF RecoverDone, RunInv, NFree
  <1>Recount. CASE Recount
    <2>1. /\ Booted /\ Booted' /\ flash' = flash /\ cur' = cur
          /\ pc' \notin {"clear", "scan", "cell"}
      BY <1>Recount
         DEF Recount, TypeOK, Control, Target, Booted, ram, work, NoTarget
    <2>2. target'.next = "write" => target' = target \/ flash[cur].end # 0
      BY <1>Recount, <2>1 DEF Recount, ram, work, NoTarget
    <2> QED
      BY <1>Recount, <2>1, <2>2 DEF Recount, RunInv, NFree
  <1>Save. CASE \E s \in Saves : Save(s[1], s[2])
    <2>1. /\ Booted /\ Booted' /\ flash' = flash /\ cur' = cur
          /\ pc' \notin {"clear", "scan", "cell"}
      BY <1>Save DEF Save, TypeOK, Control, Target, Booted, ram, work, NoTarget
    <2>2. target'.next = "write" => target' = target \/ flash[cur].end # 0
      BY <1>Save, <2>1 DEF Save, ram, work, NoTarget
    <2> QED
      BY <1>Save, <2>1, <2>2 DEF Save, RunInv, NFree
  <1>WriteData. CASE WriteData
    <2>1. cur \in Pages /\ free \in Cells /\ free + 1 \in Cells
      BY <1>WriteData, Sizes
         DEF WriteData, Room, Cells, INFO_size, TypeOK, Control, Target
    <2>2. NFree \in 0 .. NPages /\ IsRun(flash, cur, NFree) /\ Booted
      BY <1>WriteData, <2>1, FreeHas
         DEF WriteData, NFree, RunInv, Booted, TypeOK, Control, Target
    <2>3. \A q \in Pages : /\ Valid(flash', q) <=> Valid(flash, q)
                           /\ flash'[q].seq = flash[q].seq /\ flash'[q].end = flash[q].end
      BY <1>WriteData, <2>1, <2>2, WordWritten, WordKeeps
         DEF WriteData, Valid, TypeOK, Control, Target
    <2>4. IsRun(flash', cur, NFree)
      BY <1>WriteData, <2>1, <2>2, <2>3, RunSame DEF WriteData
    <2>5. FreeAfter(flash', cur) = NFree
      BY <1>WriteData, <2>1, <2>2, <2>3, <2>4, RunFree DEF WriteData
    <2>6. /\ cur' = cur /\ pc' \notin {"clear", "scan", "cell"} /\ target' = target
          /\ target.next # "write" /\ Booted'
      BY <1>WriteData, <2>1, <2>2, <2>3, <2>4, <2>5
         DEF WriteData, ram, work, Booted, Return, RoomInv, Appending, TypeOK,
            Control, Target
    <2> QED
      BY <1>WriteData, <2>1, <2>2, <2>3, <2>4, <2>5, <2>6
         DEF WriteData, RunInv, NFree
  <1>WriteKey. CASE WriteKey
    <2>1. cur \in Pages /\ free \in Cells /\ free + 1 \in Cells
      BY <1>WriteKey, Sizes
         DEF WriteKey, Room, Cells, INFO_size, TypeOK, Control, Target
    <2>2. NFree \in 0 .. NPages /\ IsRun(flash, cur, NFree) /\ Booted
      BY <1>WriteKey, <2>1, FreeHas
         DEF WriteKey, NFree, RunInv, Booted, TypeOK, Control, Target
    <2>3. \A q \in Pages : /\ Valid(flash', q) <=> Valid(flash, q)
                           /\ flash'[q].seq = flash[q].seq /\ flash'[q].end = flash[q].end
      BY <1>WriteKey, <2>1, <2>2, WordWritten, WordKeeps
         DEF WriteKey, Valid, TypeOK, Control, Target
    <2>4. IsRun(flash', cur, NFree)
      BY <1>WriteKey, <2>1, <2>2, <2>3, RunSame DEF WriteKey
    <2>5. FreeAfter(flash', cur) = NFree
      BY <1>WriteKey, <2>1, <2>2, <2>3, <2>4, RunFree DEF WriteKey
    <2>6. /\ cur' = cur /\ pc' \notin {"clear", "scan", "cell"} /\ target' = target
          /\ target.next # "write" /\ Booted'
      BY <1>WriteKey, <2>1, <2>2, <2>3, <2>4, <2>5
         DEF WriteKey, ram, work, Booted, Return, RoomInv, Appending, TypeOK,
            Control, Target
    <2> QED
      BY <1>WriteKey, <2>1, <2>2, <2>3, <2>4, <2>5, <2>6 DEF WriteKey, RunInv, NFree
  <1>SetEndPosition. CASE SetEndPosition
    <2>1. cur \in Pages /\ free \in Nat /\ free >= 2
      BY <1>SetEndPosition, Sizes
         DEF SetEndPosition, INFO_size, TypeOK, Control, Target
    <2>2. NFree \in 0 .. NPages /\ IsRun(flash, cur, NFree) /\ Booted
      BY <1>SetEndPosition, <2>1, FreeHas
         DEF SetEndPosition, NFree, RunInv, Booted, TypeOK, Control, Target
    <2>3. \A q \in Pages : /\ Valid(flash', q) <=> Valid(flash, q)
                           /\ flash'[q].seq = flash[q].seq /\ (flash[q].end # 0 => flash'[q].end # 0)
      BY <1>SetEndPosition, <2>1, <2>2, WordKeeps
         DEF SetEndPosition, Valid, Page, TypeOK, Control, Target
    <2>4. IsRun(flash', cur, NFree)
      BY <1>SetEndPosition, <2>1, <2>2, <2>3, RunSame DEF SetEndPosition
    <2>5. FreeAfter(flash', cur) = NFree
      BY <1>SetEndPosition, <2>1, <2>2, <2>3, <2>4, RunFree DEF SetEndPosition
    <2>6. /\ cur' = cur /\ pc' \notin {"clear", "scan", "cell"} /\ target' = target
          /\ target.next # "write" /\ Booted'
      BY <1>SetEndPosition, <2>1, <2>2, <2>3, <2>4, <2>5
         DEF SetEndPosition, ram, work, Booted, TypeOK, Control, Target
    <2> QED
      BY <1>SetEndPosition, <2>1, <2>2, <2>3, <2>4, <2>5, <2>6
         DEF SetEndPosition, RunInv, NFree
  <1>OpenNextPage. CASE OpenNextPage
    <2>1. /\ Booted /\ Booted' /\ flash' = flash /\ cur' = cur
          /\ pc' \notin {"clear", "scan", "cell"}
      BY <1>OpenNextPage
         DEF OpenNextPage, TypeOK, Control, Target, Booted, ram, work, NoTarget
    <2>2. target'.next = "write" => target' = target \/ flash[cur].end # 0
      BY <1>OpenNextPage, <2>1 DEF OpenNextPage, ram, work, NoTarget
    <2> QED
      BY <1>OpenNextPage, <2>1, <2>2 DEF OpenNextPage, RunInv, NFree
  <1>PageErase. CASE PageErase
    <2>1. /\ target.page \in Pages /\ cur \in Pages /\ target' = target /\ cur' = cur
          /\ pc' \in {"mark", "gc", "invalid", "format"} /\ flash \in [Pages -> Page]
      BY <1>PageErase DEF PageErase, TypeOK, Target, ram, work, AfterErase
    <2>2. Booted' <=> Booted
      BY <1>PageErase, <2>1 DEF PageErase, Booted
    <2>3. Booted => target.page # cur
      BY <1>PageErase DEF PageErase, LogInv, CurrentInv, ErasedInv
    <2>4. CASE flash' = flash
      BY <1>PageErase, <2>1, <2>2, <2>4 DEF PageErase, RunInv, NFree
    <2>5. CASE flash' # flash
      <3>1. flash' = [flash EXCEPT ![target.page] = BlankPage]
        BY <1>PageErase, <2>5 DEF PageErase
      <3>2. ~Valid(flash', target.page) /\ \A q \in Pages \ {target.page} :
              /\ Valid(flash', q) <=> Valid(flash, q)
              /\ flash'[q].seq = flash[q].seq /\ flash'[q].end = flash[q].end
        BY <3>1, <2>1, PageErased DEF Valid
      <3>3. target.next = "write" => flash'[cur].end # 0
        BY <2>1, <2>2, <2>3, <3>2, <1>PageErase DEF RunInv, PageErase, Booted
      <3>4. CASE target.next = "gc"
        <4>1. /\ Booted /\ walk.loop = "gc" /\ target.page = walk.page
              /\ walk.page = At(cur, NFree + 1)
          BY <3>4, <1>PageErase DEF PageErase, RoomInv, Control, Booted
        <4>2. NFree \in 0 .. NPages /\ NFree < NPages
          <5>1. Valid(flash, cur)
            BY <4>1 DEF LogInv, CurrentInv, ftl_page_is_valid, Valid
          <5> QED
            BY <5>1, <2>1, FreeCur, FreeHas DEF NFree
        <4>3. NFree + 1 # NPages
          BY <4>1, <2>1, <2>3, AtRing
        <4>4. NFree \in 0 .. NPages - 2 /\ NFree + 1 \in 0 .. NPages
          BY <4>2, <4>3, Sizes
        <4>5. IsRun(flash', cur, NFree + 1)
          BY <4>1, <4>4, <3>2, <2>1, RunRemoved DEF RunInv
        <4>6. FreeAfter(flash', cur) = NFree + 1
          BY <4>4, <4>5, <2>1, RunFree
        <4> QED
          BY <2>1, <2>2, <3>3, <4>1, <4>5, <4>6 DEF RunInv, NFree
      <3>5. CASE target.next # "gc"
        <4>1. ~Valid(flash, target.page)
          BY <3>5, <1>PageErase DEF PageErase, CountInv, LogInv, ErasedInv
        <4>2. \A q \in Pages : Valid(flash', q) <=> Valid(flash, q)
          BY <4>1, <3>2
        <4>3. \A c \in Pages, m \in 0 .. NPages : IsRun(flash, c, m) => IsRun(flash', c, m)
          BY <4>1, <4>2, <3>2, RunSame
        <4>4. NFree \in 0 .. NPages
          BY FreeHas DEF NFree
        <4>5. Booted => IsRun(flash', cur, NFree) /\ FreeAfter(flash', cur) = NFree
          BY <4>3, <4>4, <2>1, RunFree DEF RunInv
        <4>6. ~Booted => SomeRun(flash')
          BY <4>3, <1>PageErase DEF PageErase, RunInv, SomeRun
        <4> QED
          BY <2>1, <2>2, <3>3, <4>5, <4>6 DEF RunInv, NFree
      <3> QED
        BY <3>4, <3>5
    <2> QED
      BY <2>4, <2>5
  <1>PageMark. CASE PageMark
    <2>1. /\ target.page \in Pages /\ cur \in Pages /\ target' = target /\ cur' = cur
          /\ pc' \in {"gc", "invalid", "format"} /\ flash \in [Pages -> Page]
      BY <1>PageMark DEF PageMark, TypeOK, Target, ram, work, AfterErase
    <2>2. Booted' <=> Booted
      BY <1>PageMark, <2>1 DEF PageMark, Booted
    <2>3. ~Valid(flash, target.page)
      BY <1>PageMark DEF PageMark, CountInv, LogInv, ErasedInv
    <2>4. \A q \in Pages : /\ Valid(flash', q) <=> Valid(flash, q)
                           /\ flash'[q].seq = flash[q].seq /\ flash'[q].end = flash[q].end
      BY <1>PageMark, <2>1, <2>3, MarkWritten, HeaderKeeps DEF PageMark, Valid
    <2>5. \A c \in Pages, m \in 0 .. NPages : IsRun(flash, c, m) => IsRun(flash', c, m)
      BY <2>4, RunSame
    <2>6. NFree \in 0 .. NPages
      BY FreeHas DEF NFree
    <2>7. Booted => IsRun(flash', cur, NFree) /\ FreeAfter(flash', cur) = NFree
      BY <2>1, <2>5, <2>6, RunFree DEF RunInv
    <2>8. ~Booted => SomeRun(flash')
      BY <2>5, <1>PageMark DEF PageMark, RunInv, SomeRun
    <2>9. target.next = "write" => flash'[cur].end # 0
      BY <2>1, <2>4 DEF RunInv
    <2> QED
      BY <2>1, <2>2, <2>7, <2>8, <2>9 DEF RunInv, NFree
  <1>FormatNext. CASE FormatNext
    <2>1. cur \in Pages /\ target.page \in Pages /\ target.page = At(cur, 1)
      BY <1>FormatNext, AtRing DEF FormatNext, TypeOK, Target, CountInv
    <2>2. Booted /\ Valid(flash, cur) /\ ~Valid(flash, At(cur, 1)) /\ flash[cur].end # 0
      BY <1>FormatNext, <2>1
         DEF FormatNext, LogInv, CurrentInv, Booted, ftl_page_is_valid, Valid,
            CountInv, Control, RunInv
    <2>3. NFree \in 0 .. NPages /\ IsRun(flash, cur, NFree)
      BY <1>FormatNext, <2>1, <2>2, FreeHas DEF FormatNext, NFree, RunInv
    <2>4. NFree \in 1 .. NPages /\ NFree - 1 \in 0 .. NPages
      BY <1>FormatNext, <2>1, <2>2, <2>3, FreeHas, Sizes
         DEF FormatNext, NFree, IsRun
    <2>5. Valid(flash', target.page) /\ flash'[target.page].seq = NextSeq(flash[cur].seq)
      BY <1>FormatNext, <2>1, <2>2, <2>3, <2>4, HeaderWritten, HeaderKeeps
         DEF FormatNext, FormatAs, Valid, TypeOK
    <2>6. \A q \in Pages \ {target.page} : /\ Valid(flash', q) <=> Valid(flash, q)
            /\ flash'[q].seq = flash[q].seq /\ flash'[q].end = flash[q].end
      BY <1>FormatNext, <2>1, <2>2, <2>3, <2>4, <2>5, HeaderWritten, HeaderKeeps
         DEF FormatNext, FormatAs, Valid, TypeOK
    <2>7. IsRun(flash', cur', NFree - 1)
      BY <1>FormatNext, <2>1, <2>2, <2>3, <2>4, <2>5, <2>6, RunOpened
         DEF FormatNext, TypeOK
    <2>8. FreeAfter(flash', cur') = NFree - 1 /\ cur' \in Pages
      BY <1>FormatNext, <2>1, <2>2, <2>3, <2>4, <2>5, <2>6, <2>7, RunFree
         DEF FormatNext
    <2>9. Booted' /\ pc' \notin {"clear", "scan", "cell"} /\ target'.next # "write"
      BY <1>FormatNext, <2>1, <2>2, <2>3, <2>4, <2>5, <2>6, <2>7, <2>8
         DEF FormatNext, Booted, FormatAs, NoTarget
    <2> QED
      BY <1>FormatNext, <2>1, <2>2, <2>3, <2>4, <2>5, <2>6, <2>7, <2>8, <2>9
         DEF FormatNext, RunInv, NFree
  <1>FormatFirst. CASE FormatFirst
    <2>1. cur \in Pages /\ cur = 0 /\ target.page = 0 /\ cur' = cur
      BY <1>FormatFirst DEF FormatFirst, TypeOK, LogInv, ScanInv
    <2>2. \A q \in Pages : ~Valid(flash, q)
      BY <1>FormatFirst, <2>1 DEF FormatFirst, CountInv
    <2>3. \A q \in Pages : Valid(flash', q) <=> q = cur
      BY <1>FormatFirst, <2>1, <2>2, HeaderWritten
         DEF FormatFirst, TypeOK, FormatAs, Valid
    <2>4. flash' \in [Pages -> Page]
      BY <1>FormatFirst, <2>1, <2>2, <2>3, TypeStep DEF FormatFirst, TypeOK
    <2>5. IsRun(flash', cur, NPages - 1)
      BY <1>FormatFirst, <2>1, <2>2, <2>3, <2>4, RunFirst DEF FormatFirst
    <2>6. NPages - 1 \in 0 .. NPages
      BY <1>FormatFirst, <2>1, <2>2, <2>3, <2>4, <2>5, Sizes DEF FormatFirst
    <2>7. FreeAfter(flash', cur) = NPages - 1
      BY <1>FormatFirst, <2>1, <2>2, <2>3, <2>4, <2>5, <2>6, RunFree DEF FormatFirst
    <2>8. SomeRun(flash')
      BY <1>FormatFirst, <2>1, <2>2, <2>3, <2>4, <2>5, <2>6, <2>7
         DEF FormatFirst, SomeRun
    <2>9. pc' \in {"cell", "idle"} /\ target' = NoTarget
      BY <1>FormatFirst, <2>1, <2>2, <2>3, <2>4, <2>5, <2>6, <2>7, <2>8
         DEF FormatFirst, FormatAs
    <2> QED
      BY <1>FormatFirst, <2>1, <2>2, <2>3, <2>4, <2>5, <2>6, <2>7, <2>8, <2>9
         DEF FormatFirst, RunInv, NFree, NoTarget, Booted
  <1>Collect. CASE \E t \in GcCalls : Collect(t)
    <2>1. /\ Booted /\ Booted' /\ flash' = flash /\ cur' = cur
          /\ pc' \notin {"clear", "scan", "cell"}
      BY <1>Collect
         DEF Collect, TypeOK, Control, Target, Booted, ram, work, NoTarget
    <2>2. target'.next = "write" => target' = target \/ flash[cur].end # 0
      BY <1>Collect, <2>1 DEF Collect, ram, work, NoTarget
    <2> QED
      BY <1>Collect, <2>1, <2>2 DEF Collect, RunInv, NFree
  <1>CollectPage. CASE CollectPage
    <2>1. /\ Booted /\ Booted' /\ flash' = flash /\ cur' = cur
          /\ pc' \notin {"clear", "scan", "cell"}
      BY <1>CollectPage
         DEF CollectPage, TypeOK, Control, Target, Booted, ram, work, NoTarget
    <2>2. target'.next = "write" => target' = target \/ flash[cur].end # 0
      BY <1>CollectPage, <2>1 DEF CollectPage, ram, work, NoTarget
    <2> QED
      BY <1>CollectPage, <2>1, <2>2 DEF CollectPage, RunInv, NFree
  <1>CollectKey. CASE CollectKey
    <2>1. /\ Booted /\ Booted' /\ flash' = flash /\ cur' = cur
          /\ pc' \notin {"clear", "scan", "cell"}
      BY <1>CollectKey
         DEF CollectKey, TypeOK, Control, Target, Booted, ram, work, NoTarget
    <2>2. target'.next = "write" => target' = target \/ flash[cur].end # 0
      BY <1>CollectKey, <2>1 DEF CollectKey, ram, work, NoTarget
    <2> QED
      BY <1>CollectKey, <2>1, <2>2 DEF CollectKey, RunInv, NFree
  <1>CollectErase. CASE CollectErase
    <2>1. /\ Booted /\ Booted' /\ flash' = flash /\ cur' = cur
          /\ pc' \notin {"clear", "scan", "cell"}
      BY <1>CollectErase
         DEF CollectErase, TypeOK, Control, Target, Booted, ram, work, NoTarget
    <2>2. target'.next = "write" => target' = target \/ flash[cur].end # 0
      BY <1>CollectErase, <2>1 DEF CollectErase, ram, work, NoTarget
    <2> QED
      BY <1>CollectErase, <2>1, <2>2 DEF CollectErase, RunInv, NFree
  <1>CollectRetry. CASE CollectRetry
    <2>1. /\ Booted /\ Booted' /\ flash' = flash /\ cur' = cur
          /\ pc' \notin {"clear", "scan", "cell"}
      BY <1>CollectRetry
         DEF CollectRetry, TypeOK, Control, Target, Booted, ram, work, NoTarget
    <2>2. target'.next = "write" => target' = target \/ flash[cur].end # 0
      BY <1>CollectRetry, <2>1 DEF CollectRetry, ram, work, NoTarget
    <2> QED
      BY <1>CollectRetry, <2>1, <2>2 DEF CollectRetry, RunInv, NFree
  <1>CollectDone. CASE CollectDone
    <2>1. /\ Booted /\ Booted' /\ flash' = flash /\ cur' = cur
          /\ pc' \notin {"clear", "scan", "cell"}
      BY <1>CollectDone
         DEF CollectDone, TypeOK, Control, Target, Booted, ram, work, NoTarget
    <2>2. target'.next = "write" => target' = target \/ flash[cur].end # 0
      BY <1>CollectDone, <2>1 DEF CollectDone, ram, work, NoTarget
    <2> QED
      BY <1>CollectDone, <2>1, <2>2 DEF CollectDone, RunInv, NFree
  <1>ClearAll. CASE ClearAll
    <2>1. /\ Booted /\ flash' = flash /\ cur' = cur /\ pc' = "clear" /\ walk' = walk
          /\ target' = target
      BY <1>ClearAll DEF ClearAll, TypeOK, Control, Target, Booted, ram, work
    <2>2. walk.page = 0 /\ target.next # "write" /\ 0 <= NPages
      BY <1>ClearAll, <2>1, Sizes DEF ClearAll, TypeOK, Control, Target, CountInv
    <2>3. NFree \in 0 .. NPages /\ cur \in Pages
      BY <1>ClearAll, <2>1, <2>2, FreeHas DEF ClearAll, NFree, TypeOK
    <2>4. SomeRun(flash)
      BY <1>ClearAll, <2>1, <2>2, <2>3 DEF ClearAll, SomeRun, RunInv
    <2>5. ~Booted'
      BY <1>ClearAll, <2>1, <2>2, <2>3, <2>4 DEF ClearAll, Booted
    <2> QED
      BY <1>ClearAll, <2>1, <2>2, <2>3, <2>4, <2>5 DEF ClearAll, RunInv, NFree
  <1>ClearPage. CASE ClearPage
    <2>1. /\ walk'.page = walk.page + 1 /\ walk.page \in 0 .. NPages + 1 /\ pc' = "clear"
          /\ target' = target
      BY <1>ClearPage, WalkFields DEF ClearPage, TypeOK, Walk
    <2>2. walk'.page # 0 /\ walk'.page <= NPages /\ ~Booted' /\ target.next # "write"
      BY <1>ClearPage, <2>1, Sizes DEF ClearPage, Booted, TypeOK, Control, Target
    <2> QED
      BY <1>ClearPage, <2>1, <2>2 DEF ClearPage, RunInv, NFree
  <1>ClearReset. CASE ClearReset
    <2>1. \A q \in Pages : ~Valid(flash, q)
      BY <1>ClearReset, Sizes DEF ClearReset, CountInv, Pages
    <2>2. 0 \in Pages /\ NPages \in 0 .. NPages /\ flash \in [Pages -> Page]
      BY <1>ClearReset, <2>1, RingType, Sizes DEF ClearReset, TypeOK
    <2>3. SomeRun(flash)
      BY <1>ClearReset, <2>1, <2>2, RunFirst DEF ClearReset, SomeRun
    <2>4. flash' = flash /\ pc' = "erase" /\ target'.next = "clear" /\ ~Booted'
      BY <1>ClearReset, <2>1, <2>2, <2>3 DEF ClearReset, Booted
    <2> QED
      BY <1>ClearReset, <2>1, <2>2, <2>3, <2>4 DEF ClearReset, RunInv, NFree
  <1>EraseInvalid. CASE EraseInvalid
    <2>1. /\ Booted /\ Booted' /\ flash' = flash /\ cur' = cur
          /\ pc' \notin {"clear", "scan", "cell"}
      BY <1>EraseInvalid
         DEF EraseInvalid, TypeOK, Control, Target, Booted, ram, work, NoTarget
    <2>2. target'.next = "write" => target' = target \/ flash[cur].end # 0
      BY <1>EraseInvalid, <2>1 DEF EraseInvalid, ram, work, NoTarget
    <2> QED
      BY <1>EraseInvalid, <2>1, <2>2 DEF EraseInvalid, RunInv, NFree
  <1>EraseInvalidPage. CASE EraseInvalidPage
    <2>1. /\ Booted /\ Booted' /\ flash' = flash /\ cur' = cur
          /\ pc' \notin {"clear", "scan", "cell"}
      BY <1>EraseInvalidPage
         DEF EraseInvalidPage, TypeOK, Control, Target, Booted, ram, work, NoTarget
    <2>2. target'.next = "write" => target' = target \/ flash[cur].end # 0
      BY <1>EraseInvalidPage, <2>1 DEF EraseInvalidPage, ram, work, NoTarget
    <2> QED
      BY <1>EraseInvalidPage, <2>1, <2>2 DEF EraseInvalidPage, RunInv, NFree
  <1>EraseInvalidDone. CASE EraseInvalidDone
    <2>1. /\ Booted /\ Booted' /\ flash' = flash /\ cur' = cur
          /\ pc' \notin {"clear", "scan", "cell"}
      BY <1>EraseInvalidDone
         DEF EraseInvalidDone, TypeOK, Control, Target, Booted, ram, work, NoTarget
    <2>2. target'.next = "write" => target' = target \/ flash[cur].end # 0
      BY <1>EraseInvalidDone, <2>1 DEF EraseInvalidDone, ram, work, NoTarget
    <2> QED
      BY <1>EraseInvalidDone, <2>1, <2>2 DEF EraseInvalidDone, RunInv, NFree
  <1>PowerLoss. CASE PowerLoss
    <2>1. flash' = flash /\ pc' = "off" /\ target' = NoTarget /\ ~Booted' /\ ~Cleared /\ Intact
      BY <1>PowerLoss DEF PowerLoss, Reset, Intact, Booted
    <2>2. /\ flash \in [Pages -> Page] /\ 0 \in Pages /\ cur \in Pages
          /\ NPages \in 0 .. NPages /\ NFree \in 0 .. NPages
      BY <1>PowerLoss, <2>1, RingType, FreeHas, Sizes DEF PowerLoss, TypeOK, NFree
    <2>3. pc = "clear" /\ walk.page # 0 => \A q \in Pages : ~Valid(flash, q)
      BY <1>PowerLoss, <2>1, <2>2, WalkFields, Sizes
         DEF PowerLoss, Cleared, RunInv, CountInv, TypeOK, Pages
    <2>4. pc = "clear" /\ walk.page # 0 => SomeRun(flash)
      BY <1>PowerLoss, <2>1, <2>2, <2>3, RunFirst DEF PowerLoss, SomeRun
    <2>5. Booted => SomeRun(flash)
      BY <1>PowerLoss, <2>1, <2>2, <2>3, <2>4 DEF PowerLoss, SomeRun, RunInv
    <2>6. SomeRun(flash)
      BY <1>PowerLoss, <2>1, <2>2, <2>3, <2>4, <2>5 DEF PowerLoss, RunInv
    <2> QED
      BY <1>PowerLoss, <2>1, <2>2, <2>3, <2>4, <2>5, <2>6
         DEF PowerLoss, RunInv, NFree, NoTarget
  <1>PowerLossInSector. CASE PowerLossInSector
    <2>1. ~Intact'
      BY <1>PowerLossInSector DEF PowerLossInSector, Intact
    <2> QED
      BY <1>PowerLossInSector, <2>1 DEF PowerLossInSector, RunInv, NFree
  <1>Stutter. CASE UNCHANGED vars
    <2>1. Booted' <=> Booted
      BY <1>Stutter DEF vars, Booted, work
    <2>2. flash' = flash /\ cur' = cur /\ pc' = pc /\ walk' = walk /\ target' = target
      BY <1>Stutter, <2>1 DEF vars, ram, work
    <2> QED
      BY <1>Stutter, <2>1, <2>2 DEF vars, RunInv, NFree, ScanSees
  <1> QED
    BY <1>PowerOn, <1>ScanPage, <1>ScanNone, <1>FindCell, <1>MapKey, <1>MapPrev,
       <1>RecoverNone, <1>Recover, <1>RecoverKey, <1>RecoverDone, <1>Recount, <1>Save,
       <1>WriteData, <1>WriteKey, <1>SetEndPosition, <1>OpenNextPage, <1>PageErase,
       <1>PageMark, <1>FormatNext, <1>FormatFirst, <1>Collect, <1>CollectPage, <1>CollectKey,
       <1>CollectErase, <1>CollectRetry, <1>CollectDone, <1>ClearAll, <1>ClearPage,
       <1>ClearReset,
       <1>EraseInvalid, <1>EraseInvalidPage, <1>EraseInvalidDone, <1>PowerLoss,
       <1>PowerLossInSector,
       <1>Stutter DEF Next, Step, Boot, Append, Format, Gc, Clear, Request

-----------------------------------------------------------------------------
(* The page that is collected or recycled is never the one that is written, in *)
(* an intact ring.  A collection goes on with the next page only when every *)
(* pair of the page before was copied; those copies fill pages of their own,*)
(* so that the used pages do not run out.                                   *)

\* The collector is only asked for while three pages at least are in use.
GcBelow == \A t \in GcCalls : t[1] + 3 <= NPages

\* The cells of the pairs of the page being collected that have been copied.
Moved == PageElement - 1 - walk.key - (IF Appending THEN 2 ELSE 0)

\* A collection that has dropped nothing has three pages in use, of which the
\* current one took the copies made so far, or two and the current one is full.
OldInv ==
    /\ pc = "collect" => NFree + 3 <= NPages
    /\ walk.loop = "gc" /\ ~walk.dropped /\ target.next # "gc" =>
         \/ NFree + 4 <= NPages
         \/ NFree + 3 = NPages /\ free - 2 >= Moved
         \/ NFree + 2 = NPages /\ free = PageElement /\ Moved = 0
    /\ walk.loop = "gc" /\ ~walk.dropped /\ target.next = "gc" =>
         IF pc = "erase" THEN NFree + 4 <= NPages \/ (NFree + 3 = NPages /\ free = PageElement)
                         ELSE NFree + 3 <= NPages \/ (NFree + 2 = NPages /\ free = PageElement)

\* Every step keeps enough pages in use for the collector to go on.
LEMMA OldStep == 
    /\ GcBelow /\ TypeInv /\ LogInv /\ CountInv /\ RoomInv /\ WordsInv /\ RunInv /\ OldInv
    /\ OldestIsNotCurrent /\ Intact' /\ [Next]_vars
    => OldInv' /\ OldestIsNotCurrent'
  <1> SUFFICES ASSUME GcBelow, TypeInv, LogInv, CountInv, RoomInv, WordsInv, RunInv, OldInv,
                      OldestIsNotCurrent, Intact', [Next]_vars
               PROVE  OldInv' /\ OldestIsNotCurrent'
    OBVIOUS
  <1> USE DEF TypeInv
  <1>PowerOn. CASE PowerOn
    <2>1. pc' # "collect" /\ walk'.loop \notin {"gc", "rec"}
      BY <1>PowerOn DEF PowerOn, TypeOK, Control, Target, NoWalk, ram, work, Walk
    <2> QED
      BY <1>PowerOn, <2>1
         DEF PowerOn, OldInv, Moved, Appending, NFree, OldestIsNotCurrent
  <1>ScanPage. CASE ScanPage
    <2>1. pc' # "collect" /\ walk'.loop \notin {"gc", "rec"}
      BY <1>ScanPage DEF ScanPage, TypeOK, Control, Target, NoWalk, ram, work, Walk
    <2> QED
      BY <1>ScanPage, <2>1
         DEF ScanPage, OldInv, Moved, Appending, NFree, OldestIsNotCurrent
  <1>ScanNone. CASE ScanNone
    <2>1. pc' # "collect" /\ walk'.loop \notin {"gc", "rec"}
      BY <1>ScanNone DEF ScanNone, TypeOK, Control, Target, NoWalk, ram, work, Walk
    <2> QED
      BY <1>ScanNone, <2>1
         DEF ScanNone, OldInv, Moved, Appending, NFree, OldestIsNotCurrent
  <1>FindCell. CASE FindCell
    <2>1. pc' # "collect" /\ walk'.loop \notin {"gc", "rec"}
      BY <1>FindCell DEF FindCell, TypeOK, Control, Target, NoWalk, ram, work, Walk
    <2> QED
      BY <1>FindCell, <2>1
         DEF FindCell, OldInv, Moved, Appending, NFree, OldestIsNotCurrent
  <1>MapKey. CASE MapKey
    <2>1. pc' # "collect" /\ walk'.loop \notin {"gc", "rec"}
      BY <1>MapKey DEF MapKey, TypeOK, Control, Target, NoWalk, ram, work, Walk
    <2> QED
      BY <1>MapKey, <2>1
         DEF MapKey, OldInv, Moved, Appending, NFree, OldestIsNotCurrent
  <1>MapPrev. CASE MapPrev
    <2>1. walk' = NoWalk \/ walk'.loop = walk.loop
      BY <1>MapPrev DEF MapPrev, TypeOK, Walk
    <2>2. walk.loop = "map" /\ pc' # "collect"
      BY <1>MapPrev, <2>1 DEF MapPrev, Control
    <2> QED
      BY <1>MapPrev, <2>1, <2>2
         DEF MapPrev, OldInv, Moved, Appending, NFree, OldestIsNotCurrent, NoWalk
  <1>RecoverNone. CASE RecoverNone
    <2>1. pc' # "collect" /\ walk'.loop \notin {"gc", "rec"}
      BY <1>RecoverNone
         DEF RecoverNone, TypeOK, Control, Target, NoWalk, ram, work, Walk
    <2> QED
      BY <1>RecoverNone, <2>1
         DEF RecoverNone, OldInv, Moved, Appending, NFree, OldestIsNotCurrent
  <1>Recover. CASE Recover
    <2>1. ftl_page_get_oldest = NextPage(cur) /\ NextPage(cur) # cur
      BY <1>Recover, OldestAt, FreePages, AtRing DEF Recover, TypeOK
    <2>2. pc' # "collect" /\ walk'.loop = "rec" /\ walk'.page # cur' /\ cur' = cur
      BY <1>Recover, <2>1 DEF Recover, NoWalk, ram
    <2> QED
      BY <1>Recover, <2>1, <2>2
         DEF Recover, OldInv, Moved, Appending, NFree, OldestIsNotCurrent
  <1>RecoverKey. CASE RecoverKey
    <2>1. /\ pc' # "collect" /\ walk'.loop = "rec" /\ walk.loop = "rec"
          /\ walk'.page = walk.page /\ cur' = cur
      BY <1>RecoverKey DEF RecoverKey, Walk, ram, TypeOK, Control, Target
    <2> QED
      BY <1>RecoverKey, <2>1
         DEF RecoverKey, OldInv, Moved, Appending, NFree, OldestIsNotCurrent,
            LogInv, CurrentInv, Booted, TypeOK, Control, Target
  <1>RecoverDone. CASE RecoverDone
    <2>1. pc' # "collect" /\ walk'.loop \notin {"gc", "rec"}
      BY <1>RecoverDone
         DEF RecoverDone, TypeOK, Control, Target, NoWalk, ram, work, Walk
    <2> QED
      BY <1>RecoverDone, <2>1
         DEF RecoverDone, OldInv, Moved, Appending, NFree, OldestIsNotCurrent
  <1>Recount. CASE Recount
    <2>1. pc' # "collect" /\ walk'.loop \notin {"gc", "rec"}
      BY <1>Recount DEF Recount, TypeOK, Control, Target, NoWalk, ram, work, Walk
    <2> QED
      BY <1>Recount, <2>1
         DEF Recount, OldInv, Moved, Appending, NFree, OldestIsNotCurrent
  <1>Save. CASE \E s \in Saves : Save(s[1], s[2])
    <2>1. pc' # "collect" /\ walk'.loop \notin {"gc", "rec"}
      BY <1>Save DEF Save, TypeOK, Control, Target, NoWalk, ram, work, Walk
    <2> QED
      BY <1>Save, <2>1 DEF Save, OldInv, Moved, Appending, NFree, OldestIsNotCurrent
  <1>WriteData. CASE WriteData
    <2>1. cur \in Pages /\ free \in Cells /\ free + 1 \in Cells
      BY <1>WriteData, Sizes
         DEF WriteData, Room, Cells, INFO_size, TypeOK, Control, Target
    <2>2. \A q \in Pages : Valid(flash', q) <=> Valid(flash, q)
      BY <1>WriteData, <2>1, WordWritten
         DEF WriteData, Valid, TypeOK, Control, Target
    <2>3. FreeAfter(flash', cur) = FreeAfter(flash, cur)
      BY <1>WriteData, <2>1, <2>2, FreeSame DEF WriteData
    <2>4. target.next = "none" /\ target' = target /\ cur' = cur /\ walk' = walk /\ pc # "erase"
      BY <1>WriteData, <2>1, <2>2, <2>3
         DEF WriteData, ram, work, TypeOK, Control, Target
    <2>5. OldestIsNotCurrent'
      BY <1>WriteData, <2>1, <2>2, <2>3, <2>4
         DEF WriteData, LogInv, CurrentInv, Booted, OldestIsNotCurrent, TypeOK,
            Control, Target
    <2>6. free' = free /\ pc' = "key" /\ Appending /\ Appending'
      BY <1>WriteData, <2>1, <2>2, <2>3, <2>4, <2>5 DEF WriteData, ram, Appending
    <2>7. OldInv'
      BY <1>WriteData, <2>1, <2>2, <2>3, <2>4, <2>5, <2>6
         DEF WriteData, OldInv, Moved, NFree
    <2> QED
      BY <1>WriteData, <2>1, <2>2, <2>3, <2>4, <2>5, <2>6, <2>7
         DEF WriteData, OldInv, Moved, Appending, NFree, OldestIsNotCurrent
  <1>WriteKey. CASE WriteKey
    <2>1. cur \in Pages /\ free \in Cells /\ free + 1 \in Cells
      BY <1>WriteKey, Sizes
         DEF WriteKey, Room, Cells, INFO_size, TypeOK, Control, Target
    <2>2. \A q \in Pages : Valid(flash', q) <=> Valid(flash, q)
      BY <1>WriteKey, <2>1, WordWritten DEF WriteKey, Valid, TypeOK, Control, Target
    <2>3. FreeAfter(flash', cur) = FreeAfter(flash, cur)
      BY <1>WriteKey, <2>1, <2>2, FreeSame DEF WriteKey
    <2>4. target.next = "none" /\ target' = target /\ cur' = cur /\ walk' = walk /\ pc # "erase"
      BY <1>WriteKey, <2>1, <2>2, <2>3
         DEF WriteKey, ram, work, TypeOK, Control, Target
    <2>5. OldestIsNotCurrent'
      BY <1>WriteKey, <2>1, <2>2, <2>3, <2>4
         DEF WriteKey, LogInv, CurrentInv, Booted, OldestIsNotCurrent, TypeOK,
            Control, Target
    <2>6. walk.loop = "gc" => pc' = "gc" /\ pc' # "collect" /\ Appending /\ ~Appending'
      BY <1>WriteKey, <2>1, <2>2, <2>3, <2>4, <2>5 DEF WriteKey, Return, Appending
    <2>7. pc' # "collect"
      BY <1>WriteKey, <2>1, <2>2, <2>3, <2>4, <2>5, <2>6
         DEF WriteKey, Return, Walk, Loops, TypeOK
    <2>8. /\ NFree \in 0 .. NPages /\ free \in 2 .. PageElement
          /\ walk.key \in -1 .. PageElement - 1
      BY <1>WriteKey, <2>1, <2>2, <2>3, <2>4, <2>5, <2>6, <2>7, FreeHas, WalkFields
         DEF WriteKey, NFree, TypeOK, INFO_size
    <2>9. free' = free + 2 /\ free # PageElement
      BY <1>WriteKey, <2>1, <2>2, <2>3, <2>4, <2>5, <2>6, <2>7, <2>8, Sizes
         DEF WriteKey, Cells
    <2>10. walk.loop = "gc" => Moved' = Moved + 2
      BY <1>WriteKey, <2>1, <2>2, <2>3, <2>4, <2>5, <2>6, <2>7, <2>8, <2>9, Sizes
         DEF WriteKey, Moved
    <2>11. Moved \in Int
      BY <1>WriteKey, <2>1, <2>2, <2>3, <2>4, <2>5, <2>6, <2>7, <2>8, <2>9, <2>10,
         Sizes
         DEF WriteKey, Moved
    <2>12. OldInv'
      BY <1>WriteKey, <2>1, <2>2, <2>3, <2>4, <2>5, <2>6, <2>7, <2>8, <2>9, <2>10,
         <2>11, Sizes
         DEF WriteKey, OldInv, NFree
    <2> QED
      BY <1>WriteKey, <2>1, <2>2, <2>3, <2>4, <2>5, <2>6, <2>7, <2>8, <2>9, <2>10,
         <2>11, <2>12
         DEF WriteKey, OldInv, Moved, Appending, NFree, OldestIsNotCurrent
  <1>SetEndPosition. CASE SetEndPosition
    <2>1. cur \in Pages
      BY <1>SetEndPosition DEF SetEndPosition, TypeOK, Control, Target
    <2>2. \A q \in Pages : Valid(flash', q) <=> Valid(flash, q)
      BY <1>SetEndPosition, <2>1
         DEF SetEndPosition, Valid, Page, TypeOK, Control, Target
    <2>3. FreeAfter(flash', cur) = FreeAfter(flash, cur)
      BY <1>SetEndPosition, <2>1, <2>2, FreeSame DEF SetEndPosition
    <2>4. /\ target.next = "none" /\ target' = target /\ cur' = cur /\ walk' = walk
          /\ free' = free /\ pc' = pc
      BY <1>SetEndPosition, <2>1, <2>2, <2>3
         DEF SetEndPosition, ram, work, TypeOK, Control, Target
    <2>5. OldestIsNotCurrent'
      BY <1>SetEndPosition, <2>1, <2>2, <2>3, <2>4
         DEF SetEndPosition, LogInv, CurrentInv, Booted, OldestIsNotCurrent, TypeOK,
            Control, Target
    <2>6. OldInv'
      BY <1>SetEndPosition, <2>1, <2>2, <2>3, <2>4, <2>5
         DEF SetEndPosition, OldInv, Moved, NFree, Appending
    <2> QED
      BY <1>SetEndPosition, <2>1, <2>2, <2>3, <2>4, <2>5, <2>6
         DEF SetEndPosition, OldInv, Moved, Appending, NFree, OldestIsNotCurrent
  <1>OpenNextPage. CASE OpenNextPage
    <2>1. /\ flash' = flash /\ cur' = cur /\ walk' = walk /\ free' = free /\ pc' = "erase"
          /\ target'.next = "write" /\ target.next = "none"
      BY <1>OpenNextPage DEF OpenNextPage, ram, work, TypeOK, Control, Target
    <2>2. Appending /\ Appending'
      BY <1>OpenNextPage, <2>1 DEF OpenNextPage, Appending
    <2>3. OldestIsNotCurrent'
      BY <1>OpenNextPage, <2>1, <2>2
         DEF OpenNextPage, LogInv, CurrentInv, Booted, OldestIsNotCurrent, TypeOK,
            Control, Target
    <2>4. OldInv'
      BY <1>OpenNextPage, <2>1, <2>2, <2>3 DEF OpenNextPage, OldInv, Moved, NFree
    <2> QED
      BY <1>OpenNextPage, <2>1, <2>2, <2>3, <2>4
         DEF OpenNextPage, OldInv, Moved, Appending, NFree, OldestIsNotCurrent
  <1>PageErase. CASE PageErase
    <2>1. /\ target.page \in Pages /\ cur \in Pages /\ target' = target /\ cur' = cur
          /\ walk' = walk /\ free' = free /\ pc' \notin {"erase", "collect", "write", "key"}
          /\ flash \in [Pages -> Page] /\ target.next # "none"
      BY <1>PageErase DEF PageErase, TypeOK, Target, ram, work, AfterErase, LogInv, ErasedInv
    <2>2. OldestIsNotCurrent'
      BY <1>PageErase, <2>1
         DEF PageErase, LogInv, CurrentInv, Booted, OldestIsNotCurrent, TypeOK, Control, Target
    <2>3. CASE target.next # "gc"
      <3>1. \A q \in Pages : Valid(flash', q) <=> Valid(flash, q)
        <4>1. ~Valid(flash, target.page)
          BY <2>1, <2>3, <1>PageErase DEF PageErase, CountInv
        <4> QED
          BY <4>1, <2>1, <1>PageErase, PageErased DEF PageErase, Valid
      <3>2. FreeAfter(flash', cur) = FreeAfter(flash, cur)
        BY <3>1, <2>1, FreeSame
      <3>3. Appending' = Appending
        BY <1>PageErase, <2>1 DEF PageErase, Appending
      <3>4. OldInv'
        BY <1>PageErase, <2>1, <2>3, <3>2, <3>3 DEF PageErase, OldInv, Moved, NFree
      <3> QED
        BY <3>4, <2>2
    <2>4. CASE target.next = "gc"
      <3>1. /\ Booted /\ walk.loop = "gc" /\ target.page = walk.page
            /\ walk.page = At(cur, NFree + 1)
        BY <2>4, <1>PageErase DEF PageErase, RoomInv, Control, Booted
      <3>2. target.page # cur /\ Valid(flash, cur)
        BY <3>1, <2>1 DEF LogInv, CurrentInv, ftl_page_is_valid, Valid
      <3>3. NFree \in 0 .. NPages /\ NFree < NPages
        BY <3>2, <2>1, FreeCur, FreeHas DEF NFree
      <3>4. NFree + 1 # NPages
        BY <3>1, <3>2, <2>1, AtRing
      <3>5. NFree \in 0 .. NPages - 2 /\ NFree + 1 \in 0 .. NPages
        BY <3>3, <3>4, Sizes
      <3>6. Valid(flash, target.page)
        BY <3>1, <3>3, FreeHas DEF NFree
      <3>7. flash' = [flash EXCEPT ![target.page] = BlankPage]
        BY <3>6, <1>PageErase DEF PageErase, Valid
      <3>8. ~Valid(flash', target.page) /\ \A q \in Pages \ {target.page} :
              /\ Valid(flash', q) <=> Valid(flash, q)
              /\ flash'[q].seq = flash[q].seq /\ flash'[q].end = flash[q].end
        BY <3>7, <2>1, PageErased DEF Valid
      <3>9. FreeAfter(flash', cur) = NFree + 1
        <4>1. IsRun(flash', cur, NFree + 1)
          BY <3>1, <3>5, <3>8, <2>1, RunRemoved DEF RunInv
        <4> QED
          BY <4>1, <3>5, <2>1, RunFree
      <3>10. OldInv'
        BY <1>PageErase, <2>1, <2>4, <3>1, <3>5, <3>9, Sizes DEF PageErase, OldInv, NFree
      <3> QED
        BY <3>10, <2>2
    <2> QED
      BY <2>3, <2>4
  <1>PageMark. CASE PageMark
    <2>1. /\ target.page \in Pages /\ cur \in Pages /\ target' = target /\ cur' = cur
          /\ walk' = walk /\ free' = free /\ pc' \notin {"erase", "collect", "write", "key"}
      BY <1>PageMark DEF PageMark, ram, work, AfterErase, TypeOK, Control, Target
    <2>2. ~Valid(flash, target.page)
      BY <1>PageMark, <2>1 DEF PageMark, CountInv, LogInv, ErasedInv
    <2>3. \A q \in Pages : Valid(flash', q) <=> Valid(flash, q)
      BY <1>PageMark, <2>1, <2>2, MarkWritten DEF PageMark, Valid, TypeOK
    <2>4. FreeAfter(flash', cur) = FreeAfter(flash, cur)
      BY <1>PageMark, <2>1, <2>2, <2>3, FreeSame DEF PageMark
    <2>5. OldestIsNotCurrent'
      BY <1>PageMark, <2>1, <2>2, <2>3, <2>4
         DEF PageMark, LogInv, CurrentInv, Booted, OldestIsNotCurrent, TypeOK,
            Control, Target
    <2>6. Appending' = Appending
      BY <1>PageMark, <2>1, <2>2, <2>3, <2>4, <2>5 DEF PageMark, Appending
    <2>7. OldInv'
      BY <1>PageMark, <2>1, <2>2, <2>3, <2>4, <2>5, <2>6
         DEF PageMark, OldInv, Moved, NFree
    <2> QED
      BY <1>PageMark, <2>1, <2>2, <2>3, <2>4, <2>5, <2>6, <2>7
         DEF PageMark, OldInv, Moved, Appending, NFree, OldestIsNotCurrent
  <1>FormatNext. CASE FormatNext
    <2>1. cur \in Pages /\ target.page \in Pages /\ target.page = At(cur, 1)
      BY <1>FormatNext, AtRing DEF FormatNext, TypeOK, Target, CountInv
    <2>2. Valid(flash, cur) /\ ~Valid(flash, At(cur, 1)) /\ walk.loop \in {"none", "gc", "rec"}
      BY <1>FormatNext, <2>1
         DEF FormatNext, LogInv, CurrentInv, Booted, ftl_page_is_valid, Valid,
            CountInv, Control, Counted, RoomInv, Appending
    <2>3. \A q \in Pages : Valid(flash', q) <=> (Valid(flash, q) \/ q = At(cur, 1))
      BY <1>FormatNext, <2>1, <2>2, HeaderWritten
         DEF FormatNext, TypeOK, FormatAs, Valid
    <2>4. /\ FreeAfter(flash, cur) \in 1 .. NPages - 1
          /\ FreeAfter(flash', cur') = FreeAfter(flash, cur) - 1
      BY <1>FormatNext, <2>1, <2>2, <2>3, FreeOpened DEF FormatNext
    <2>5. freeCount = FreeAfter(flash, cur) => freeCount' = freeCount - 1
      BY <1>FormatNext, <2>1, <2>2, <2>3, <2>4, ByteDown, Sizes
         DEF FormatNext, FormatAs
    <2>6. /\ walk' = walk /\ free' = 2 /\ target'.next = "none" /\ target.next = "write"
          /\ pc = "format"
      BY <1>FormatNext, <2>1, <2>2, <2>3, <2>4, <2>5
         DEF FormatNext, FormatAs, NoTarget, INFO_size
    <2>7. OldestIsNotCurrent'
      BY <1>FormatNext, <2>1, <2>2, <2>3, <2>4, <2>5, <2>6
         DEF FormatNext, LogInv, CurrentInv, Booted, OldestIsNotCurrent, TypeOK,
            Control, Target
    <2>8. walk.loop # "none" => pc' = "write" \/ walk.loop = "rec"
      BY <1>FormatNext, <2>1, <2>2, <2>3, <2>4, <2>5, <2>6, <2>7
         DEF FormatNext, MustCollect
    <2>9. walk.loop # "rec"
      BY <1>FormatNext, <2>1, <2>2, <2>3, <2>4, <2>5, <2>6, <2>7, <2>8
         DEF FormatNext, LogInv, CurrentInv, Booted
    <2>10. pc' = "collect" => walk.loop = "none" /\ freeCount' = 0
      BY <1>FormatNext, <2>1, <2>2, <2>3, <2>4, <2>5, <2>6, <2>7, <2>8, <2>9
         DEF FormatNext, MustCollect
    <2>11. pc' = "collect" => NFree' = 0
      BY <1>FormatNext, <2>1, <2>2, <2>3, <2>4, <2>5, <2>6, <2>7, <2>8, <2>9, <2>10,
         Sizes
         DEF FormatNext, NFree, CountInv, Counted
    <2>12. Appending /\ (walk.loop = "gc" => Appending' /\ Moved' = Moved)
      BY <1>FormatNext, <2>1, <2>2, <2>3, <2>4, <2>5, <2>6, <2>7, <2>8, <2>9, <2>10,
         <2>11
         DEF FormatNext, Appending, Moved
    <2>13. NFree' = NFree - 1 /\ NFree \in 1 .. NPages
      BY <1>FormatNext, <2>1, <2>2, <2>3, <2>4, <2>5, <2>6, <2>7, <2>8, <2>9, <2>10,
         <2>11, <2>12, Sizes
         DEF FormatNext, NFree
    <2>14. OldInv'
      BY <1>FormatNext, <2>1, <2>2, <2>3, <2>4, <2>5, <2>6, <2>7, <2>8, <2>9, <2>10,
         <2>11, <2>12, <2>13, Sizes
         DEF FormatNext, OldInv
    <2> QED
      BY <1>FormatNext, <2>1, <2>2, <2>3, <2>4, <2>5, <2>6, <2>7, <2>8, <2>9, <2>10,
         <2>11, <2>12, <2>13, <2>14
         DEF FormatNext, OldInv, Moved, Appending, NFree, OldestIsNotCurrent
  <1>FormatFirst. CASE FormatFirst
    <2>1. pc' # "collect" /\ walk'.loop \notin {"gc", "rec"}
      BY <1>FormatFirst
         DEF FormatFirst, TypeOK, Control, Target, NoWalk, ram, work, Walk
    <2> QED
      BY <1>FormatFirst, <2>1
         DEF FormatFirst, OldInv, Moved, Appending, NFree, OldestIsNotCurrent
  <1>Collect. CASE \E t \in GcCalls : Collect(t)
    <2>1. PICK t \in GcCalls : Collect(t)
      BY <1>Collect
    <2>2. t[1] \in Nat /\ t[1] + 3 <= NPages
      BY CallAssumption DEF GcBelow
    <2>3. NFree \in 0 .. NPages /\ NFree <= t[1]
      BY <2>1, FreeHas DEF Collect, CountInv, Counted, NFree, Control
    <2>4. NFree + 3 <= NPages
      BY <2>2, <2>3, Sizes
    <2>5. walk.loop = "none" /\ flash' = flash /\ cur' = cur /\ walk' = walk
      BY <2>1 DEF Collect, Control, ram, work
    <2> QED
      BY <2>4, <2>5 DEF OldInv, NFree, OldestIsNotCurrent
  <1>CollectPage. CASE CollectPage
    <2>1. NFree + 3 <= NPages /\ NFree \in 0 .. NPages /\ cur \in Pages
      BY <1>CollectPage, FreeHas DEF CollectPage, OldInv, NFree, TypeOK
    <2>2. /\ NFree + 1 \in 1 .. NPages - 1 /\ NFree + 1 \in 1 .. NPages
          /\ NPages \in 1 .. NPages /\ NFree + 1 # NPages
      BY <2>1, Sizes
    <2>3. ftl_page_get_oldest = At(cur, NFree + 1)
      BY <2>1, OldestAt DEF NFree
    <2>4. At(cur, NFree + 1) \in Pages /\ At(cur, NFree + 1) # cur
      <3>1. NFree + 1 \in 0 .. NPages
        BY <2>2, Sizes
      <3>2. At(cur, NPages) = cur
        BY <2>1, AtRing
      <3>3. At(cur, NFree + 1) = At(cur, NPages) => NFree + 1 = NPages
        BY <2>1, <2>2, AtRing
      <3> QED
        BY <3>1, <3>2, <3>3, <2>1, <2>2, AtRing
    <2>5. flash[At(cur, NFree + 1)].end = PageElement - 1
      <3>1. Booted
        BY <1>CollectPage DEF CollectPage, Booted, Control
      <3>2. NFree + 1 > NFree
        BY <2>1
      <3>3. flash[At(cur, NFree + 1)].end # 0
        BY <3>1, <3>2, <2>2 DEF RunInv, IsRun
      <3> QED
        BY <3>3, <2>4 DEF WordsInv, PageWords
    <2>6. walk'.loop = "gc" /\ walk'.page = At(cur, NFree + 1) /\ walk'.key = PageElement - 1
      BY <1>CollectPage, <2>3, <2>5, Sizes DEF CollectPage, LastKey
    <2>7. /\ flash' = flash /\ cur' = cur /\ free' = free /\ target' = target /\ pc' = "gc"
          /\ target.next = "none"
      BY <1>CollectPage DEF CollectPage, ram, Control, TypeOK, Target
    <2>8. ~Appending' /\ free \in 2 .. PageElement
      BY <2>7 DEF Appending, TypeOK, INFO_size
    <2>9. OldInv'
      BY <2>1, <2>6, <2>7, <2>8, Sizes DEF OldInv, Moved, NFree
    <2> QED
      BY <2>4, <2>6, <2>7, <2>9 DEF OldestIsNotCurrent
  <1>CollectKey. CASE CollectKey
    <2>1. /\ walk'.loop = "gc" /\ walk.loop = "gc" /\ walk'.page = walk.page
          /\ walk'.key = walk.key - 2 /\ walk.key \in 3 .. PageElement - 1
      BY <1>CollectKey, WalkFields DEF CollectKey, Walk, TypeOK, Control, Target
    <2>2. /\ flash' = flash /\ cur' = cur /\ free' = free /\ target' = target
          /\ target.next = "none"
      BY <1>CollectKey, <2>1 DEF CollectKey, ram, NoTarget
    <2>3. ~walk'.dropped => ~walk.dropped /\ pc' = "write"
      BY <1>CollectKey, <2>1, <2>2 DEF CollectKey, TypeOK, Walk
    <2>4. OldestIsNotCurrent'
      BY <1>CollectKey, <2>1, <2>2, <2>3
         DEF CollectKey, LogInv, CurrentInv, Booted, OldestIsNotCurrent, TypeOK,
            Control, Target
    <2>5. ~Appending
      BY <1>CollectKey, <2>1, <2>2, <2>3, <2>4 DEF CollectKey, Appending
    <2>6. ~walk'.dropped => Appending' /\ Moved' = Moved
      BY <1>CollectKey, <2>1, <2>2, <2>3, <2>4, <2>5, Sizes
         DEF CollectKey, Appending, Moved
    <2>7. pc' # "collect"
      BY <1>CollectKey, <2>1, <2>2, <2>3, <2>4, <2>5, <2>6 DEF CollectKey
    <2>8. OldInv'
      BY <1>CollectKey, <2>1, <2>2, <2>3, <2>4, <2>5, <2>6, <2>7
         DEF CollectKey, OldInv, NFree
    <2> QED
      BY <1>CollectKey, <2>1, <2>2, <2>3, <2>4, <2>5, <2>6, <2>7, <2>8
         DEF CollectKey, OldInv, Moved, Appending, NFree, OldestIsNotCurrent
  <1>CollectErase. CASE CollectErase
    <2>1. walk' = walk /\ walk.loop = "gc" /\ walk.key \in -1 .. PageElement - 1 /\ walk.key < 3
      BY <1>CollectErase, WalkFields DEF CollectErase, TypeOK, Control, Target
    <2>2. /\ flash' = flash /\ cur' = cur /\ free' = free /\ target'.next = "gc"
          /\ target.next = "none" /\ pc' = "erase"
      BY <1>CollectErase, <2>1 DEF CollectErase, ram, NoTarget
    <2>3. OldestIsNotCurrent'
      BY <1>CollectErase, <2>1, <2>2
         DEF CollectErase, LogInv, CurrentInv, Booted, OldestIsNotCurrent, TypeOK,
            Control, Target
    <2>4. ~Appending
      BY <1>CollectErase, <2>1, <2>2, <2>3 DEF CollectErase, Appending
    <2>5. free \in 2 .. PageElement /\ ~Odd(free)
      BY <1>CollectErase, <2>1, <2>2, <2>3, <2>4
         DEF CollectErase, TypeOK, INFO_size, WordsInv, Booted, Control, Target
    <2>6. Moved >= PageElement - 3 /\ Moved \in Int
      BY <1>CollectErase, <2>1, <2>2, <2>3, <2>4, <2>5, Sizes
         DEF CollectErase, Moved
    <2>7. free - 2 >= Moved => free = PageElement
      BY <1>CollectErase, <2>1, <2>2, <2>3, <2>4, <2>5, <2>6, PageAssumption
         DEF CollectErase, Odd
    <2>8. Moved # 0
      BY <1>CollectErase, <2>1, <2>2, <2>3, <2>4, <2>5, <2>6, <2>7, PageAssumption
         DEF CollectErase
    <2>9. OldInv'
      BY <1>CollectErase, <2>1, <2>2, <2>3, <2>4, <2>5, <2>6, <2>7, <2>8, Sizes
         DEF CollectErase, OldInv, NFree
    <2> QED
      BY <1>CollectErase, <2>1, <2>2, <2>3, <2>4, <2>5, <2>6, <2>7, <2>8, <2>9
         DEF CollectErase, OldInv, Moved, Appending, NFree, OldestIsNotCurrent
  <1>CollectRetry. CASE CollectRetry
    <2>1. walk.loop = "gc" /\ target.next = "gc" /\ pc = "gc" /\ ~walk.dropped
      BY <1>CollectRetry DEF CollectRetry, Control
    <2>2. NFree + 3 <= NPages \/ (NFree + 2 = NPages /\ free = PageElement)
      BY <2>1 DEF OldInv
    <2>3. NFree \in 0 .. NPages /\ cur \in Pages
      BY FreeHas DEF NFree, TypeOK
    <2>4. /\ NFree + 1 \in 1 .. NPages - 1 /\ NFree + 1 \in 1 .. NPages
          /\ NPages \in 1 .. NPages /\ NFree + 1 # NPages
      BY <2>2, <2>3, Sizes
    <2>5. ftl_page_get_oldest = At(cur, NFree + 1)
      BY <2>3, OldestAt DEF NFree
    <2>6. At(cur, NFree + 1) \in Pages /\ At(cur, NFree + 1) # cur
      <3>1. NFree + 1 \in 0 .. NPages
        BY <2>4, Sizes
      <3>2. At(cur, NPages) = cur
        BY <2>3, AtRing
      <3>3. At(cur, NFree + 1) = At(cur, NPages) => NFree + 1 = NPages
        BY <2>3, <2>4, AtRing
      <3> QED
        BY <3>1, <3>2, <3>3, <2>3, <2>4, AtRing
    <2>7. flash[At(cur, NFree + 1)].end = PageElement - 1
      <3>1. Booted
        BY <2>1 DEF Booted
      <3>2. NFree + 1 > NFree
        BY <2>3
      <3>3. flash[At(cur, NFree + 1)].end # 0
        BY <3>1, <3>2, <2>4 DEF RunInv, IsRun
      <3> QED
        BY <3>3, <2>6 DEF WordsInv, PageWords
    <2>8. walk'.loop = "gc" /\ walk'.page = At(cur, NFree + 1) /\ walk'.key = PageElement - 1
      BY <1>CollectRetry, <2>1, <2>5, <2>7, Sizes DEF CollectRetry, LastKey, TypeOK, Walk
    <2>9. flash' = flash /\ cur' = cur /\ free' = free /\ target'.next = "none" /\ pc' = pc
      BY <1>CollectRetry DEF CollectRetry, ram, NoTarget
    <2>10. Moved' = 0 /\ free \in 2 .. PageElement
      <3>1. ~(pc' \in {"write", "key"} \/ target'.next = "write")
        BY <2>1, <2>9
      <3>2. Moved' = PageElement - 1 - walk'.key - 0
        BY <3>1 DEF Moved, Appending
      <3>3. PageElement - 1 - (PageElement - 1) - 0 = 0
        BY Sizes
      <3> QED
        BY <2>8, <3>2, <3>3 DEF TypeOK, INFO_size
    <2>11. OldInv'
      BY <2>1, <2>2, <2>3, <2>8, <2>9, <2>10, Sizes DEF OldInv, NFree
    <2> QED
      BY <2>6, <2>8, <2>9, <2>11 DEF OldestIsNotCurrent
  <1>CollectDone. CASE CollectDone
    <2>1. pc' # "collect" /\ walk'.loop \notin {"gc", "rec"}
      BY <1>CollectDone
         DEF CollectDone, TypeOK, Control, Target, NoWalk, ram, work, Walk
    <2> QED
      BY <1>CollectDone, <2>1
         DEF CollectDone, OldInv, Moved, Appending, NFree, OldestIsNotCurrent
  <1>ClearAll. CASE ClearAll
    <2>1. pc' # "collect" /\ walk'.loop \notin {"gc", "rec"}
      BY <1>ClearAll DEF ClearAll, TypeOK, Control, Target, NoWalk, ram, work, Walk
    <2> QED
      BY <1>ClearAll, <2>1
         DEF ClearAll, OldInv, Moved, Appending, NFree, OldestIsNotCurrent
  <1>ClearPage. CASE ClearPage
    <2>1. pc' # "collect" /\ walk'.loop \notin {"gc", "rec"}
      BY <1>ClearPage
         DEF ClearPage, TypeOK, Control, Target, NoWalk, ram, work, Walk
    <2> QED
      BY <1>ClearPage, <2>1
         DEF ClearPage, OldInv, Moved, Appending, NFree, OldestIsNotCurrent
  <1>ClearReset. CASE ClearReset
    <2>1. pc' # "collect" /\ walk'.loop \notin {"gc", "rec"}
      BY <1>ClearReset
         DEF ClearReset, TypeOK, Control, Target, NoWalk, ram, work, Walk
    <2> QED
      BY <1>ClearReset, <2>1
         DEF ClearReset, OldInv, Moved, Appending, NFree, OldestIsNotCurrent
  <1>EraseInvalid. CASE EraseInvalid
    <2>1. pc' # "collect" /\ walk'.loop \notin {"gc", "rec"}
      BY <1>EraseInvalid
         DEF EraseInvalid, TypeOK, Control, Target, NoWalk, ram, work, Walk
    <2> QED
      BY <1>EraseInvalid, <2>1
         DEF EraseInvalid, OldInv, Moved, Appending, NFree, OldestIsNotCurrent
  <1>EraseInvalidPage. CASE EraseInvalidPage
    <2>1. pc' # "collect" /\ walk'.loop \notin {"gc", "rec"}
      BY <1>EraseInvalidPage
         DEF EraseInvalidPage, TypeOK, Control, Target, NoWalk, ram, work, Walk
    <2> QED
      BY <1>EraseInvalidPage, <2>1
         DEF EraseInvalidPage, OldInv, Moved, Appending, NFree, OldestIsNotCurrent
  <1>EraseInvalidDone. CASE EraseInvalidDone
    <2>1. pc' # "collect" /\ walk'.loop \notin {"gc", "rec"}
      BY <1>EraseInvalidDone
         DEF EraseInvalidDone, TypeOK, Control, Target, NoWalk, ram, work, Walk
    <2> QED
      BY <1>EraseInvalidDone, <2>1
         DEF EraseInvalidDone, OldInv, Moved, Appending, NFree, OldestIsNotCurrent
  <1>PowerLoss. CASE PowerLoss
    <2>1. pc' # "collect" /\ walk'.loop \notin {"gc", "rec"}
      BY <1>PowerLoss
         DEF PowerLoss, TypeOK, Control, Target, NoWalk, ram, work, Walk, Reset
    <2> QED
      BY <1>PowerLoss, <2>1
         DEF PowerLoss, OldInv, Moved, Appending, NFree, OldestIsNotCurrent
  <1>PowerLossInSector. CASE PowerLossInSector
    <2>1. pc' # "collect" /\ walk'.loop \notin {"gc", "rec"}
      BY <1>PowerLossInSector
         DEF PowerLossInSector, TypeOK, Control, Target, NoWalk, ram, work, Walk,
            Reset
    <2> QED
      BY <1>PowerLossInSector, <2>1
         DEF PowerLossInSector, OldInv, Moved, Appending, NFree, OldestIsNotCurrent
  <1>Stutter. CASE UNCHANGED vars
    BY <1>Stutter
       DEF vars, OldInv, Moved, Appending, NFree, OldestIsNotCurrent, ram, work
  <1> QED
    BY <1>PowerOn, <1>ScanPage, <1>ScanNone, <1>FindCell, <1>MapKey, <1>MapPrev,
       <1>RecoverNone, <1>Recover, <1>RecoverKey, <1>RecoverDone, <1>Recount, <1>Save,
       <1>WriteData, <1>WriteKey, <1>SetEndPosition, <1>OpenNextPage, <1>PageErase,
       <1>PageMark, <1>FormatNext, <1>FormatFirst, <1>Collect, <1>CollectPage, <1>CollectKey,
       <1>CollectErase, <1>CollectRetry, <1>CollectDone, <1>ClearAll, <1>ClearPage,
       <1>ClearReset,
       <1>EraseInvalid, <1>EraseInvalidPage, <1>EraseInvalidDone, <1>PowerLoss,
       <1>PowerLossInSector,
       <1>Stutter DEF Next, Step, Boot, Append, Format, Gc, Clear, Request

\* What holds of a ring no power loss has broken.
RingInv == LogInv /\ CountInv /\ RoomInv /\ WordsInv /\ RunInv /\ OldInv /\ OldestIsNotCurrent

\* It holds initially: nothing is written, no page is valid, nothing runs.
LEMMA RingInit == Init => RingInv
  <1> SUFFICES ASSUME Init PROVE RingInv
    OBVIOUS
  <1>1. LogInv /\ CountInv /\ RoomInv
    BY LogInit, RoomInit
  <1>2. flash = [p \in Pages |-> BlankPage] /\ pc = "off" /\ walk = NoWalk /\ target = NoTarget
    BY DEF Init
  <1>3. ~Booted
    BY <1>2 DEF Booted
  <1>4. WordsInv
    <2>1. \A p \in Pages : PageWords(flash[p].word, flash[p].end, 0)
      BY <1>2, WordsBlank DEF BlankPage
    <2>2. \A p \in Pages : OpenCell(p) = 0
      BY <1>2 DEF OpenCell
    <2> QED
      BY <1>2, <1>3, <2>1, <2>2 DEF WordsInv
  <1>5. RunInv
    <2>1. \A p \in Pages : ~Valid(flash, p)
      BY <1>2 DEF BlankPage, Valid
    <2>2. flash \in [Pages -> Page] /\ 0 \in Pages /\ NPages \in 0 .. NPages
      BY <1>2, BlankPageType, RingType, Sizes
    <2>3. SomeRun(flash)
      BY <2>1, <2>2, RunFirst DEF SomeRun
    <2> QED
      BY <1>2, <1>3, <2>3 DEF RunInv, NoTarget
  <1>6. OldInv /\ OldestIsNotCurrent
    BY <1>2 DEF OldInv, OldestIsNotCurrent, NoWalk
  <1> QED
    BY <1>1, <1>4, <1>5, <1>6 DEF RingInv

\* What is broken stays broken.
LEMMA DamageStays == [Next]_vars /\ Intact' => Intact
  BY DEF Next, Step, Boot, Append, Format, Gc, Clear, Request, vars, Intact,
         PowerOn, ScanPage, ScanNone, FindCell, MapKey, MapPrev, RecoverNone, Recover,
         RecoverKey, RecoverDone, Recount, Save, WriteData, WriteKey, SetEndPosition,
         OpenNextPage, PageErase, PageMark, FormatNext, FormatFirst, Collect, CollectPage,
         CollectKey, CollectErase, CollectRetry, CollectDone, ClearAll, ClearPage, ClearReset,
         EraseInvalid, EraseInvalidPage, EraseInvalidDone, PowerLoss, PowerLossInSector

\* Every step keeps it.
LEMMA RingStep ==
    GcBelow /\ TypeInv /\ RingInv /\ Intact' /\ [Next]_vars => RingInv'
  <1> SUFFICES ASSUME GcBelow, TypeInv, RingInv, Intact', [Next]_vars PROVE RingInv'
    OBVIOUS
  <1>1. LogInv /\ CountInv /\ RoomInv /\ WordsInv /\ RunInv /\ OldInv /\ OldestIsNotCurrent
    BY DEF RingInv
  <1>2. OldInv' /\ OldestIsNotCurrent'
    BY <1>1, OldStep
  <1>3. LogInv'
    BY <1>1, <1>2, ErasedStep, ScanStep, CurrentStep DEF LogInv
  <1>4. CountInv' /\ RoomInv' /\ WordsInv' /\ RunInv'
    BY <1>1, CountStep, RoomStep, WordsStep, RunStep
  <1> QED
    BY <1>2, <1>3, <1>4 DEF RingInv

\* So that it holds as long as no power loss breaks the ring.
LEMMA RingInvariant == ASSUME GcBelow PROVE Spec => [](Intact => RingInv)
  <1>1. TypeInv /\ (Intact => RingInv) /\ [Next]_vars => (Intact => RingInv)'
    BY RingStep, DamageStays
  <1> QED
    BY TypeInvariant, RingInit, <1>1, PTL DEF Spec

\* FTL_ASSERT(OldestPage != g_cur_pageID): on every ring no power loss has
\* broken, whoever asks for a collection while three pages are in use and
\* wherever power fails, the page that is collected or recycled is not the one
\* that is written.
THEOREM CollectedIsNotCurrent == ASSUME GcBelow PROVE Spec => [](Intact => OldestIsNotCurrent)
  <1>1. (Intact => RingInv) => (Intact => OldestIsNotCurrent)
    BY DEF RingInv
  <1> QED
    BY RingInvariant, <1>1, PTL

\* A ring that a power loss broke stays off.
LEMMA BrokenIsOff ==
    ASSUME ~RestartBroken PROVE Spec => [](Intact \/ (pc = "off" /\ walk = NoWalk))
  <1> DEFINE Off == Intact \/ (pc = "off" /\ walk = NoWalk)
  <1>1. Init => Off
    BY DEF Init, Intact
  <1>2. TypeInv /\ Off /\ [Next]_vars => Off'
    <2> SUFFICES ASSUME TypeInv, Off, [Next]_vars PROVE Off'
      OBVIOUS
    <2>1. CASE Intact
      <3>1. damage' = damage \/ (pc' = "off" /\ walk' = NoWalk)
        BY DEF Next, Step, Boot, Append, Format, Gc, Clear, Request, vars, Reset,
           PowerOn, ScanPage, ScanNone, FindCell, MapKey, MapPrev, RecoverNone, Recover,
           RecoverKey, RecoverDone, Recount, Save, WriteData, WriteKey, SetEndPosition,
           OpenNextPage, PageErase, PageMark, FormatNext, FormatFirst, Collect, CollectPage,
           CollectKey, CollectErase, CollectRetry, CollectDone, ClearAll, ClearPage, ClearReset,
           EraseInvalid, EraseInvalidPage, EraseInvalidDone, PowerLoss, PowerLossInSector
      <3> QED
        BY <2>1, <3>1 DEF Intact
    <2>2. CASE ~Intact
      <3>1. pc = "off"
        BY <2>2
      <3>2. UNCHANGED vars
        BY <2>2, <3>1
           DEF Next, Step, Boot, Append, Format, Gc, Clear, Request, vars, Intact,
           PowerOn, ScanPage, ScanNone, FindCell, MapKey, MapPrev, RecoverNone, Recover,
           RecoverKey, RecoverDone, Recount, Save, WriteData, WriteKey, SetEndPosition,
           OpenNextPage, PageErase, PageMark, FormatNext, FormatFirst, Collect, CollectPage,
           CollectKey, CollectErase, CollectRetry, CollectDone, ClearAll, ClearPage, ClearReset,
           EraseInvalid, EraseInvalidPage, EraseInvalidDone, PowerLoss, PowerLossInSector
      <3> QED
        BY <2>2, <3>2 DEF vars, work, Intact
    <2> QED
      BY <2>1, <2>2
  <1> QED
    BY TypeInvariant, <1>1, <1>2, PTL DEF Spec

\* Together: where a broken ring is not booted again, nothing is assumed of the
\* behaviour any more. The collected page is not the current one, words are only
\* written where flash is blank, the count of free pages is exact and a save
\* finds room, on every ring, for any saves and power losses.
THEOREM IntactRingIsSafe ==
    ASSUME GcBelow, ~RestartBroken
    PROVE  Spec => [](OldestIsNotCurrent /\ AppendsToBlank /\ FreeCountIsExact /\ NeverOutOfSpace)
  <1>1. (Intact => RingInv) /\ (Intact \/ (pc = "off" /\ walk = NoWalk)) => OldestIsNotCurrent
    BY DEF RingInv, OldestIsNotCurrent, NoWalk
  <1>2. Spec => []OldestIsNotCurrent
    BY RingInvariant, BrokenIsOff, <1>1, PTL
  <1> QED
    BY <1>2, AppendsOnlyToBlank, CountIsExact, SavesHaveRoom, PTL

-----------------------------------------------------------------------------
(* What the mapping table points at, and that no page is erased while an entry *)
(* points at it.                                                            *)

\* Division by a number is unique.
LEMMA DivUnique ==
    ASSUME NEW a \in Nat, NEW b \in Nat, NEW r \in 0 .. b - 1
    PROVE  (a * b + r) \div b = a /\ (a * b + r) % b = r
  <1> DEFINE n == a * b + r
             q == n \div b
             m == n % b
  <1>1. b > 0 /\ a * b \in Nat /\ n \in Nat
    OBVIOUS
  <1>2. q \in Nat /\ m \in 0 .. b - 1 /\ n = b * q + m
    <2> HIDE DEF n
    <2> QED
      BY <1>1
  <1> HIDE DEF q, m
  <1>3. ~(q < a)
    <2>1. q < a => a = q + 1 + (a - q - 1) /\ a - q - 1 \in Nat
      BY <1>2
    <2>2. \A x, y \in Nat : (x + 1 + y) * b = b * x + b + y * b /\ y * b \in Nat
      OBVIOUS
    <2>3. q < a => a * b = b * q + b + (a - q - 1) * b /\ (a - q - 1) * b \in Nat
      BY <1>2, <2>1, <2>2
    <2> QED
      BY <1>1, <1>2, <2>3
  <1>4. ~(a < q)
    <2>1. a < q => q = a + 1 + (q - a - 1) /\ q - a - 1 \in Nat
      BY <1>2
    <2>2. \A x, y \in Nat : b * (x + 1 + y) = x * b + b + y * b /\ y * b \in Nat
      OBVIOUS
    <2>3. a < q => b * q = a * b + b + (q - a - 1) * b /\ (q - a - 1) * b \in Nat
      BY <1>2, <2>1, <2>2
    <2> QED
      BY <1>1, <1>2, <2>3
  <1>5. q = a
    BY <1>2, <1>3, <1>4
  <1>6. b * q = a * b
    BY <1>5
  <1> QED
    BY <1>1, <1>2, <1>5, <1>6 DEF q, m

\* An entry made of a page and an even cell means that page and that cell.
LEMMA EntryPlace ==
    ASSUME NEW p \in Pages, NEW i \in Cells, ~Odd(i)
    PROVE  /\ EntryPage(PhysAddr(p, i)) = p /\ EntryCell(PhysAddr(p, i)) = i
           /\ PhysAddr(p, i) # 0
  <1> DEFINE h == PageElement \div 2
             j == i \div 2
  <1>1. h \in Nat /\ PageElement = 2 * h /\ p \in Nat
    BY PageAssumption, Sizes DEF Pages
  <1>2. j \in Nat /\ i = 2 * j /\ j >= 1 /\ i \in 0 .. PageElement - 1
    BY PageAssumption DEF Cells, INFO_size, Odd
  <1> HIDE DEF h, j
  <1>3. p * PageElement = 2 * (p * h) /\ p * h \in Nat /\ p * PageElement \in Nat
    BY <1>1
  <1>4. PhysAddr(p, i) = p * h + j
    <2> DEFINE x == p * h
    <2>1. x \in Nat
      BY <1>3
    <2> HIDE DEF x
    <2>2. (2 * x + 2 * j) \div 2 = x + j
      BY <2>1, <1>2
    <2> QED
      BY <2>2, <1>2, <1>3 DEF PhysAddr, x
  <1>5. 2 * PhysAddr(p, i) = p * PageElement + i
    BY <1>2, <1>3, <1>4
  <1>6. PhysAddr(p, i) # 0
    BY <1>2, <1>3, <1>4
  <1> QED
    BY <1>1, <1>2, <1>5, <1>6, DivUnique, Sizes DEF EntryPage, EntryCell

\* Odd cells go down in twos.
LEMMA OddSteps ==
    \A k \in 3 .. PageElement - 1 :
       Odd(k) => k \in Cells /\ k - 1 \in Cells /\ ~Odd(k - 1) /\ k - 1 + 1 = k /\ Odd(k - 2)
  BY PageAssumption DEF Odd, Cells, INFO_size

\* A key names its address.
LEMMA KeyOf == \A w : KeyAt(w) => w.addr \in Addr /\ w = Key(w.addr)
  <1> SUFFICES ASSUME NEW w, KeyAt(w) PROVE w.addr \in Addr /\ w = Key(w.addr)
    OBVIOUS
  <1>1. PICK a \in Addr : w = Key(a)
    BY DEF KeyAt, Keys
  <1>2. Key(a).addr = a
    BY DEF Key
  <1> QED
    BY <1>1, <1>2

LEMMA OddBelow ==
    \A k \in 3 .. PageElement - 1, c \in Cells :
       Odd(k) /\ ~Odd(c) /\ c + 1 # k /\ c + 1 <= k => c + 1 <= k - 2
  BY PageAssumption DEF Odd, Cells, INFO_size

\* In an intact ring a page is read from its last word on.
LEMMA LastKeyFull ==
    ASSUME TypeInv, WordsInv, NEW p \in Pages
    PROVE  LastKey(p) = PageElement - 1 /\ Odd(PageElement - 1)
  <1>1. Odd(PageElement - 1)
    BY PageAssumption DEF Odd
  <1> QED
    BY <1>1 DEF WordsInv, PageWords, LastKey

\* What writing a key changes.
LEMMA KeyWritten ==
    TypeInv /\ WriteKey /\ cur \in Pages /\ free + 1 \in Cells =>
      /\ \A q \in Pages : flash'[q].mark = flash[q].mark
      /\ \A q \in Pages : \A j \in Cells :
           flash'[q].word[j] = IF q = cur /\ j = free + 1 THEN Key(item.addr) ELSE flash[q].word[j]
  <1> SUFFICES ASSUME TypeInv, WriteKey, cur \in Pages, free + 1 \in Cells
               PROVE  /\ \A q \in Pages : flash'[q].mark = flash[q].mark
                      /\ \A q \in Pages : \A j \in Cells :
                           flash'[q].word[j] = IF q = cur /\ j = free + 1 THEN Key(item.addr)
                                                                         ELSE flash[q].word[j]
    OBVIOUS
  <1> DEFINE i == free + 1
             x == Key(item.addr)
  <1>1. flash' = [flash EXCEPT ![cur].word[i] = x]
    BY DEF WriteKey
  <1>2. i \in Cells
    OBVIOUS
  <1> HIDE DEF i, x
  <1>3. LET f == [flash EXCEPT ![cur].word[i] = x]
        IN  /\ \A q \in Pages : f[q].mark = flash[q].mark
            /\ \A q \in Pages : \A j \in Cells :
                 f[q].word[j] = IF q = cur /\ j = i THEN x ELSE flash[q].word[j]
    <2>1. flash \in [Pages -> Page]
      BY DEF TypeInv, TypeOK
    <2> QED
      BY <2>1, <1>2, WordWritten
  <1>4. /\ \A q \in Pages : flash'[q].mark = flash[q].mark
        /\ \A q \in Pages : \A j \in Cells :
             flash'[q].word[j] = IF q = cur /\ j = i THEN x ELSE flash[q].word[j]
    BY <1>1, <1>3, Zenon
  <1> QED
    BY <1>4 DEF i, x

\* Entry e means a pair of address a in a valid page.
Mapped(f, e, a) == /\ EntryPage(e) \in Pages /\ EntryCell(e) \in Cells /\ ~Odd(EntryCell(e))
                   /\ Valid(f, EntryPage(e))
                   /\ f[EntryPage(e)].word[EntryCell(e) + 1] = Key(a)

\* The pair of address a in the page being collected or recycled is still to be
\* reached or copied; there is none any more when the page is erased.
ToCopy(a) == IF target.next = "gc" THEN pc # "erase"
             ELSE \/ MapCell(a) + 1 <= walk.key
                  \/ Appending /\ item.addr = a
                  \/ walk.loop = "rec" /\ walk.later

MapInv ==
    /\ walk.loop \in {"map", "gc", "rec"} => Odd(walk.key)
    /\ pc = "map" => Valid(flash, walk.page)
    /\ target.next = "clear" => map = EmptyMap
    /\ Booted => \A a \in Addr : map[a] # 0 => Mapped(flash, map[a], a)
    /\ Booted /\ walk.loop \in {"gc", "rec"} =>
         \A a \in Addr : map[a] # 0 /\ MapPage(a) = walk.page => ToCopy(a)

\* Every step keeps the entries right: a pair is mapped when its key is
\* written, and a page leaves the ring when none of its pairs is mapped.
LEMMA MapStep == TypeInv /\ RingInv /\ RingInv' /\ MapInv /\ [Next]_vars => MapInv'
  <1> SUFFICES ASSUME TypeInv, RingInv, RingInv', MapInv, [Next]_vars PROVE MapInv'
    OBVIOUS
  <1> USE DEF TypeInv
  <1>PowerOn. CASE PowerOn
    <2>1. ~Booted' /\ walk'.loop \notin {"map", "gc", "rec"} /\ pc' # "map"
      BY <1>PowerOn DEF PowerOn, ram, Booted, NoWalk, TypeOK, Control, Target
    <2>2. target'.next = "clear" => target' = target /\ map' = map
      BY <1>PowerOn, <2>1 DEF PowerOn, ram, NoTarget, work
    <2> QED
      BY <1>PowerOn, <2>1, <2>2 DEF PowerOn, MapInv
  <1>ScanPage. CASE ScanPage
    <2>1. ~Booted' /\ walk'.loop \notin {"map", "gc", "rec"} /\ pc' # "map"
      BY <1>ScanPage DEF ScanPage, Walk, Booted, NoWalk, TypeOK, Control, Target
    <2>2. target'.next = "clear" => target' = target /\ map' = map
      BY <1>ScanPage, <2>1 DEF ScanPage, Walk, NoTarget, ram, work
    <2> QED
      BY <1>ScanPage, <2>1, <2>2 DEF ScanPage, MapInv
  <1>ScanNone. CASE ScanNone
    <2>1. ~Booted' /\ walk'.loop \notin {"map", "gc", "rec"} /\ pc' # "map"
      BY <1>ScanNone DEF ScanNone, Booted, NoWalk, TypeOK, Control, Target
    <2>2. target'.next = "clear" => target' = target /\ map' = map
      BY <1>ScanNone, <2>1 DEF ScanNone, NoTarget, ram, work
    <2> QED
      BY <1>ScanNone, <2>1, <2>2 DEF ScanNone, MapInv
  <1>FindCell. CASE FindCell
    <2>1. PICK f \in INFO_size .. PageElement : free' = f /\ walk' = [NoWalk EXCEPT !.loop = "map", !.page = cur, !.key = f - 1]
      BY <1>FindCell DEF FindCell
    <2>2. /\ pc' = "map" /\ map' = EmptyMap /\ flash' = flash /\ cur' = cur
          /\ target' = target /\ target.next # "clear" /\ Booted'
      BY <1>FindCell, <2>1 DEF FindCell, Booted, TypeOK, Control, Target
    <2>3. Odd(f - 1)
      BY <1>FindCell, <2>1, <2>2, Parity DEF FindCell, WordsInv, RingInv
    <2>4. walk'.loop = "map" /\ walk'.page = cur /\ walk'.key = f - 1
      BY <1>FindCell, <2>1, <2>2, <2>3 DEF FindCell, NoWalk
    <2>5. Valid(flash, cur)
      BY <1>FindCell, <2>1, <2>2, <2>3, <2>4
         DEF FindCell, RingInv, LogInv, CurrentInv, ftl_page_is_valid, Valid
    <2> QED
      BY <1>FindCell, <2>1, <2>2, <2>3, <2>4, <2>5 DEF FindCell, MapInv, EmptyMap
  <1>MapKey. CASE MapKey
    <2> DEFINE k == walk.key
               w == flash[walk.page].word[k]
    <2>1. /\ k \in 3 .. PageElement - 1 /\ walk.page \in Pages /\ walk.loop = "map"
          /\ Booted /\ Odd(k)
      BY <1>MapKey, WalkFields DEF MapKey, TypeOK, Control, Booted, Target, MapInv
    <2>2. k \in Cells /\ k - 1 \in Cells /\ ~Odd(k - 1) /\ k - 1 + 1 = k /\ Odd(k - 2)
      BY <2>1, OddSteps
    <2>3. /\ flash' = flash /\ pc' = pc /\ pc = "map" /\ target' = target
          /\ walk'.loop = "map" /\ walk'.page = walk.page /\ walk'.key = k - 2
      BY <1>MapKey, <2>1 DEF MapKey, TypeOK, Walk
    <2>4. \A a \in Addr : map'[a] = IF KeyAt(w) /\ Unmapped(w.addr) /\ a = w.addr
                                    THEN PhysAddr(walk.page, k - 1) ELSE map[a]
      BY <1>MapKey DEF MapKey, TypeOK
    <2>5. KeyAt(w) => w.addr \in Addr /\ w = Key(w.addr)
      BY KeyOf
    <2>6. Valid(flash, walk.page)
      BY <2>3 DEF MapInv
    <2>7. KeyAt(w) => Mapped(flash, PhysAddr(walk.page, k - 1), w.addr)
      <3> HIDE DEF k
      <3>1. w = flash[walk.page].word[k]
        OBVIOUS
      <3> HIDE DEF w
      <3> QED
        BY <2>1, <2>2, <2>5, <2>6, <3>1, EntryPlace DEF Mapped
    <2> HIDE DEF k, w
    <2>8. \A a \in Addr : map'[a] # 0 => Mapped(flash, map'[a], a)
      BY <2>1, <2>4, <2>7 DEF MapInv
    <2>9. walk'.loop \notin {"gc", "rec"} /\ target.next # "clear"
      BY <2>3, <2>1 DEF TypeOK, Control
    <2> QED
      BY <2>2, <2>3, <2>6, <2>8, <2>9 DEF MapInv
  <1>MapPrev. CASE MapPrev
    <2>1. /\ Booted /\ flash' = flash /\ map' = map /\ target' = target
          /\ target.next # "clear" /\ walk.loop = "map"
      BY <1>MapPrev DEF MapPrev, Booted, ram, TypeOK, Control, Target
    <2>2. walk' = NoWalk \/ (walk'.loop = "map" /\ walk'.page = PrevPage(walk.page) /\ walk'.key = LastKey(PrevPage(walk.page)) /\ HasPrev(walk.page))
      BY <1>MapPrev, <2>1 DEF MapPrev, TypeOK, Walk, Control
    <2>3. PrevPage(walk.page) \in Pages
      BY <1>MapPrev, <2>1, <2>2, RingType DEF MapPrev, TypeOK, Control, Target
    <2>4. LastKey(PrevPage(walk.page)) = PageElement - 1 /\ Odd(PageElement - 1)
      BY <1>MapPrev, <2>1, <2>2, <2>3, LastKeyFull DEF MapPrev, RingInv
    <2>5. HasPrev(walk.page) => Valid(flash, PrevPage(walk.page))
      BY <1>MapPrev, <2>1, <2>2, <2>3, <2>4
         DEF MapPrev, HasPrev, Valid, ftl_page_is_valid
    <2>6. pc' = "map" => HasPrev(walk.page) /\ walk'.page = PrevPage(walk.page)
      BY <1>MapPrev, <2>1, <2>2, <2>3, <2>4, <2>5 DEF MapPrev, TypeOK, Walk, Control
    <2> QED
      BY <1>MapPrev, <2>1, <2>2, <2>3, <2>4, <2>5, <2>6 DEF MapPrev, MapInv, NoWalk
  <1>RecoverNone. CASE RecoverNone
    <2>1. /\ Booted /\ walk'.loop \notin {"map", "gc", "rec"} /\ pc' # "map"
          /\ flash' = flash /\ map' = map
      BY <1>RecoverNone
         DEF RecoverNone, Walk, Booted, NoWalk, ram, work, TypeOK, Control, Target
    <2>2. target'.next # "clear"
      BY <1>RecoverNone, <2>1
         DEF RecoverNone, NoTarget, work, TypeOK, Control, Target
    <2> QED
      BY <1>RecoverNone, <2>1, <2>2 DEF RecoverNone, MapInv
  <1>Recover. CASE Recover
    <2>1. /\ Booted /\ flash' = flash /\ cur' = cur /\ map' = map /\ target'.next # "clear"
          /\ target'.next # "gc" /\ cur \in Pages
      BY <1>Recover DEF Recover, Booted, ram, NoTarget, TypeOK, Control, Target
    <2>2. walk'.loop = "rec" /\ pc' # "map" /\ walk'.key = LastKey(ftl_page_get_oldest)
      BY <1>Recover, <2>1 DEF Recover, NoWalk, Walk, TypeOK, Control
    <2>3. ftl_page_get_oldest \in Pages
      BY <1>Recover, <2>1, <2>2, OldestType DEF Recover
    <2>4. LastKey(ftl_page_get_oldest) = PageElement - 1 /\ Odd(PageElement - 1)
      BY <1>Recover, <2>1, <2>2, <2>3, LastKeyFull DEF Recover, RingInv
    <2>5. \A c \in Cells : ~Odd(c) => c + 1 <= PageElement - 1
      BY <1>Recover, <2>1, <2>2, <2>3, <2>4, Parity, Sizes
         DEF Recover, Cells, INFO_size
    <2> QED
      BY <1>Recover, <2>1, <2>2, <2>3, <2>4, <2>5
         DEF Recover, MapInv, ToCopy, Mapped, MapCell, MapPage, EntryCell, EntryPage
  <1>RecoverKey. CASE RecoverKey
    <2> DEFINE k == walk.key
               w == flash[walk.page].word[k]
    <2>1. k \in 3 .. PageElement - 1 /\ walk.page \in Pages /\ walk.loop = "rec" /\ Booted /\ Odd(k)
          /\ target.next \notin {"gc", "clear", "write"}
      BY <1>RecoverKey, WalkFields DEF RecoverKey, TypeOK, Control, Booted, Target, MapInv,
         NoTarget
    <2>2. k \in Cells /\ Odd(k - 2)
      BY <2>1, OddSteps
    <2>3. /\ flash' = flash /\ map' = map /\ target' = target /\ pc' # "map" /\ pc = "rec"
          /\ walk'.loop = "rec" /\ walk'.page = walk.page /\ walk'.key = k - 2
      BY <1>RecoverKey, <2>1 DEF RecoverKey, TypeOK, Walk, ram
    <2>4. ASSUME NEW a \in Addr, map[a] # 0, MapPage(a) = walk.page PROVE ToCopy(a)'
      <3>1. MapCell(a) + 1 <= k \/ (walk.loop = "rec" /\ walk.later)
        BY <2>1, <2>3, <2>4 DEF MapInv, ToCopy, Appending
      <3>2. /\ MapCell(a) \in Cells /\ ~Odd(MapCell(a))
            /\ flash[walk.page].word[MapCell(a) + 1] = Key(a)
        BY <2>1, <2>4 DEF MapInv, Mapped, MapCell, MapPage, EntryCell, EntryPage
      <3>3. CASE MapCell(a) + 1 = k
        <4>1. w = Key(a) /\ KeyAt(w) /\ w.addr = a
          BY <3>2, <3>3 DEF KeyAt, Keys, Key
        <4>2. ~ftl_page_can_addr_drop(w.addr, walk.page)
          BY <4>1, <2>4 DEF ftl_page_can_addr_drop
        <4>3. w = flash[walk.page].word[walk.key]
          OBVIOUS
        <4> HIDE DEF k, w
        <4>4. (pc' = "write" /\ item'.addr = a) \/ walk'.later
          <5>1. CASE Room
            BY <4>1, <4>2, <4>3, <5>1, <1>RecoverKey DEF RecoverKey
          <5>2. CASE ~Room
            BY <4>1, <4>2, <4>3, <5>2, <1>RecoverKey DEF RecoverKey, TypeOK, Walk
          <5> QED
            BY <5>1, <5>2
        <4> QED
          BY <4>4, <2>1, <2>3 DEF ToCopy, Appending
      <3>4. CASE walk.loop = "rec" /\ walk.later
        <4>1. walk'.loop = "rec" /\ walk'.later
          BY <3>4, <2>1, <2>3, <1>RecoverKey DEF RecoverKey, TypeOK, Walk
        <4> QED
          BY <4>1, <2>1, <2>3 DEF ToCopy
      <3>5. CASE MapCell(a) + 1 # k /\ MapCell(a) + 1 <= k
        <4>1. MapCell(a) + 1 <= k - 2
          BY <2>1, <2>2, <3>2, <3>5, OddBelow
        <4>2. MapCell(a)' = MapCell(a)
          BY <2>3 DEF MapCell, EntryCell
        <4> QED
          BY <4>1, <4>2, <2>1, <2>3 DEF ToCopy
      <3> QED
        BY <3>1, <3>3, <3>4, <3>5
    <2> HIDE DEF k, w
    <2>5. \A a \in Addr : MapPage(a)' = MapPage(a)
      BY <2>3 DEF MapPage, EntryPage
    <2> QED
      BY <2>1, <2>2, <2>3, <2>4, <2>5 DEF MapInv
  <1>RecoverDone. CASE RecoverDone
    <2>1. /\ Booted /\ map' = map /\ walk' = NoWalk /\ target' = target /\ walk.loop = "rec"
          /\ target.next = "none" /\ pc' # "map" /\ walk.page \in Pages
      BY <1>RecoverDone
         DEF RecoverDone, Booted, ram, NoTarget, TypeOK, Control, Target
    <2>2. Booted' => ~walk.later
      BY <1>RecoverDone, <2>1 DEF RecoverDone, Booted
    <2>3. Booted' => \A a \in Addr : map[a] # 0 => MapPage(a) # walk.page
      BY <1>RecoverDone, <2>1, <2>2, WalkFields, Sizes
         DEF RecoverDone, MapInv, ToCopy, Appending, Mapped, MapCell, MapPage,
            EntryCell, EntryPage, Cells, INFO_size, TypeOK, Control, Target
    <2>4. \A q \in Pages : flash'[q].word = flash[q].word /\ (q # walk.page => flash'[q].mark = flash[q].mark)
      BY <1>RecoverDone, <2>1, <2>2, <2>3, HeaderWritten DEF RecoverDone, TypeOK
    <2>5. Booted' => \A a \in Addr : map[a] # 0 => Mapped(flash', map[a], a)
      BY <1>RecoverDone, <2>1, <2>2, <2>3, <2>4
         DEF RecoverDone, MapInv, Mapped, MapPage, EntryPage, Valid
    <2> QED
      BY <1>RecoverDone, <2>1, <2>2, <2>3, <2>4, <2>5
         DEF RecoverDone, MapInv, NoWalk
  <1>Recount. CASE Recount
    <2>1. /\ Booted /\ walk'.loop \notin {"map", "gc", "rec"} /\ pc' # "map"
          /\ flash' = flash /\ map' = map
      BY <1>Recount
         DEF Recount, Walk, Booted, NoWalk, ram, work, TypeOK, Control, Target
    <2>2. target'.next # "clear"
      BY <1>Recount, <2>1 DEF Recount, NoTarget, work, TypeOK, Control, Target
    <2> QED
      BY <1>Recount, <2>1, <2>2 DEF Recount, MapInv
  <1>Save. CASE \E s \in Saves : Save(s[1], s[2])
    <2>1. /\ Booted /\ walk'.loop \notin {"map", "gc", "rec"} /\ pc' # "map"
          /\ flash' = flash /\ map' = map
      BY <1>Save DEF Save, Walk, Booted, NoWalk, ram, work, TypeOK, Control, Target
    <2>2. target'.next # "clear"
      BY <1>Save, <2>1 DEF Save, NoTarget, work, TypeOK, Control, Target
    <2> QED
      BY <1>Save, <2>1, <2>2 DEF Save, MapInv
  <1>WriteData. CASE WriteData
    <2>1. /\ walk' = walk /\ map' = map /\ target' = target /\ item' = item /\ Booted
          /\ target.next = "none" /\ pc' # "map" /\ Appending /\ Appending'
      BY <1>WriteData
         DEF WriteData, Booted, ram, work, Appending, TypeOK, Control, Target
    <2>2. cur \in Pages /\ free \in Cells /\ ~Odd(free)
      BY <1>WriteData, <2>1, Sizes
         DEF WriteData, Room, Cells, INFO_size, RingInv, WordsInv, TypeOK, Control,
            Target
    <2>3. \A q \in Pages : flash'[q].mark = flash[q].mark /\ \A j \in Cells : Odd(j) => flash'[q].word[j] = flash[q].word[j]
      BY <1>WriteData, <2>1, <2>2, WordWritten
         DEF WriteData, TypeOK, Control, Target
    <2>4. \A a \in Addr : map[a] # 0 => Mapped(flash', map[a], a)
      BY <1>WriteData, <2>1, <2>2, <2>3, Parity DEF WriteData, MapInv, Mapped, Valid
    <2>5. \A a \in Addr : MapPage(a)' = MapPage(a) /\ MapCell(a)' = MapCell(a)
      BY <1>WriteData, <2>1, <2>2, <2>3, <2>4 DEF WriteData, MapPage, EntryPage, MapCell,
         EntryCell
    <2>6. \A a \in Addr : ToCopy(a) => ToCopy(a)'
      BY <1>WriteData, <2>1, <2>2, <2>3, <2>4, <2>5 DEF WriteData, ToCopy
    <2> QED
      BY <1>WriteData, <2>1, <2>2, <2>3, <2>4, <2>5, <2>6 DEF WriteData, MapInv
  <1>WriteKey. CASE WriteKey
    <2>1. /\ cur \in Pages /\ free \in Cells /\ ~Odd(free) /\ free + 1 \in Cells
          /\ item.addr \in Addr /\ Booted /\ target.next = "none" /\ Valid(flash, cur)
      BY <1>WriteKey, Sizes
         DEF WriteKey, Room, Cells, INFO_size, RingInv, WordsInv, TypeOK, Control, Target,
         Booted,
         Item, LogInv, CurrentInv, ftl_page_is_valid, Valid
    <2>2. /\ \A q \in Pages : flash'[q].mark = flash[q].mark
          /\ \A q \in Pages : \A j \in Cells :
               flash'[q].word[j] = IF q = cur /\ j = free + 1 THEN Key(item.addr) ELSE flash[q].word[j]
      BY <1>WriteKey, <2>1, KeyWritten
    <2>3. flash[cur].word[free + 1] = Blank
      BY <1>WriteKey, LogAppends DEF WriteKey, RingInv, AppendsToBlank
    <2>4. \A a \in Addr : map'[a] = IF a = item.addr THEN PhysAddr(cur, free) ELSE map[a]
      BY <1>WriteKey DEF WriteKey, TypeOK
    <2>5. Mapped(flash', PhysAddr(cur, free), item.addr)
      BY <2>1, <2>2, EntryPlace DEF Mapped, Valid
    <2>6. \A a \in Addr : Key(a) # Blank
      BY WordAssumption DEF Keys
    <2>7. \A a \in Addr : map[a] # 0 => Mapped(flash', map[a], a)
      BY <2>1, <2>2, <2>3, <2>6, Parity DEF MapInv, Mapped, Valid
    <2>8. \A a \in Addr : map'[a] # 0 => Mapped(flash', map'[a], a)
      BY <2>4, <2>5, <2>7
    <2>9. walk' = walk /\ target' = target
      BY <1>WriteKey DEF WriteKey
    <2>10. pc' # "map"
      BY <1>WriteKey DEF WriteKey, Return, RingInv, RoomInv, Appending
    <2>11. ASSUME NEW a \in Addr, map'[a] # 0, MapPage(a)' = walk.page, walk.loop \in {"gc", "rec"}
           PROVE  ToCopy(a)'
      <3>1. walk.page # cur
        BY <2>11, <2>1 DEF RingInv, OldestIsNotCurrent
      <3>2. a # item.addr
        BY <3>1, <2>11, <2>4, <2>1, EntryPlace DEF MapPage, EntryPage
      <3>3. map'[a] = map[a] /\ ToCopy(a)
        BY <3>2, <2>4, <2>11, <2>1 DEF MapInv, MapPage, EntryPage
      <3> QED
        BY <3>2, <3>3, <2>1, <2>9 DEF ToCopy, MapCell, EntryCell
    <2> QED
      BY <2>1, <2>8, <2>9, <2>10, <2>11 DEF MapInv
  <1>SetEndPosition. CASE SetEndPosition
    <2>1. /\ walk' = walk /\ map' = map /\ target' = target /\ item' = item /\ Booted
          /\ target.next = "none" /\ pc' # "map" /\ Appending /\ Appending'
      BY <1>SetEndPosition
         DEF SetEndPosition, Booted, ram, work, Appending, TypeOK, Control, Target
    <2>2. cur \in Pages
      BY <1>SetEndPosition, <2>1 DEF SetEndPosition, TypeOK, Control, Target
    <2>3. \A q \in Pages : flash'[q].mark = flash[q].mark /\ flash'[q].word = flash[q].word
      BY <1>SetEndPosition, <2>1, <2>2, WordKeeps DEF SetEndPosition, TypeOK, Page
    <2>4. \A a \in Addr : map[a] # 0 => Mapped(flash', map[a], a)
      BY <1>SetEndPosition, <2>1, <2>2, <2>3
         DEF SetEndPosition, MapInv, Mapped, Valid
    <2>5. \A a \in Addr : MapPage(a)' = MapPage(a) /\ MapCell(a)' = MapCell(a)
      BY <1>SetEndPosition, <2>1, <2>2, <2>3, <2>4
         DEF SetEndPosition, MapPage, EntryPage, MapCell, EntryCell
    <2>6. \A a \in Addr : ToCopy(a) => ToCopy(a)'
      BY <1>SetEndPosition, <2>1, <2>2, <2>3, <2>4, <2>5 DEF SetEndPosition, ToCopy
    <2> QED
      BY <1>SetEndPosition, <2>1, <2>2, <2>3, <2>4, <2>5, <2>6
         DEF SetEndPosition, MapInv
  <1>OpenNextPage. CASE OpenNextPage
    <2>1. /\ walk' = walk /\ map' = map /\ flash' = flash /\ target'.next = "write"
          /\ item' = item /\ Booted /\ target.next = "none" /\ pc' # "map" /\ Appending
          /\ Appending'
      BY <1>OpenNextPage
         DEF OpenNextPage, Booted, ram, work, Appending, TypeOK, Control, Target
    <2>2. \A a \in Addr : MapPage(a)' = MapPage(a) /\ MapCell(a)' = MapCell(a)
      BY <1>OpenNextPage, <2>1 DEF OpenNextPage, MapPage, EntryPage, MapCell, EntryCell
    <2>3. \A a \in Addr : ToCopy(a) => ToCopy(a)'
      BY <1>OpenNextPage, <2>1, <2>2 DEF OpenNextPage, ToCopy
    <2> QED
      BY <1>OpenNextPage, <2>1, <2>2, <2>3 DEF OpenNextPage, MapInv
  <1>PageErase. CASE PageErase
    <2>1. /\ target.page \in Pages /\ walk' = walk /\ map' = map /\ target' = target
          /\ item' = item
          /\ pc' # "map" /\ pc' # "erase" /\ (Booted' <=> Booted) /\ (Appending' <=> Appending)
      BY <1>PageErase DEF PageErase, ram, work, AfterErase, Booted, Appending, TypeOK, Control,
         Target
    <2>2. \A a \in Addr : MapPage(a)' = MapPage(a) /\ MapCell(a)' = MapCell(a) /\ (ToCopy(a) => ToCopy(a)')
      BY <2>1 DEF MapPage, EntryPage, MapCell, EntryCell, ToCopy
    <2>3. ASSUME Booted, NEW a \in Addr, map[a] # 0 PROVE EntryPage(map[a]) # target.page
      <3>1. Mapped(flash, map[a], a)
        BY <2>3 DEF MapInv
      <3>2. CASE target.next = "gc"
        <4>1. walk.loop = "gc" /\ target.page = walk.page
          BY <3>2, <1>PageErase DEF PageErase, RingInv, RoomInv, TypeOK, Control
        <4>2. ~ToCopy(a)
          BY <3>2, <1>PageErase DEF PageErase, ToCopy
        <4> QED
          BY <4>1, <4>2, <2>3 DEF MapInv, MapPage, EntryPage
      <3>3. CASE target.next # "gc"
        <4>1. ~Valid(flash, target.page)
          BY <3>3, <1>PageErase DEF PageErase, RingInv, CountInv, LogInv, ErasedInv
        <4> QED
          BY <3>1, <4>1 DEF Mapped
      <3> QED
        BY <3>2, <3>3
    <2>4. \A q \in Pages : q # target.page => flash'[q] = flash[q]
      BY <1>PageErase, <2>1 DEF PageErase, TypeOK
    <2>5. Booted => \A a \in Addr : map[a] # 0 => Mapped(flash', map[a], a)
      BY <2>3, <2>4 DEF MapInv, Mapped, Valid
    <2> QED
      BY <2>1, <2>2, <2>5 DEF MapInv
  <1>PageMark. CASE PageMark
    <2>1. /\ walk' = walk /\ map' = map /\ target' = target /\ item' = item /\ pc' # "map"
          /\ pc' # "erase" /\ pc # "erase" /\ (Booted' <=> Booted)
          /\ (Appending' <=> Appending)
      BY <1>PageMark
         DEF PageMark, ram, work, AfterErase, Booted, Appending, TypeOK, Control,
            Target
    <2>2. target.page \in Pages
      BY <1>PageMark, <2>1 DEF PageMark, TypeOK, Control, Target
    <2>3. \A q \in Pages : flash'[q].word = flash[q].word /\ (q # target.page => flash'[q].mark = flash[q].mark)
      BY <1>PageMark, <2>1, <2>2, HeaderWritten, MarkWritten
         DEF PageMark, TypeOK, FormatAs
    <2>4. ~Valid(flash, target.page)
      BY <1>PageMark, <2>1, <2>2, <2>3
         DEF PageMark, RingInv, CountInv, LogInv, ErasedInv
    <2>5. Booted => \A a \in Addr : map[a] # 0 => Mapped(flash', map[a], a)
      BY <1>PageMark, <2>1, <2>2, <2>3, <2>4 DEF PageMark, MapInv, Mapped, Valid
    <2>6. \A a \in Addr : MapPage(a)' = MapPage(a) /\ MapCell(a)' = MapCell(a)
      BY <1>PageMark, <2>1, <2>2, <2>3, <2>4, <2>5 DEF PageMark, MapPage, EntryPage, MapCell,
         EntryCell
    <2>7. \A a \in Addr : ToCopy(a) => ToCopy(a)'
      BY <1>PageMark, <2>1, <2>2, <2>3, <2>4, <2>5, <2>6 DEF PageMark, ToCopy
    <2> QED
      BY <1>PageMark, <2>1, <2>2, <2>3, <2>4, <2>5, <2>6, <2>7 DEF PageMark, MapInv
  <1>FormatNext. CASE FormatNext
    <2>1. /\ walk' = walk /\ map' = map /\ target' = NoTarget /\ item' = item /\ pc' # "map"
          /\ Booted /\ target.next = "write" /\ (walk.loop \in {"gc", "rec"} => Appending')
          /\ (Appending)
      BY <1>FormatNext
         DEF FormatNext, FormatAs, Booted, Appending, MustCollect, RingInv, RoomInv,
            LogInv, CurrentInv, TypeOK, Control, Target
    <2>2. target.page \in Pages
      BY <1>FormatNext, <2>1 DEF FormatNext, TypeOK, Control, Target
    <2>3. \A q \in Pages : flash'[q].word = flash[q].word /\ (q # target.page => flash'[q].mark = flash[q].mark)
      BY <1>FormatNext, <2>1, <2>2, HeaderWritten, MarkWritten
         DEF FormatNext, TypeOK, FormatAs
    <2>4. ~Valid(flash, target.page)
      BY <1>FormatNext, <2>1, <2>2, <2>3
         DEF FormatNext, RingInv, CountInv, LogInv, ErasedInv
    <2>5. Booted => \A a \in Addr : map[a] # 0 => Mapped(flash', map[a], a)
      BY <1>FormatNext, <2>1, <2>2, <2>3, <2>4 DEF FormatNext, MapInv, Mapped, Valid
    <2>6. \A a \in Addr : MapPage(a)' = MapPage(a) /\ MapCell(a)' = MapCell(a)
      BY <1>FormatNext, <2>1, <2>2, <2>3, <2>4, <2>5
         DEF FormatNext, MapPage, EntryPage, MapCell, EntryCell
    <2>7. \A a \in Addr : walk.loop \in {"gc", "rec"} /\ ToCopy(a) => ToCopy(a)'
      BY <1>FormatNext, <2>1, <2>2, <2>3, <2>4, <2>5, <2>6
         DEF FormatNext, ToCopy, NoTarget
    <2> QED
      BY <1>FormatNext, <2>1, <2>2, <2>3, <2>4, <2>5, <2>6, <2>7
         DEF FormatNext, MapInv, NoTarget
  <1>FormatFirst. CASE FormatFirst
    <2>1. walk' = walk /\ map' = map /\ target' = NoTarget /\ pc' # "map" /\ walk.loop = "none"
      BY <1>FormatFirst DEF FormatFirst, FormatAs, TypeOK, Control, Target
    <2>2. Booted' => map = EmptyMap
      BY <1>FormatFirst, <2>1 DEF FormatFirst, Booted, MapInv
    <2> QED
      BY <1>FormatFirst, <2>1, <2>2 DEF FormatFirst, MapInv, NoTarget, EmptyMap
  <1>Collect. CASE \E t \in GcCalls : Collect(t)
    <2>1. /\ Booted /\ walk'.loop \notin {"map", "gc", "rec"} /\ pc' # "map"
          /\ flash' = flash /\ map' = map
      BY <1>Collect
         DEF Collect, Walk, Booted, NoWalk, ram, work, TypeOK, Control, Target
    <2>2. target'.next # "clear"
      BY <1>Collect, <2>1 DEF Collect, NoTarget, work, TypeOK, Control, Target
    <2> QED
      BY <1>Collect, <2>1, <2>2 DEF Collect, MapInv
  <1>CollectPage. CASE CollectPage
    <2>1. /\ Booted /\ flash' = flash /\ cur' = cur /\ map' = map /\ target'.next # "clear"
          /\ target'.next # "gc" /\ cur \in Pages
      BY <1>CollectPage
         DEF CollectPage, Booted, ram, NoTarget, TypeOK, Control, Target
    <2>2. walk'.loop = "gc" /\ pc' # "map" /\ walk'.key = LastKey(ftl_page_get_oldest)
      BY <1>CollectPage, <2>1 DEF CollectPage, NoWalk, Walk, TypeOK, Control
    <2>3. ftl_page_get_oldest \in Pages
      BY <1>CollectPage, <2>1, <2>2, OldestType DEF CollectPage
    <2>4. LastKey(ftl_page_get_oldest) = PageElement - 1 /\ Odd(PageElement - 1)
      BY <1>CollectPage, <2>1, <2>2, <2>3, LastKeyFull DEF CollectPage, RingInv
    <2>5. \A c \in Cells : ~Odd(c) => c + 1 <= PageElement - 1
      BY <1>CollectPage, <2>1, <2>2, <2>3, <2>4, Parity, Sizes
         DEF CollectPage, Cells, INFO_size
    <2> QED
      BY <1>CollectPage, <2>1, <2>2, <2>3, <2>4, <2>5
         DEF CollectPage, MapInv, ToCopy, Mapped, MapCell, MapPage, EntryCell,
            EntryPage
  <1>CollectKey. CASE CollectKey
    <2> DEFINE k == walk.key
               w == flash[walk.page].word[k]
    <2>1. k \in 3 .. PageElement - 1 /\ walk.page \in Pages /\ walk.loop = "gc" /\ Booted /\ Odd(k)
          /\ target.next \notin {"gc", "clear", "write"}
      BY <1>CollectKey, WalkFields DEF CollectKey, TypeOK, Control, Booted, Target, MapInv,
         NoTarget
    <2>2. k \in Cells /\ Odd(k - 2)
      BY <2>1, OddSteps
    <2>3. /\ flash' = flash /\ map' = map /\ target' = target /\ pc' # "map" /\ pc = "gc"
          /\ walk'.loop = "gc" /\ walk'.page = walk.page /\ walk'.key = k - 2
      BY <1>CollectKey, <2>1 DEF CollectKey, TypeOK, Walk, ram
    <2>4. ASSUME NEW a \in Addr, map[a] # 0, MapPage(a) = walk.page PROVE ToCopy(a)'
      <3>1. MapCell(a) + 1 <= k \/ (walk.loop = "rec" /\ walk.later)
        BY <2>1, <2>3, <2>4 DEF MapInv, ToCopy, Appending
      <3>2. /\ MapCell(a) \in Cells /\ ~Odd(MapCell(a))
            /\ flash[walk.page].word[MapCell(a) + 1] = Key(a)
        BY <2>1, <2>4 DEF MapInv, Mapped, MapCell, MapPage, EntryCell, EntryPage
      <3>3. CASE MapCell(a) + 1 = k
        <4>1. w = Key(a) /\ KeyAt(w) /\ w.addr = a
          BY <3>2, <3>3 DEF KeyAt, Keys, Key
        <4>2. ~ftl_page_can_addr_drop(w.addr, walk.page)
          BY <4>1, <2>4 DEF ftl_page_can_addr_drop
        <4>3. w = flash[walk.page].word[walk.key]
          OBVIOUS
        <4> HIDE DEF k, w
        <4>4. (pc' = "write" /\ item'.addr = a)
          <5>1. CASE Room
            BY <4>1, <4>2, <4>3, <5>1, <1>CollectKey DEF CollectKey
          <5>2. CASE ~Room
            BY <4>1, <4>2, <4>3, <5>2, <1>CollectKey DEF CollectKey, TypeOK, Walk
          <5> QED
            BY <5>1, <5>2
        <4> QED
          BY <4>4, <2>1, <2>3 DEF ToCopy, Appending
      <3>4. CASE walk.loop = "rec" /\ walk.later
        <4>1. walk'.loop = "rec" /\ walk'.later
          BY <3>4, <2>1, <2>3, <1>CollectKey DEF CollectKey, TypeOK, Walk
        <4> QED
          BY <4>1, <2>1, <2>3 DEF ToCopy
      <3>5. CASE MapCell(a) + 1 # k /\ MapCell(a) + 1 <= k
        <4>1. MapCell(a) + 1 <= k - 2
          BY <2>1, <2>2, <3>2, <3>5, OddBelow
        <4>2. MapCell(a)' = MapCell(a)
          BY <2>3 DEF MapCell, EntryCell
        <4> QED
          BY <4>1, <4>2, <2>1, <2>3 DEF ToCopy
      <3> QED
        BY <3>1, <3>3, <3>4, <3>5
    <2> HIDE DEF k, w
    <2>5. \A a \in Addr : MapPage(a)' = MapPage(a)
      BY <2>3 DEF MapPage, EntryPage
    <2> QED
      BY <2>1, <2>2, <2>3, <2>4, <2>5 DEF MapInv
  <1>CollectErase. CASE CollectErase
    <2>1. /\ Booted /\ flash' = flash /\ map' = map /\ walk' = walk /\ target'.next = "gc"
          /\ walk.loop = "gc" /\ pc' = "erase"
      BY <1>CollectErase
         DEF CollectErase, Booted, ram, NoTarget, TypeOK, Control, Target
    <2>2. \A a \in Addr : map[a] # 0 => MapPage(a) # walk.page
      BY <1>CollectErase, <2>1, WalkFields, Sizes
         DEF CollectErase, MapInv, ToCopy, Appending, Mapped, MapCell, MapPage,
            EntryCell, EntryPage, Cells, INFO_size, NoTarget, TypeOK, Control,
            Target
    <2>3. \A a \in Addr : MapPage(a)' = MapPage(a)
      BY <1>CollectErase, <2>1, <2>2 DEF CollectErase, MapPage, EntryPage
    <2> QED
      BY <1>CollectErase, <2>1, <2>2, <2>3 DEF CollectErase, MapInv
  <1>CollectRetry. CASE CollectRetry
    <2>1. /\ Booted /\ flash' = flash /\ cur' = cur /\ map' = map /\ target'.next # "clear"
          /\ target'.next # "gc" /\ cur \in Pages
      BY <1>CollectRetry
         DEF CollectRetry, Booted, ram, NoTarget, TypeOK, Control, Target
    <2>2. walk'.loop = "gc" /\ pc' # "map" /\ walk'.key = LastKey(ftl_page_get_oldest)
      BY <1>CollectRetry, <2>1 DEF CollectRetry, NoWalk, Walk, TypeOK, Control
    <2>3. ftl_page_get_oldest \in Pages
      BY <1>CollectRetry, <2>1, <2>2, OldestType DEF CollectRetry
    <2>4. LastKey(ftl_page_get_oldest) = PageElement - 1 /\ Odd(PageElement - 1)
      BY <1>CollectRetry, <2>1, <2>2, <2>3, LastKeyFull DEF CollectRetry, RingInv
    <2>5. \A c \in Cells : ~Odd(c) => c + 1 <= PageElement - 1
      BY <1>CollectRetry, <2>1, <2>2, <2>3, <2>4, Parity, Sizes
         DEF CollectRetry, Cells, INFO_size
    <2> QED
      BY <1>CollectRetry, <2>1, <2>2, <2>3, <2>4, <2>5
         DEF CollectRetry, MapInv, ToCopy, Mapped, MapCell, MapPage, EntryCell,
            EntryPage
  <1>CollectDone. CASE CollectDone
    <2>1. /\ Booted /\ walk'.loop \notin {"map", "gc", "rec"} /\ pc' # "map"
          /\ flash' = flash /\ map' = map
      BY <1>CollectDone
         DEF CollectDone, Walk, Booted, NoWalk, ram, work, TypeOK, Control, Target
    <2>2. target'.next # "clear"
      BY <1>CollectDone, <2>1
         DEF CollectDone, NoTarget, work, TypeOK, Control, Target
    <2> QED
      BY <1>CollectDone, <2>1, <2>2 DEF CollectDone, MapInv
  <1>ClearAll. CASE ClearAll
    <2>1. ~Booted' /\ walk'.loop \notin {"map", "gc", "rec"} /\ pc' # "map"
      BY <1>ClearAll
         DEF ClearAll, work, ram, Booted, NoWalk, TypeOK, Control, Target
    <2>2. target'.next = "clear" => target' = target /\ map' = map
      BY <1>ClearAll, <2>1 DEF ClearAll, work, ram, NoTarget
    <2> QED
      BY <1>ClearAll, <2>1, <2>2 DEF ClearAll, MapInv
  <1>ClearPage. CASE ClearPage
    <2>1. ~Booted' /\ walk'.loop \notin {"map", "gc", "rec"} /\ pc' # "map"
      BY <1>ClearPage
         DEF ClearPage, Walk, ram, Booted, NoWalk, TypeOK, Control, Target
    <2>2. target'.next = "clear" => target' = target /\ map' = map
      BY <1>ClearPage, <2>1 DEF ClearPage, Walk, ram, NoTarget, work
    <2> QED
      BY <1>ClearPage, <2>1, <2>2 DEF ClearPage, MapInv
  <1>ClearReset. CASE ClearReset
    <2>1. ~Booted' /\ walk'.loop = "none" /\ pc' # "map" /\ map' = EmptyMap
      BY <1>ClearReset DEF ClearReset, Booted, NoWalk
    <2> QED
      BY <1>ClearReset, <2>1 DEF ClearReset, MapInv
  <1>EraseInvalid. CASE EraseInvalid
    <2>1. /\ Booted /\ walk'.loop \notin {"map", "gc", "rec"} /\ pc' # "map"
          /\ flash' = flash /\ map' = map
      BY <1>EraseInvalid
         DEF EraseInvalid, Walk, Booted, NoWalk, ram, work, TypeOK, Control, Target
    <2>2. target'.next # "clear"
      BY <1>EraseInvalid, <2>1
         DEF EraseInvalid, NoTarget, work, TypeOK, Control, Target
    <2> QED
      BY <1>EraseInvalid, <2>1, <2>2 DEF EraseInvalid, MapInv
  <1>EraseInvalidPage. CASE EraseInvalidPage
    <2>1. /\ Booted /\ walk'.loop \notin {"map", "gc", "rec"} /\ pc' # "map"
          /\ flash' = flash /\ map' = map
      BY <1>EraseInvalidPage
         DEF EraseInvalidPage, Walk, Booted, NoWalk, ram, work, TypeOK, Control,
            Target
    <2>2. target'.next # "clear"
      BY <1>EraseInvalidPage, <2>1
         DEF EraseInvalidPage, NoTarget, work, TypeOK, Control, Target
    <2> QED
      BY <1>EraseInvalidPage, <2>1, <2>2 DEF EraseInvalidPage, MapInv
  <1>EraseInvalidDone. CASE EraseInvalidDone
    <2>1. /\ Booted /\ walk'.loop \notin {"map", "gc", "rec"} /\ pc' # "map"
          /\ flash' = flash /\ map' = map
      BY <1>EraseInvalidDone
         DEF EraseInvalidDone, Walk, Booted, NoWalk, ram, work, TypeOK, Control,
            Target
    <2>2. target'.next # "clear"
      BY <1>EraseInvalidDone, <2>1
         DEF EraseInvalidDone, NoTarget, work, TypeOK, Control, Target
    <2> QED
      BY <1>EraseInvalidDone, <2>1, <2>2 DEF EraseInvalidDone, MapInv
  <1>PowerLoss. CASE PowerLoss
    <2>1. ~Booted' /\ walk'.loop \notin {"map", "gc", "rec"} /\ pc' # "map"
      BY <1>PowerLoss DEF PowerLoss, Reset, Booted, NoWalk, TypeOK, Control, Target
    <2>2. target'.next = "clear" => target' = target /\ map' = map
      BY <1>PowerLoss, <2>1 DEF PowerLoss, Reset, NoTarget, ram, work
    <2> QED
      BY <1>PowerLoss, <2>1, <2>2 DEF PowerLoss, MapInv
  <1>PowerLossInSector. CASE PowerLossInSector
    <2>1. ~Booted' /\ walk'.loop \notin {"map", "gc", "rec"} /\ pc' # "map"
      BY <1>PowerLossInSector
         DEF PowerLossInSector, Reset, Booted, NoWalk, TypeOK, Control, Target
    <2>2. target'.next = "clear" => target' = target /\ map' = map
      BY <1>PowerLossInSector, <2>1
         DEF PowerLossInSector, Reset, NoTarget, ram, work
    <2> QED
      BY <1>PowerLossInSector, <2>1, <2>2 DEF PowerLossInSector, MapInv
  <1>Stutter. CASE UNCHANGED vars
    <2>1. /\ flash' = flash /\ map' = map /\ pc' = pc /\ walk' = walk /\ target' = target
          /\ item' = item
      BY <1>Stutter DEF vars, ram, work
    <2>2. (Booted' <=> Booted) /\ \A a \in Addr : MapPage(a)' = MapPage(a) /\ (ToCopy(a)' <=> ToCopy(a))
      BY <1>Stutter, <2>1 DEF vars, Booted, ToCopy, Appending, MapPage, EntryPage, MapCell,
         EntryCell
    <2> QED
      BY <1>Stutter, <2>1, <2>2 DEF vars, MapInv
  <1> QED
    BY <1>PowerOn, <1>ScanPage, <1>ScanNone, <1>FindCell, <1>MapKey, <1>MapPrev,
       <1>RecoverNone, <1>Recover, <1>RecoverKey, <1>RecoverDone, <1>Recount, <1>Save,
       <1>WriteData, <1>WriteKey, <1>SetEndPosition, <1>OpenNextPage, <1>PageErase,
       <1>PageMark, <1>FormatNext, <1>FormatFirst, <1>Collect, <1>CollectPage, <1>CollectKey,
       <1>CollectErase, <1>CollectRetry, <1>CollectDone, <1>ClearAll, <1>ClearPage,
       <1>ClearReset,
       <1>EraseInvalid, <1>EraseInvalidPage, <1>EraseInvalidDone, <1>PowerLoss,
       <1>PowerLossInSector,
       <1>Stutter DEF Next, Step, Boot, Append, Format, Gc, Clear, Request

\* Both hold of a ring no power loss has broken.
LEMMA MapInvariant == ASSUME GcBelow PROVE Spec => [](Intact => RingInv /\ MapInv)
  <1>1. Init => MapInv
    BY DEF Init, MapInv, NoWalk, NoTarget, Booted
  <1>2. TypeInv /\ (Intact => RingInv /\ MapInv) /\ [Next]_vars => (Intact => RingInv /\ MapInv)'
    BY RingStep, MapStep, DamageStays
  <1> QED
    BY TypeInvariant, RingInit, <1>1, <1>2, PTL DEF Spec

\* ErasedPageIsDead: the page an erase is about to take away holds no pair that
\* is still mapped, be it the next page of the ring, the page that was
\* collected, or one that FTL_IOCTL_ERASE_INVALID_PAGE clears out.
THEOREM ErasedPagesAreDead == ASSUME GcBelow PROVE Spec => []ErasedPageIsDead
  <1>1. ASSUME TypeInv, Intact => RingInv /\ MapInv PROVE ErasedPageIsDead
    <2> SUFFICES ASSUME Intact, pc = "erase", target.next \in {"write", "gc", "invalid"},
                        NEW a \in Addr, map[a] # 0
                 PROVE  MapPage(a) # target.page
      BY DEF ErasedPageIsDead
    <2>1. RingInv /\ MapInv /\ Booted
      BY <1>1 DEF Booted
    <2>2. Mapped(flash, map[a], a) /\ EntryPage(map[a]) = MapPage(a)
      BY <2>1 DEF MapInv, MapPage, EntryPage
    <2>3. CASE target.next = "gc"
      <3>1. walk.loop = "gc" /\ target.page = walk.page
        BY <1>1, <2>1, <2>3 DEF TypeInv, RingInv, RoomInv, Control
      <3>2. ~ToCopy(a)
        BY <2>3 DEF ToCopy
      <3> QED
        BY <2>1, <3>1, <3>2 DEF MapInv
    <2>4. CASE target.next # "gc"
      <3>1. ~Valid(flash, target.page)
        BY <2>1, <2>4 DEF RingInv, CountInv
      <3> QED
        BY <2>2, <3>1 DEF Mapped
    <2> QED
      BY <2>3, <2>4
  <1> QED
    BY TypeInvariant, MapInvariant, <1>1, PTL

-----------------------------------------------------------------------------
(* What the table holds, and that recovery always finds room for what  *)
(* is alive.                                                                *)

\* The position of page p after page c; c itself is the last.
Off(c, p) == IF p > c THEN p - c ELSE p - c + NPages

\* Positions and pages.
LEMMA OffRing ==
    ASSUME NEW c \in Pages
    PROVE  /\ \A p \in Pages : Off(c, p) \in 1 .. NPages /\ At(c, Off(c, p)) = p
           /\ Off(c, c) = NPages /\ \A p \in Pages : Off(c, p) = NPages => p = c
           /\ \A p, q \in Pages : Off(c, p) = Off(c, q) => p = q
           /\ \A p \in Pages : PrevPage(p) \in Pages /\ NextPage(PrevPage(p)) = p
           /\ \A p \in Pages : IF Off(c, p) = 1 THEN PrevPage(p) = c
                               ELSE Off(c, PrevPage(p)) = Off(c, p) - 1 /\ PrevPage(p) # c
           /\ \A p \in Pages : p # NextPage(c) => Off(NextPage(c), p) = Off(c, p) - 1
  <1>1. c \in Nat /\ c < NPages /\ NPages \in Nat /\ NPages >= 3
    BY Sizes DEF Pages
  <1>2. \A p \in Pages : p \in Nat /\ p < NPages
    BY Sizes DEF Pages
  <1>3. \A p \in Pages : Off(c, p) \in 1 .. NPages
    BY <1>1, <1>2 DEF Off
  <1>4. \A p \in Pages : At(c, Off(c, p)) = p
    <2> SUFFICES ASSUME NEW p \in Pages PROVE At(c, Off(c, p)) = p
      OBVIOUS
    <2>1. Off(c, p) \in 0 .. NPages
      BY <1>1, <1>3
    <2>2. At(c, Off(c, p)) = IF c + Off(c, p) < NPages THEN c + Off(c, p) ELSE c + Off(c, p) - NPages
      BY <2>1, AtValue
    <2> QED
      BY <2>2, <1>1, <1>2 DEF Off
  <1>5. \A p \in Pages : NextPage(p) = IF p + 1 < NPages THEN p + 1 ELSE 0
    <2> SUFFICES ASSUME NEW p \in Pages PROVE NextPage(p) = IF p + 1 < NPages THEN p + 1 ELSE 0
      OBVIOUS
    <2> QED
      BY <1>1, <1>2, ModSucc DEF NextPage
  <1>6. \A p \in Pages : PrevPage(p) = IF p = 0 THEN NPages - 1 ELSE p - 1
    <2> SUFFICES ASSUME NEW p \in Pages PROVE PrevPage(p) = IF p = 0 THEN NPages - 1 ELSE p - 1
      OBVIOUS
    <2>1. p \in Nat /\ p < NPages
      BY <1>2
    <2>2. CASE p = 0
      BY <2>2, <1>1 DEF PrevPage
    <2>3. CASE p # 0
      <3>1. p + NPages - 1 = (p - 1) + NPages /\ p - 1 \in Nat /\ p - 1 < NPages
        BY <2>1, <2>3, <1>1
      <3>2. ((p - 1) + NPages) % NPages = p - 1
        BY <3>1, <1>1, ModShift
      <3> QED
        BY <3>1, <3>2, <2>3 DEF PrevPage
    <2> QED
      BY <2>2, <2>3
  <1>7. \A p \in Pages : PrevPage(p) \in Pages /\ NextPage(PrevPage(p)) = p
    BY <1>1, <1>2, <1>5, <1>6 DEF Pages
  <1>8. \A p \in Pages : IF Off(c, p) = 1 THEN PrevPage(p) = c
                         ELSE Off(c, PrevPage(p)) = Off(c, p) - 1 /\ PrevPage(p) # c
    BY <1>1, <1>2, <1>6 DEF Off
  <1>9. \A p \in Pages : p # NextPage(c) => Off(NextPage(c), p) = Off(c, p) - 1
    BY <1>1, <1>2, <1>5 DEF Off
  <1>10. Off(c, c) = NPages /\ \A p \in Pages : Off(c, p) = NPages => p = c
    BY <1>1, <1>2 DEF Off
  <1>11. \A p, q \in Pages : Off(c, p) = Off(c, q) => p = q
    BY <1>1, <1>2 DEF Off
  <1> QED
    BY <1>3, <1>4, <1>7, <1>8, <1>9, <1>10, <1>11

\* The valid pages of a run are those at the later positions.
LEMMA RunOff ==
    ASSUME NEW f, NEW c \in Pages, NEW m \in 0 .. NPages, IsRun(f, c, m)
    PROVE  \A p \in Pages : Valid(f, p) <=> Off(c, p) > m
  BY OffRing DEF IsRun

\* Keys are not blank and name one address.
LEMMA KeyFacts == /\ \A a \in Addr : Key(a) # Blank
                  /\ \A a, b \in Addr : Key(a) = Key(b) => a = b
  BY WordAssumption DEF Keys, Key

LEMMA OddAbove ==
    \A k \in 3 .. PageElement - 1, l \in Cells : Odd(k) /\ Odd(l) /\ l > k - 2 => l > k \/ l = k
  BY PageAssumption DEF Odd, Cells, INFO_size

\* The pair at cell k of page p is not newer than the one entry e means.
AsNew(c, p, k, e) == Off(c, p) < Off(c, EntryPage(e)) \/ (p = EntryPage(e) /\ k <= EntryCell(e) + 1)

\* The boot has read cell k of page p for the mapping table.
Seen(c, w, p, k) == w.loop = "map" => \/ Off(c, p) > Off(c, w.page)
                                      \/ p = w.page /\ k > w.key

\* Every pair in the ring that has been read is mapped or has a newer copy
\* that is.
NewInv ==
    Booted => \A a \in Addr :
      /\ \A p \in Pages, k \in Cells :
           Valid(flash, p) /\ Odd(k) /\ flash[p].word[k] = Key(a) /\ Seen(cur, walk, p, k) =>
             map[a] # 0 /\ AsNew(cur, p, k, map[a])
      /\ map[a] # 0 => Seen(cur, walk, EntryPage(map[a]), EntryCell(map[a]) + 1)

\* Every step keeps the newest pairs mapped: the boot reads the ring from the
\* newest page back, and what is written later is newer.
LEMMA NewStep == TypeInv /\ RingInv /\ MapInv /\ NewInv /\ [Next]_vars => NewInv'
  <1> SUFFICES ASSUME TypeInv, RingInv, MapInv, NewInv, [Next]_vars PROVE NewInv'
    OBVIOUS
  <1> USE DEF TypeInv
  <1>PowerOn. CASE PowerOn
    <2>1. ~Booted'
      BY <1>PowerOn
         DEF PowerOn, Booted, TypeOK, Control, Target, Reset, work, ram, NoTarget
    <2> QED
      BY <1>PowerOn, <2>1 DEF PowerOn, NewInv, Seen
  <1>ScanPage. CASE ScanPage
    <2>1. ~Booted'
      BY <1>ScanPage
         DEF ScanPage, Booted, TypeOK, Control, Target, work, ram, NoTarget
    <2> QED
      BY <1>ScanPage, <2>1 DEF ScanPage, NewInv, Seen
  <1>ScanNone. CASE ScanNone
    <2>1. ~Booted'
      BY <1>ScanNone
         DEF ScanNone, Booted, TypeOK, Control, Target, work, ram, NoTarget
    <2> QED
      BY <1>ScanNone, <2>1 DEF ScanNone, NewInv, Seen
  <1>FindCell. CASE FindCell
    <2>1. PICK f \in INFO_size .. PageElement :
             /\ IsFreeCell(f) /\ walk' = [NoWalk EXCEPT !.loop = "map", !.page = cur, !.key = f - 1]
      BY <1>FindCell DEF FindCell
    <2>2. walk'.loop = "map" /\ walk'.page = cur /\ walk'.key = f - 1
      BY <2>1 DEF NoWalk
    <2>3. cur' = cur /\ flash' = flash /\ map' = EmptyMap /\ cur \in Pages
      BY <1>FindCell DEF FindCell, TypeOK
    <2>4. ASSUME NEW a \in Addr, NEW p \in Pages, NEW k \in Cells, flash[p].word[k] = Key(a)
          PROVE  ~Seen(cur', walk', p, k)
      <3>1. ~(Off(cur, p) > Off(cur, cur))
        BY <2>3, OffRing, Sizes
      <3>2. ASSUME p = cur, k > f - 1 PROVE FALSE
        <4>1. k \in f .. PageElement - 1
          BY <3>2, Sizes DEF Cells, INFO_size
        <4>2. flash[cur].word[k] = Blank
          BY <4>1, <2>1 DEF IsFreeCell
        <4> QED
          BY <3>2, <4>2, <2>4, KeyFacts
      <3> QED
        BY <2>2, <2>3, <3>1, <3>2 DEF Seen
    <2>5. \A a \in Addr : map'[a] = 0
      BY <2>3 DEF EmptyMap
    <2> QED
      BY <2>3, <2>4, <2>5 DEF NewInv
  <1>MapKey. CASE MapKey
    <2> DEFINE k == walk.key
               w == flash[walk.page].word[k]
    <2>1. /\ k \in 3 .. PageElement - 1 /\ walk.page \in Pages /\ walk.loop = "map"
          /\ Booted /\ Odd(k)
      BY <1>MapKey, WalkFields DEF MapKey, TypeOK, Control, Booted, Target, MapInv
    <2>2. k \in Cells /\ k - 1 \in Cells /\ ~Odd(k - 1) /\ k - 1 + 1 = k
          /\ \A l \in Cells : Odd(l) /\ l > k - 2 => l > k \/ l = k
      BY <2>1, OddSteps, OddAbove
    <2>3. /\ flash' = flash /\ cur' = cur /\ cur \in Pages
          /\ walk'.loop = "map" /\ walk'.page = walk.page /\ walk'.key = k - 2
      BY <1>MapKey, <2>1 DEF MapKey, TypeOK, Walk
    <2>4. \A a \in Addr : map'[a] = IF KeyAt(w) /\ Unmapped(w.addr) /\ a = w.addr
                                    THEN PhysAddr(walk.page, k - 1) ELSE map[a]
      BY <1>MapKey DEF MapKey, TypeOK
    <2>5. KeyAt(w) => w.addr \in Addr /\ w = Key(w.addr)
      BY KeyOf
    <2>6. LET e == PhysAddr(walk.page, k - 1)
          IN  EntryPage(e) = walk.page /\ EntryCell(e) + 1 = k /\ e # 0
      BY <2>1, <2>2, EntryPlace
    <2>7. \A p \in Pages, l \in Cells :
            Odd(l) /\ Seen(cur', walk', p, l) => Seen(cur, walk, p, l) \/ (p = walk.page /\ l = k)
      BY <2>1, <2>2, <2>3 DEF Seen, Cells, INFO_size
    <2>11. \A p \in Pages, l \in Cells :
            Seen(cur, walk, p, l) \/ (p = walk.page /\ l = k) => Seen(cur', walk', p, l)
      BY <2>1, <2>2, <2>3 DEF Seen, Cells, INFO_size
    <2>8. w = flash[walk.page].word[k] /\ k = walk.key
      OBVIOUS
    <2> HIDE DEF k, w
    <2>9. ASSUME NEW a \in Addr, NEW p \in Pages, NEW l \in Cells, Valid(flash, p), Odd(l),
                 flash[p].word[l] = Key(a), Seen(cur', walk', p, l)
          PROVE  map'[a] # 0 /\ AsNew(cur, p, l, map'[a])
      <3>1. CASE Seen(cur, walk, p, l)
        <4>1. map[a] # 0 /\ AsNew(cur, p, l, map[a])
          BY <2>1, <2>9, <3>1 DEF NewInv
        <4>2. map'[a] = map[a]
          BY <2>4, <4>1 DEF Unmapped
        <4> QED
          BY <4>1, <4>2
      <3>2. CASE p = walk.page /\ l = k
        <4>1. w = Key(a) /\ KeyAt(w) /\ w.addr = a
          BY <2>8, <2>9, <3>2 DEF KeyAt, Keys, Key
        <4>2. CASE map[a] = 0
          <5>1. map'[a] = PhysAddr(walk.page, k - 1)
            BY <2>4, <4>1, <4>2 DEF Unmapped
          <5> QED
            BY <5>1, <2>1, <2>6, <3>2 DEF AsNew
        <4>3. CASE map[a] # 0
          <5>1. map'[a] = map[a]
            BY <2>4, <4>1, <4>3 DEF Unmapped
          <5>2. Seen(cur, walk, EntryPage(map[a]), EntryCell(map[a]) + 1)
            BY <2>1, <4>3 DEF NewInv
          <5>3. EntryPage(map[a]) \in Pages /\ EntryCell(map[a]) \in Cells
            BY <2>1, <4>3 DEF MapInv, Mapped
          <5>4. Off(cur, p) \in 1 .. NPages /\ Off(cur, EntryPage(map[a])) \in 1 .. NPages
            BY <5>3, <2>3, OffRing
          <5> QED
            BY <5>1, <5>2, <5>3, <5>4, <2>1, <2>8, <3>2, <4>3 DEF AsNew, Seen, Cells, INFO_size
        <4> QED
          BY <4>2, <4>3
      <3> QED
        BY <2>7, <2>9, <3>1, <3>2
    <2>10. ASSUME NEW a \in Addr, map'[a] # 0 PROVE Seen(cur', walk', EntryPage(map'[a]), EntryCell(map'[a]) + 1)
      <3>1. CASE map'[a] = map[a]
        <4>1. Seen(cur, walk, EntryPage(map[a]), EntryCell(map[a]) + 1)
          BY <2>1, <2>10, <3>1 DEF NewInv
        <4>2. EntryPage(map[a]) \in Pages /\ EntryCell(map[a]) + 1 \in Cells
          BY <2>1, <2>10, <3>1, Parity DEF MapInv, Mapped
        <4> QED
          BY <3>1, <4>1, <4>2, <2>11
      <3>2. CASE map'[a] = PhysAddr(walk.page, k - 1)
        BY <3>2, <2>1, <2>2, <2>3, <2>6, <2>8 DEF Seen, Cells, INFO_size
      <3> QED
        BY <3>1, <3>2, <2>4
    <2> QED
      BY <2>3, <2>9, <2>10 DEF NewInv
  <1>MapPrev. CASE MapPrev
    <2>1. Booted /\ walk.loop = "map" /\ walk.page \in Pages /\ cur \in Pages /\ walk.key < 3
          /\ Valid(flash, walk.page)
      BY <1>MapPrev, WalkFields DEF MapPrev, TypeOK, Control, Booted, Target, MapInv
    <2>2. flash' = flash /\ cur' = cur /\ map' = map
      BY <1>MapPrev DEF MapPrev, ram
    <2>3. IsRun(flash, cur, NFree) /\ flash \in [Pages -> Page] /\ NFree \in 0 .. NPages
      BY <2>1, FreeHas DEF RingInv, RunInv, NFree, TypeOK
    <2>4. PrevPage(walk.page) \in Pages /\ NextPage(PrevPage(walk.page)) = walk.page
      BY <2>1, OffRing
    <2>5. \A k \in Cells : Odd(k) => k > walk.key /\ ~(k > PageElement - 1) /\ k \in Nat
      BY <2>1, WalkFields, Sizes, PageAssumption DEF TypeOK, Cells, INFO_size, Odd
    <2>6. CASE HasPrev(walk.page)
      <3>1. /\ walk'.loop = "map" /\ walk'.page = PrevPage(walk.page)
            /\ walk'.key = PageElement - 1
        <4>1. LastKey(PrevPage(walk.page)) = PageElement - 1
          BY <2>4, LastKeyFull DEF RingInv
        <4> QED
          BY <1>MapPrev, <2>1, <2>6, <4>1 DEF MapPrev, TypeOK, Walk
      <3>2. Off(cur, walk.page) # 1
        <4>1. ASSUME Off(cur, walk.page) = 1 PROVE FALSE
          <5>1. PrevPage(walk.page) = cur
            BY <4>1, <2>1, OffRing
          <5>2. flash[walk.page].seq = NextSeq(flash[cur].seq)
            BY <5>1, <2>6 DEF HasPrev
          <5> QED
            BY <5>2, <2>1, <2>3, RunNext
        <4> QED
          BY <4>1
      <3>3. /\ Off(cur, walk'.page) = Off(cur, walk.page) - 1
            /\ \A p \in Pages : Off(cur, p) \in 1 .. NPages
            /\ \A p \in Pages : Off(cur, p) = Off(cur, walk.page) => p = walk.page
        BY <3>1, <3>2, <2>1, OffRing
      <3>4. \A p \in Pages, k \in Cells : Odd(k) => (Seen(cur', walk', p, k) <=> Seen(cur, walk, p, k))
        <4> SUFFICES ASSUME NEW p \in Pages, NEW k \in Cells, Odd(k) PROVE Seen(cur', walk', p, k) <=> Seen(cur, walk, p, k)
          OBVIOUS
        <4>1. Off(cur, p) > Off(cur, walk'.page) <=> Off(cur, p) > Off(cur, walk.page) \/ p = walk.page
          BY <3>3, <2>1
        <4> QED
          BY <4>1, <2>1, <2>2, <2>5, <3>1 DEF Seen
      <3>5. \A a \in Addr : map[a] # 0 => /\ EntryPage(map[a]) \in Pages
                                         /\ EntryCell(map[a]) + 1 \in Cells /\ Odd(EntryCell(map[a]) + 1)
        BY <2>1, Parity DEF MapInv, Mapped
      <3>6. \A a \in Addr : map[a] # 0 => Seen(cur', walk', EntryPage(map[a]), EntryCell(map[a]) + 1)
        <4>1. \A a \in Addr : map[a] # 0 => Seen(cur, walk, EntryPage(map[a]), EntryCell(map[a]) + 1)
          BY <2>1 DEF NewInv
        <4> QED
          BY <4>1, <3>4, <3>5
      <3>7. \A a \in Addr : map'[a] # 0 => Seen(cur', walk', EntryPage(map'[a]), EntryCell(map'[a]) + 1)
        BY <3>6, <2>2
      <3> QED
        BY <2>1, <2>2, <3>4, <3>7 DEF NewInv
    <2>7. CASE ~HasPrev(walk.page)
      <3>1. walk'.loop # "map"
        BY <1>MapPrev, <2>7 DEF MapPrev, NoWalk
      <3>2. ASSUME NEW p \in Pages, Valid(flash, p), Off(cur, p) < Off(cur, walk.page) PROVE FALSE
        <4> DEFINE q == PrevPage(walk.page)
        <4>1. /\ Off(cur, q) = Off(cur, walk.page) - 1 /\ q # cur
              /\ Off(cur, p) \in 1 .. NPages /\ Off(cur, q) \in 1 .. NPages
          BY <3>2, <2>1, <2>4, OffRing
        <4>2. Off(cur, p) > NFree
          BY <3>2, <2>1, <2>3, RunOff
        <4>3. Off(cur, q) > NFree
          BY <4>1, <4>2, <3>2, <2>3, <2>1, OffRing
        <4>4. Valid(flash, q)
          BY <4>3, <2>1, <2>3, <2>4, RunOff
        <4>5. flash[NextPage(q)].seq = NextSeq(flash[q].seq)
          BY <4>1, <4>4, <2>1, <2>3, <2>4, RunNext
        <4> QED
          BY <4>4, <4>5, <2>4, <2>7 DEF HasPrev, Valid, ftl_page_is_valid
      <3>3. \A p \in Pages, k \in Cells : Valid(flash, p) /\ Odd(k) => Seen(cur, walk, p, k)
        <4> SUFFICES ASSUME NEW p \in Pages, NEW k \in Cells, Valid(flash, p), Odd(k) PROVE Seen(cur, walk, p, k)
          OBVIOUS
        <4>1. /\ Off(cur, p) \in 1 .. NPages /\ Off(cur, walk.page) \in 1 .. NPages
              /\ Off(cur, p) = Off(cur, walk.page) => p = walk.page
          BY <2>1, OffRing
        <4> QED
          BY <4>1, <3>2, <2>5, <2>1 DEF Seen
      <3> QED
        BY <2>1, <2>2, <3>1, <3>3 DEF NewInv, Seen
    <2> QED
      BY <2>6, <2>7
  <1>RecoverNone. CASE RecoverNone
    <2>1. Booted /\ cur' = cur /\ map' = map /\ flash' = flash /\ walk.loop # "map"
      BY <1>RecoverNone
         DEF RecoverNone, Booted, ram, work, TypeOK, Control, Target, RingInv,
            RoomInv, Appending, LogInv, ErasedInv
    <2>2. walk'.loop # "map"
      BY <1>RecoverNone, <2>1
         DEF RecoverNone, NoWalk, Walk, work, TypeOK, Control, Target
    <2> QED
      BY <1>RecoverNone, <2>1, <2>2 DEF RecoverNone, NewInv, Seen
  <1>Recover. CASE Recover
    <2>1. Booted /\ cur' = cur /\ map' = map /\ flash' = flash /\ walk.loop # "map"
      BY <1>Recover
         DEF Recover, Booted, ram, work, TypeOK, Control, Target, RingInv, RoomInv,
            Appending, LogInv, ErasedInv
    <2>2. walk'.loop # "map"
      BY <1>Recover, <2>1 DEF Recover, NoWalk, Walk, work, TypeOK, Control, Target
    <2> QED
      BY <1>Recover, <2>1, <2>2 DEF Recover, NewInv, Seen
  <1>RecoverKey. CASE RecoverKey
    <2>1. Booted /\ cur' = cur /\ map' = map /\ flash' = flash /\ walk.loop # "map"
      BY <1>RecoverKey
         DEF RecoverKey, Booted, ram, work, TypeOK, Control, Target, RingInv,
            RoomInv, Appending, LogInv, ErasedInv
    <2>2. walk'.loop # "map"
      BY <1>RecoverKey, <2>1
         DEF RecoverKey, NoWalk, Walk, work, TypeOK, Control, Target
    <2> QED
      BY <1>RecoverKey, <2>1, <2>2 DEF RecoverKey, NewInv, Seen
  <1>RecoverDone. CASE RecoverDone
    <2>1. /\ Booted' => Booted /\ cur' = cur /\ map' = map /\ walk.loop # "map"
          /\ walk' = NoWalk /\ walk.page \in Pages
      BY <1>RecoverDone DEF RecoverDone, Booted, ram, TypeOK, Control, Target
    <2>2. \A q \in Pages : /\ flash'[q].word = flash[q].word
                           /\ flash'[q].mark = IF q = walk.page THEN "zero" ELSE flash[q].mark
      BY <1>RecoverDone, <2>1, HeaderWritten DEF RecoverDone, TypeOK
    <2>3. \A p \in Pages : Valid(flash', p) => /\ Valid(flash, p)
                                              /\ flash'[p].word = flash[p].word
      BY <2>2 DEF Valid
    <2> QED
      BY <2>1, <2>3 DEF NewInv, Seen, NoWalk
  <1>Recount. CASE Recount
    <2>1. Booted /\ cur' = cur /\ map' = map /\ flash' = flash /\ walk.loop # "map"
      BY <1>Recount
         DEF Recount, Booted, ram, work, TypeOK, Control, Target, RingInv, RoomInv,
            Appending, LogInv, ErasedInv
    <2>2. walk'.loop # "map"
      BY <1>Recount, <2>1 DEF Recount, NoWalk, Walk, work, TypeOK, Control, Target
    <2> QED
      BY <1>Recount, <2>1, <2>2 DEF Recount, NewInv, Seen
  <1>Save. CASE \E s \in Saves : Save(s[1], s[2])
    <2>1. Booted /\ cur' = cur /\ map' = map /\ flash' = flash /\ walk.loop # "map"
      BY <1>Save
         DEF Save, Booted, ram, work, TypeOK, Control, Target, RingInv, RoomInv,
            Appending, LogInv, ErasedInv
    <2>2. walk'.loop # "map"
      BY <1>Save, <2>1 DEF Save, NoWalk, Walk, work, TypeOK, Control, Target
    <2> QED
      BY <1>Save, <2>1, <2>2 DEF Save, NewInv, Seen
  <1>WriteData. CASE WriteData
    <2>1. Booted' => Booted /\ cur' = cur /\ map' = map /\ walk' = walk /\ walk.loop # "map"
      BY <1>WriteData
         DEF WriteData, Booted, ram, work, AfterErase, TypeOK, Control, Target,
            RingInv, RoomInv, Appending, LogInv, ErasedInv
    <2>2. cur \in Pages /\ free \in Cells /\ ~Odd(free)
      BY <1>WriteData, <2>1, Sizes
         DEF WriteData, Room, Cells, INFO_size, RingInv, WordsInv, Booted, TypeOK,
            Control, Target
    <2>3. \A p \in Pages : Valid(flash', p) => /\ Valid(flash, p)
                                              /\ \A k \in Cells : Odd(k) => flash'[p].word[k] = flash[p].word[k]
      BY <1>WriteData, <2>1, <2>2, WordWritten
         DEF WriteData, TypeOK, Control, Target, Valid
    <2> QED
      BY <1>WriteData, <2>1, <2>2, <2>3 DEF WriteData, NewInv, Seen
  <1>WriteKey. CASE WriteKey
    <2>1. /\ cur \in Pages /\ free \in Cells /\ ~Odd(free) /\ free + 1 \in Cells
          /\ item.addr \in Addr /\ Booted /\ walk.loop # "map"
          /\ \A k \in Cells : k >= free + 1 => flash[cur].word[k] = Blank
      BY <1>WriteKey, Sizes
         DEF WriteKey, Room, Cells, INFO_size, RingInv, WordsInv, TypeOK, Control, Target,
         Booted,
         Item, LogInv, CurrentInv, UnwrittenFrom, RoomInv, Appending
    <2>2. /\ \A q \in Pages : flash'[q].mark = flash[q].mark
          /\ \A q \in Pages : \A j \in Cells :
               flash'[q].word[j] = IF q = cur /\ j = free + 1 THEN Key(item.addr) ELSE flash[q].word[j]
      BY <1>WriteKey, <2>1, KeyWritten
    <2>3. \A a \in Addr : map'[a] = IF a = item.addr THEN PhysAddr(cur, free) ELSE map[a]
      BY <1>WriteKey DEF WriteKey, TypeOK
    <2>4. walk' = walk /\ cur' = cur
      BY <1>WriteKey DEF WriteKey
    <2>5. LET e == PhysAddr(cur, free) IN EntryPage(e) = cur /\ EntryCell(e) = free /\ e # 0
      BY <2>1, EntryPlace
    <2>6. ASSUME NEW a \in Addr, NEW p \in Pages, NEW k \in Cells, Valid(flash', p), Odd(k),
                 flash'[p].word[k] = Key(a)
          PROVE  map'[a] # 0 /\ AsNew(cur, p, k, map'[a])
      <3>1. Valid(flash, p)
        BY <2>6, <2>2 DEF Valid
      <3>2. CASE a = item.addr
        <4>1. map'[a] = PhysAddr(cur, free)
          BY <3>2, <2>3
        <4>2. p = cur => k <= free + 1
          <5>1. p = cur /\ k > free + 1 => flash[p].word[k] = Blank /\ flash'[p].word[k] = flash[p].word[k]
            BY <2>1, <2>2 DEF Cells, INFO_size
          <5> QED
            BY <5>1, <2>6, <2>1, KeyFacts DEF Cells, INFO_size
        <4>3. p # cur => Off(cur, p) < Off(cur, cur)
          BY <2>1, OffRing, Sizes
        <4> QED
          BY <4>1, <4>2, <4>3, <2>5 DEF AsNew
      <3>3. CASE a # item.addr
        <4>1. flash[p].word[k] = Key(a)
          BY <3>3, <2>1, <2>2, <2>6, KeyFacts
        <4> QED
          BY <4>1, <3>1, <3>3, <2>1, <2>3, <2>6 DEF NewInv, Seen
      <3> QED
        BY <3>2, <3>3
    <2> QED
      BY <2>1, <2>4, <2>6 DEF NewInv, Seen
  <1>SetEndPosition. CASE SetEndPosition
    <2>1. Booted' => Booted /\ cur' = cur /\ map' = map /\ walk' = walk /\ walk.loop # "map"
      BY <1>SetEndPosition
         DEF SetEndPosition, Booted, ram, work, AfterErase, TypeOK, Control, Target,
            RingInv, RoomInv, Appending, LogInv, ErasedInv
    <2>2. cur \in Pages
      BY <1>SetEndPosition, <2>1 DEF SetEndPosition, TypeOK, Control, Target
    <2>3. \A q \in Pages : flash'[q].mark = flash[q].mark /\ flash'[q].word = flash[q].word
      BY <1>SetEndPosition, <2>1, <2>2, WordKeeps DEF SetEndPosition, TypeOK, Page
    <2>4. \A p \in Pages : Valid(flash', p) => /\ Valid(flash, p)
                                              /\ \A k \in Cells : Odd(k) => flash'[p].word[k] = flash[p].word[k]
      BY <1>SetEndPosition, <2>1, <2>2, <2>3 DEF SetEndPosition, Valid
    <2> QED
      BY <1>SetEndPosition, <2>1, <2>2, <2>3, <2>4 DEF SetEndPosition, NewInv, Seen
  <1>OpenNextPage. CASE OpenNextPage
    <2>1. Booted /\ cur' = cur /\ map' = map /\ flash' = flash /\ walk.loop # "map"
      BY <1>OpenNextPage
         DEF OpenNextPage, Booted, ram, work, TypeOK, Control, Target, RingInv,
            RoomInv, Appending, LogInv, ErasedInv
    <2>2. walk'.loop # "map"
      BY <1>OpenNextPage, <2>1
         DEF OpenNextPage, NoWalk, Walk, work, TypeOK, Control, Target
    <2> QED
      BY <1>OpenNextPage, <2>1, <2>2 DEF OpenNextPage, NewInv, Seen
  <1>PageErase. CASE PageErase
    <2>1. Booted' => Booted /\ cur' = cur /\ map' = map /\ walk' = walk /\ walk.loop # "map"
      BY <1>PageErase
         DEF PageErase, Booted, ram, work, AfterErase, TypeOK, Control, Target,
            RingInv, RoomInv, Appending, LogInv, ErasedInv
    <2>2. target.page \in Pages
      BY <1>PageErase, <2>1 DEF PageErase, TypeOK, Control, Target
    <2>3. \A q \in Pages : q # target.page => flash'[q] = flash[q]
      BY <1>PageErase, <2>1, <2>2 DEF PageErase, TypeOK
    <2>4. flash' = flash \/ flash'[target.page].mark = "blank"
      BY <1>PageErase, <2>1, <2>2, <2>3, PageErased DEF PageErase, TypeOK
    <2>5. \A p \in Pages : Valid(flash', p) => /\ Valid(flash, p)
                                              /\ \A k \in Cells : Odd(k) => flash'[p].word[k] = flash[p].word[k]
      BY <1>PageErase, <2>1, <2>2, <2>3, <2>4 DEF PageErase, Valid
    <2> QED
      BY <1>PageErase, <2>1, <2>2, <2>3, <2>4, <2>5 DEF PageErase, NewInv, Seen
  <1>PageMark. CASE PageMark
    <2>1. Booted' => Booted /\ cur' = cur /\ map' = map /\ walk' = walk /\ walk.loop # "map"
      BY <1>PageMark
         DEF PageMark, Booted, ram, work, AfterErase, TypeOK, Control, Target, RingInv, RoomInv,
            Appending, LogInv, ErasedInv
    <2>2. target.page \in Pages
      BY <1>PageMark DEF PageMark, TypeOK, Target
    <2>3. \A q \in Pages : /\ flash'[q].word = flash[q].word
                           /\ flash'[q].mark = IF q = target.page THEN "erased" ELSE flash[q].mark
      BY <1>PageMark, <2>2, MarkWritten DEF PageMark, TypeOK
    <2>4. \A p \in Pages : Valid(flash', p) => /\ Valid(flash, p)
                                              /\ flash'[p].word = flash[p].word
      BY <2>3 DEF Valid
    <2> QED
      BY <2>1, <2>4 DEF NewInv, Seen
  <1>FormatNext. CASE FormatNext
    <2>1. /\ Booted /\ walk.loop # "map" /\ walk' = walk /\ map' = map /\ cur' = target.page
          /\ cur \in Pages /\ target.page \in Pages
      BY <1>FormatNext DEF FormatNext, TypeOK, Control, Target, Booted, RingInv, RoomInv,
         Appending
    <2>2. cur' = NextPage(cur) /\ ~Valid(flash, cur')
      BY <1>FormatNext, <2>1 DEF FormatNext, RingInv, CountInv
    <2>3. \A q \in Pages : /\ flash'[q].word = flash[q].word
                           /\ q # target.page => flash'[q].mark = flash[q].mark
      BY <1>FormatNext, <2>1, HeaderWritten DEF FormatNext, FormatAs, TypeOK
    <2>4. \A k \in Cells : flash[cur'].word[k] = Blank
      BY <1>FormatNext, <2>1 DEF FormatNext, RingInv, LogInv, ErasedInv, UnwrittenFrom, Cells
    <2>5. \A p \in Pages : p # cur' => Off(cur', p) = Off(cur, p) - 1
      BY <2>1, <2>2, OffRing
    <2>6. \A p \in Pages : Off(cur, p) \in 1 .. NPages
      BY <2>1, OffRing
    <2>7. ASSUME NEW a \in Addr, NEW p \in Pages, NEW k \in Cells, Valid(flash', p), Odd(k),
                 flash'[p].word[k] = Key(a)
          PROVE  map'[a] # 0 /\ AsNew(cur', p, k, map'[a])
      <3>1. p # cur'
        BY <2>3, <2>4, <2>7, KeyFacts
      <3>2. Valid(flash, p) /\ flash[p].word[k] = Key(a)
        BY <3>1, <2>1, <2>3, <2>7 DEF Valid
      <3>3. map[a] # 0 /\ AsNew(cur, p, k, map[a])
        BY <3>2, <2>1, <2>7 DEF NewInv, Seen
      <3>4. EntryPage(map[a]) \in Pages /\ EntryPage(map[a]) # cur'
        BY <3>3, <2>1, <2>2 DEF MapInv, Mapped
      <3> QED
        BY <2>1, <2>5, <2>6, <3>1, <3>3, <3>4 DEF AsNew
    <2> QED
      BY <2>1, <2>7 DEF NewInv, Seen
  <1>FormatFirst. CASE FormatFirst
    <2>1. /\ walk.loop # "map" /\ walk' = walk /\ map' = map /\ target.page \in Pages
          /\ Booted' => target.next = "clear"
      BY <1>FormatFirst DEF FormatFirst, TypeOK, Control, Target, Booted
    <2>2. \A q \in Pages : /\ flash'[q].word = flash[q].word
                           /\ q # target.page => flash'[q].mark = flash[q].mark
      BY <1>FormatFirst, <2>1, HeaderWritten DEF FormatFirst, FormatAs, TypeOK
    <2>3. \A k \in Cells : flash[target.page].word[k] = Blank
      BY <1>FormatFirst, <2>1 DEF FormatFirst, RingInv, LogInv, ErasedInv, UnwrittenFrom, Cells
    <2>4. \A p \in Pages : Valid(flash', p) => p = target.page
      BY <1>FormatFirst, <2>1, <2>2 DEF FormatFirst, RingInv, CountInv, Valid
    <2>5. ASSUME Booted' PROVE \A a \in Addr : map'[a] = 0
      BY <2>5, <2>1 DEF MapInv, EmptyMap
    <2> QED
      BY <2>1, <2>2, <2>3, <2>4, <2>5, KeyFacts DEF NewInv
  <1>Collect. CASE \E t \in GcCalls : Collect(t)
    <2>1. Booted /\ cur' = cur /\ map' = map /\ flash' = flash /\ walk.loop # "map"
      BY <1>Collect
         DEF Collect, Booted, ram, work, TypeOK, Control, Target, RingInv, RoomInv,
            Appending, LogInv, ErasedInv
    <2>2. walk'.loop # "map"
      BY <1>Collect, <2>1 DEF Collect, NoWalk, Walk, work, TypeOK, Control, Target
    <2> QED
      BY <1>Collect, <2>1, <2>2 DEF Collect, NewInv, Seen
  <1>CollectPage. CASE CollectPage
    <2>1. Booted /\ cur' = cur /\ map' = map /\ flash' = flash /\ walk.loop # "map"
      BY <1>CollectPage
         DEF CollectPage, Booted, ram, work, TypeOK, Control, Target, RingInv,
            RoomInv, Appending, LogInv, ErasedInv
    <2>2. walk'.loop # "map"
      BY <1>CollectPage, <2>1
         DEF CollectPage, NoWalk, Walk, work, TypeOK, Control, Target
    <2> QED
      BY <1>CollectPage, <2>1, <2>2 DEF CollectPage, NewInv, Seen
  <1>CollectKey. CASE CollectKey
    <2>1. Booted /\ cur' = cur /\ map' = map /\ flash' = flash /\ walk.loop # "map"
      BY <1>CollectKey
         DEF CollectKey, Booted, ram, work, TypeOK, Control, Target, RingInv,
            RoomInv, Appending, LogInv, ErasedInv
    <2>2. walk'.loop # "map"
      BY <1>CollectKey, <2>1
         DEF CollectKey, NoWalk, Walk, work, TypeOK, Control, Target
    <2> QED
      BY <1>CollectKey, <2>1, <2>2 DEF CollectKey, NewInv, Seen
  <1>CollectErase. CASE CollectErase
    <2>1. Booted /\ cur' = cur /\ map' = map /\ flash' = flash /\ walk.loop # "map"
      BY <1>CollectErase
         DEF CollectErase, Booted, ram, work, TypeOK, Control, Target, RingInv,
            RoomInv, Appending, LogInv, ErasedInv
    <2>2. walk'.loop # "map"
      BY <1>CollectErase, <2>1
         DEF CollectErase, NoWalk, Walk, work, TypeOK, Control, Target
    <2> QED
      BY <1>CollectErase, <2>1, <2>2 DEF CollectErase, NewInv, Seen
  <1>CollectRetry. CASE CollectRetry
    <2>1. Booted /\ cur' = cur /\ map' = map /\ flash' = flash /\ walk.loop # "map"
      BY <1>CollectRetry
         DEF CollectRetry, Booted, ram, work, TypeOK, Control, Target, RingInv,
            RoomInv, Appending, LogInv, ErasedInv
    <2>2. walk'.loop # "map"
      BY <1>CollectRetry, <2>1
         DEF CollectRetry, NoWalk, Walk, work, TypeOK, Control, Target
    <2> QED
      BY <1>CollectRetry, <2>1, <2>2 DEF CollectRetry, NewInv, Seen
  <1>CollectDone. CASE CollectDone
    <2>1. Booted /\ cur' = cur /\ map' = map /\ flash' = flash /\ walk.loop # "map"
      BY <1>CollectDone
         DEF CollectDone, Booted, ram, work, TypeOK, Control, Target, RingInv,
            RoomInv, Appending, LogInv, ErasedInv
    <2>2. walk'.loop # "map"
      BY <1>CollectDone, <2>1
         DEF CollectDone, NoWalk, Walk, work, TypeOK, Control, Target
    <2> QED
      BY <1>CollectDone, <2>1, <2>2 DEF CollectDone, NewInv, Seen
  <1>ClearAll. CASE ClearAll
    <2>1. ~Booted'
      BY <1>ClearAll
         DEF ClearAll, Booted, TypeOK, Control, Target, work, ram, NoTarget
    <2> QED
      BY <1>ClearAll, <2>1 DEF ClearAll, NewInv, Seen
  <1>ClearPage. CASE ClearPage
    <2>1. ~Booted'
      BY <1>ClearPage
         DEF ClearPage, Booted, TypeOK, Control, Target, work, ram, NoTarget
    <2> QED
      BY <1>ClearPage, <2>1 DEF ClearPage, NewInv, Seen
  <1>ClearReset. CASE ClearReset
    <2>1. ~Booted'
      BY <1>ClearReset
         DEF ClearReset, Booted, TypeOK, Control, Target, work, ram, NoTarget
    <2> QED
      BY <1>ClearReset, <2>1 DEF ClearReset, NewInv, Seen
  <1>EraseInvalid. CASE EraseInvalid
    <2>1. Booted /\ cur' = cur /\ map' = map /\ flash' = flash /\ walk.loop # "map"
      BY <1>EraseInvalid
         DEF EraseInvalid, Booted, ram, work, TypeOK, Control, Target, RingInv,
            RoomInv, Appending, LogInv, ErasedInv
    <2>2. walk'.loop # "map"
      BY <1>EraseInvalid, <2>1
         DEF EraseInvalid, NoWalk, Walk, work, TypeOK, Control, Target
    <2> QED
      BY <1>EraseInvalid, <2>1, <2>2 DEF EraseInvalid, NewInv, Seen
  <1>EraseInvalidPage. CASE EraseInvalidPage
    <2>1. Booted /\ cur' = cur /\ map' = map /\ flash' = flash /\ walk.loop # "map"
      BY <1>EraseInvalidPage
         DEF EraseInvalidPage, Booted, ram, work, TypeOK, Control, Target, RingInv,
            RoomInv, Appending, LogInv, ErasedInv
    <2>2. walk'.loop # "map"
      BY <1>EraseInvalidPage, <2>1
         DEF EraseInvalidPage, NoWalk, Walk, work, TypeOK, Control, Target
    <2> QED
      BY <1>EraseInvalidPage, <2>1, <2>2 DEF EraseInvalidPage, NewInv, Seen
  <1>EraseInvalidDone. CASE EraseInvalidDone
    <2>1. Booted /\ cur' = cur /\ map' = map /\ flash' = flash /\ walk.loop # "map"
      BY <1>EraseInvalidDone
         DEF EraseInvalidDone, Booted, ram, work, TypeOK, Control, Target, RingInv,
            RoomInv, Appending, LogInv, ErasedInv
    <2>2. walk'.loop # "map"
      BY <1>EraseInvalidDone, <2>1
         DEF EraseInvalidDone, NoWalk, Walk, work, TypeOK, Control, Target
    <2> QED
      BY <1>EraseInvalidDone, <2>1, <2>2 DEF EraseInvalidDone, NewInv, Seen
  <1>PowerLoss. CASE PowerLoss
    <2>1. ~Booted'
      BY <1>PowerLoss
         DEF PowerLoss, Booted, TypeOK, Control, Target, Reset, work, ram, NoTarget
    <2> QED
      BY <1>PowerLoss, <2>1 DEF PowerLoss, NewInv, Seen
  <1>PowerLossInSector. CASE PowerLossInSector
    <2>1. ~Booted'
      BY <1>PowerLossInSector
         DEF PowerLossInSector, Booted, TypeOK, Control, Target, Reset, work, ram,
            NoTarget
    <2> QED
      BY <1>PowerLossInSector, <2>1 DEF PowerLossInSector, NewInv, Seen
  <1>Stutter. CASE UNCHANGED vars
    <2>1. flash' = flash /\ map' = map /\ cur' = cur /\ walk' = walk /\ (Booted' <=> Booted)
      BY <1>Stutter DEF vars, ram, work, Booted
    <2> QED
      BY <1>Stutter, <2>1 DEF vars, NewInv, Seen
  <1> QED
    BY <1>PowerOn, <1>ScanPage, <1>ScanNone, <1>FindCell, <1>MapKey, <1>MapPrev,
       <1>RecoverNone, <1>Recover, <1>RecoverKey, <1>RecoverDone, <1>Recount, <1>Save,
       <1>WriteData, <1>WriteKey, <1>SetEndPosition, <1>OpenNextPage, <1>PageErase,
       <1>PageMark, <1>FormatNext, <1>FormatFirst, <1>Collect, <1>CollectPage, <1>CollectKey,
       <1>CollectErase, <1>CollectRetry, <1>CollectDone, <1>ClearAll, <1>ClearPage,
       <1>ClearReset,
       <1>EraseInvalid, <1>EraseInvalidPage, <1>EraseInvalidDone, <1>PowerLoss,
       <1>PowerLossInSector,
       <1>Stutter DEF Next, Step, Boot, Append, Format, Gc, Clear, Request

\* With no invalid page, the newest page c holds copies of different pairs of
\* the oldest, the next page.
Stay(f, c) ==
    /\ \A k \in Cells : Odd(k) /\ KeyAt(f[c].word[k]) =>
         \E l \in Cells : Odd(l) /\ f[At(c, 1)].word[l] = f[c].word[k]
    /\ \A k, l \in Cells : Odd(k) /\ Odd(l) /\ KeyAt(f[c].word[k]) /\ f[c].word[k] = f[c].word[l] => k = l

StayInv == \A c \in Pages : IsRun(flash, c, 0) => Stay(flash, c)

\* What is being copied is the pair of the page that its address is mapped to;
\* recovery has had room for everything so far.
CopyInv ==
    /\ ~walk.later
    /\ walk.loop \in {"gc", "rec"} /\ Appending =>
         /\ map[item.addr] # 0 /\ MapPage(item.addr) = walk.page
         /\ item.val = flash[walk.page].word[MapCell(item.addr)]

\* A ring has one newest page.
LEMMA RunUnique ==
    ASSUME NEW f \in [Pages -> Page], NEW c \in Pages, NEW d \in Pages,
           NEW m \in 0 .. NPages, NEW n \in 0 .. NPages, IsRun(f, c, m), IsRun(f, d, n), Valid(f, d)
    PROVE  c = d
  <1>1. ASSUME c # d PROVE FALSE
    <2>1. Valid(f, NextPage(d)) /\ f[NextPage(d)].seq = NextSeq(f[d].seq)
      BY <1>1, RunNext
    <2>2. NextPage(d) \in Pages
      BY RingType
    <2> QED
      BY <2>1, <2>2, RunNext
  <1> QED
    BY <1>1

\* A run without invalid pages.
LEMMA RunAll ==
    ASSUME NEW f, NEW c \in Pages, IsRun(f, c, 0) PROVE \A p \in Pages : Valid(f, p)
  <1>1. 0 \in 0 .. NPages
    BY Sizes
  <1>2. \A p \in Pages : Off(c, p) \in 1 .. NPages
    BY OffRing
  <1> QED
    BY <1>1, <1>2, RunOff, Sizes

\* Once the current page is known, it is the one in question.
LEMMA StayCurrent ==
    ASSUME NEW f \in [Pages -> Page], NEW c \in Pages, IsRun(f, c, FreeAfter(f, c))
    PROVE  (\A d \in Pages : IsRun(f, d, 0) => Stay(f, d)) <=> (FreeAfter(f, c) = 0 => Stay(f, c))
  <1>1. FreeAfter(f, c) \in 0 .. NPages /\ 0 \in 0 .. NPages
    BY FreeHas, Sizes
  <1>2. ASSUME NEW d \in Pages, IsRun(f, d, 0) PROVE d = c /\ FreeAfter(f, c) = 0
    <2>1. Valid(f, d)
      BY <1>2, RunAll
    <2>2. d = c
      BY <1>1, <1>2, <2>1, RunUnique
    <2> QED
      BY <1>1, <1>2, <2>2, RunFree
  <1> QED
    BY <1>2

LEMMA StayNow ==
    /\ TypeInv /\ RingInv /\ Booted => (StayInv <=> (NFree = 0 => Stay(flash, cur)))
    /\ TypeInv' /\ RingInv' /\ Booted' => (StayInv' <=> (NFree' = 0 => Stay(flash', cur')))
  <1>1. TypeInv /\ RingInv /\ Booted => /\ flash \in [Pages -> Page] /\ cur \in Pages
                                        /\ IsRun(flash, cur, FreeAfter(flash, cur))
    BY DEF TypeInv, TypeOK, RingInv, RunInv, NFree
  <1>2. TypeInv' /\ RingInv' /\ Booted' => /\ flash' \in [Pages -> Page] /\ cur' \in Pages
                                           /\ IsRun(flash', cur', FreeAfter(flash', cur'))
    BY DEF TypeInv, TypeOK, RingInv, RunInv, NFree
  <1> QED
    BY <1>1, <1>2, StayCurrent DEF StayInv, NFree

\* A full page of copies leaves no pair of the oldest out.
LEMMA NoneLeftOut ==
    ASSUME NEW f, NEW c \in Pages, Stay(f, c), \A k \in Cells : Odd(k) => KeyAt(f[c].word[k])
    PROVE  \A l \in Cells : Odd(l) =>
             \E k \in Cells : Odd(k) /\ f[c].word[k] = f[At(c, 1)].word[l]
  <1> DEFINE S == {k \in Cells : Odd(k)}
             u == f[c].word
             v == f[At(c, 1)].word
             g == [k \in S |-> CHOOSE l \in S : v[l] = u[k]]
  <1>1. \A k \in S : g[k] \in S /\ v[g[k]] = u[k]
    BY DEF Stay
  <1>2. g \in [S -> S]
    BY <1>1
  <1>3. \A k, l \in S : u[k] = u[l] => k = l
    BY DEF Stay
  <1>4. IsFiniteSet(S)
    <2>1. IsFiniteSet(Cells)
      BY FS_Interval, Sizes DEF Cells, INFO_size
    <2>2. S \in SUBSET Cells
      OBVIOUS
    <2> QED
      BY <2>1, <2>2, FS_Subset
  <1> HIDE DEF S, u, v, g
  <1>5. g \in Injection(S, S)
    BY <1>1, <1>2, <1>3 DEF Injection, IsInjective
  <1>6. g \in Surjection(S, S)
    BY <1>4, <1>5, FS_Injection
  <1>7. \A l \in S : \E k \in S : g[k] = l
    BY <1>6 DEF Surjection
  <1> SUFFICES ASSUME NEW l \in S PROVE \E k \in S : u[k] = v[l]
    BY DEF S, u, v
  <1>8. PICK k \in S : g[k] = l
    BY <1>7
  <1> QED
    BY <1>1, <1>8

\* The pair that is found alive is the one its address is mapped to.
LEMMA LiveIsMapped ==
    ASSUME TypeInv, RingInv, MapInv, NewInv, CopyInv, pc \in {"gc", "rec"}, target.next = "none",
           walk.key >= 3, NEW a \in Addr, flash[walk.page].word[walk.key] = Key(a),
           ~ftl_page_can_addr_drop(a, walk.page)
    PROVE  map[a] # 0 /\ MapPage(a) = walk.page /\ MapCell(a) = walk.key - 1
  <1>1. /\ Booted /\ walk.loop = pc /\ walk.page \in Pages /\ cur \in Pages
        /\ walk.key \in 3 .. PageElement - 1 /\ Odd(walk.key) /\ ~Appending
    BY WalkFields DEF TypeInv, TypeOK, Control, Target, Booted, MapInv, Appending
  <1>2. walk.key \in Cells
    BY <1>1, OddSteps
  <1>3. Valid(flash, walk.page)
    <2>1. CASE pc = "gc"
      BY <1>1, <2>1 DEF RingInv, LogInv, CurrentInv, ftl_page_is_valid, Valid
    <2>2. CASE pc = "rec"
      BY <1>1, <2>2, RunAll DEF RingInv, RunInv, RoomInv
    <2> QED
      BY <2>1, <2>2
  <1>4. map[a] # 0 /\ AsNew(cur, walk.page, walk.key, map[a])
    BY <1>1, <1>2, <1>3 DEF NewInv, Seen
  <1>5. MapPage(a) = walk.page /\ EntryPage(map[a]) = walk.page
    BY <1>4 DEF ftl_page_can_addr_drop, MapPage, EntryPage
  <1>6. MapCell(a) \in Cells /\ EntryCell(map[a]) = MapCell(a)
    BY <1>1, <1>4 DEF MapInv, Mapped, MapCell, EntryCell
  <1>7. walk.key <= MapCell(a) + 1
    BY <1>1, <1>4, <1>5, <1>6, OffRing DEF AsNew
  <1>8. MapCell(a) + 1 <= walk.key
    BY <1>1, <1>4, <1>5 DEF MapInv, ToCopy, CopyInv
  <1> QED
    BY <1>1, <1>4, <1>5, <1>6, <1>7, <1>8 DEF Cells, INFO_size

\* What is alive in the oldest page fits in the current one: a full current
\* page holds copies of all of its pairs.
LEMMA StayFits ==
    ASSUME TypeInv, RingInv, MapInv, NewInv, CopyInv, StayInv, pc = "rec", target.next = "none",
           walk.key >= 3, NEW a \in Addr, flash[walk.page].word[walk.key] = Key(a),
           ~ftl_page_can_addr_drop(a, walk.page)
    PROVE  Room
  <1> SUFFICES ASSUME ~Room PROVE FALSE
    OBVIOUS
  <1>1. /\ Booted /\ walk.loop = "rec" /\ cur \in Pages /\ free \in INFO_size .. PageElement
        /\ walk.key \in 3 .. PageElement - 1 /\ Odd(walk.key)
    BY WalkFields DEF TypeInv, TypeOK, Control, Target, Booted, MapInv
  <1>2. map[a] # 0 /\ MapPage(a) = walk.page /\ EntryPage(map[a]) = walk.page
    BY LiveIsMapped DEF MapPage, EntryPage
  <1>3. NFree = 0 /\ walk.page = At(cur, 1) /\ At(cur, 1) # cur /\ At(cur, 1) \in Pages
    <2>1. NFree = 0 /\ walk.page = NextPage(cur)
      BY <1>1 DEF RingInv, RoomInv
    <2>2. NextPage(cur) = At(cur, 1) /\ At(cur, 1) # cur /\ At(cur, 1) \in Pages
      BY <1>1, AtRing, Sizes
    <2> QED
      BY <2>1, <2>2
  <1>4. free = PageElement
    BY <1>1, Parity DEF RingInv, WordsInv, Room
  <1>5. \A k \in Cells : Odd(k) => KeyAt(flash[cur].word[k])
    BY <1>1, <1>4, Parity DEF RingInv, WordsInv
  <1>6. Stay(flash, cur)
    BY <1>1, <1>3, StayNow
  <1>9. walk.key \in Cells /\ flash[At(cur, 1)].word[walk.key] = Key(a)
    BY <1>1, <1>3, OddSteps
  <1>10. PICK k \in Cells : Odd(k) /\ flash[cur].word[k] = Key(a)
    BY <1>1, <1>5, <1>6, <1>9, NoneLeftOut
  <1>11. Valid(flash, cur)
    BY <1>1 DEF RingInv, LogInv, CurrentInv, ftl_page_is_valid, Valid
  <1>12. AsNew(cur, cur, k, map[a])
    BY <1>1, <1>10, <1>11 DEF NewInv, Seen
  <1>13. Off(cur, cur) = NPages /\ Off(cur, At(cur, 1)) \in 1 .. NPages
    BY <1>1, <1>3, OffRing
  <1> QED
    BY <1>2, <1>3, <1>12, <1>13, Sizes DEF AsNew

\* Every step keeps a newest page without free pages a page of copies.
LEMMA StayStep == TypeInv /\ TypeInv' /\ RingInv /\ RingInv' /\ MapInv /\ NewInv /\ CopyInv /\ StayInv /\ [Next]_vars
              => StayInv'
  <1> SUFFICES ASSUME TypeInv, RingInv, RingInv', MapInv, NewInv, CopyInv, StayInv, TypeInv', [Next]_vars
               PROVE  StayInv'
    OBVIOUS
  <1> USE DEF TypeInv
  <1>PowerOn. CASE PowerOn
    BY <1>PowerOn DEF PowerOn, StayInv, ram, work
  <1>ScanPage. CASE ScanPage
    BY <1>ScanPage DEF ScanPage, StayInv, ram, work
  <1>ScanNone. CASE ScanNone
    BY <1>ScanNone DEF ScanNone, StayInv, ram, work
  <1>FindCell. CASE FindCell
    BY <1>FindCell DEF FindCell, StayInv, ram, work
  <1>MapKey. CASE MapKey
    BY <1>MapKey DEF MapKey, StayInv, ram, work
  <1>MapPrev. CASE MapPrev
    BY <1>MapPrev DEF MapPrev, StayInv, ram, work
  <1>RecoverNone. CASE RecoverNone
    BY <1>RecoverNone DEF RecoverNone, StayInv, ram, work
  <1>Recover. CASE Recover
    BY <1>Recover DEF Recover, StayInv, ram, work
  <1>RecoverKey. CASE RecoverKey
    BY <1>RecoverKey DEF RecoverKey, StayInv, ram, work
  <1>RecoverDone. CASE RecoverDone
    <2>1. walk.page \in Pages
      BY <1>RecoverDone, WalkFields DEF RecoverDone, TypeOK, Control, Target
    <2>2. ~Valid(flash', walk.page)
      BY <1>RecoverDone, <2>1 DEF RecoverDone, Valid, TypeOK, Page, BlankPage, FormatAs
    <2> QED
      BY <2>1, <2>2, RunAll DEF StayInv
  <1>Recount. CASE Recount
    BY <1>Recount DEF Recount, StayInv, ram, work
  <1>Save. CASE \E s \in Saves : Save(s[1], s[2])
    BY <1>Save DEF Save, StayInv, ram, work
  <1>WriteData. CASE WriteData
    <2>1. Booted /\ Booted' /\ cur' = cur /\ cur \in Pages
      BY <1>WriteData DEF WriteData, Booted, ram, work, TypeOK, Control, Target
    <2>7. free \in Cells /\ ~Odd(free)
      BY <1>WriteData, <2>1, Sizes DEF WriteData, Room, Cells, INFO_size, RingInv, WordsInv,
         TypeOK
    <2>2. \A q \in Pages : /\ flash'[q].mark = flash[q].mark
                           /\ \A k \in Cells : Odd(k) => flash'[q].word[k] = flash[q].word[k]
      BY <1>WriteData, <2>1, <2>7, WordWritten DEF WriteData, TypeOK
    <2>3. NFree' = NFree
      BY <2>1, <2>2, FreeSame DEF NFree, Valid
    <2>4. NFree = 0 => Stay(flash, cur)
      BY <2>1, StayNow
    <2>5. At(cur, 1) \in Pages
      BY <2>1, AtRing, Sizes
    <2>6. NFree' = 0 => Stay(flash', cur')
      BY <2>1, <2>2, <2>3, <2>4, <2>5 DEF Stay
    <2> QED
      BY <2>1, <2>6, StayNow
  <1>WriteKey. CASE WriteKey
    <2>1. /\ cur \in Pages /\ cur' = cur /\ free \in Cells /\ ~Odd(free) /\ free + 1 \in Cells
          /\ item.addr \in Addr /\ Booted
          /\ \A k \in Cells : k >= free + 1 => flash[cur].word[k] = Blank
      BY <1>WriteKey, Sizes
         DEF WriteKey, Room, Cells, INFO_size, RingInv, WordsInv, TypeOK, Control, Target,
         Booted,
         Item, LogInv, CurrentInv, UnwrittenFrom
    <2>2. Booted'
      BY <1>WriteKey, <2>1 DEF WriteKey, Return, Booted, RingInv, RoomInv, Appending
    <2>3. /\ \A q \in Pages : flash'[q].mark = flash[q].mark
          /\ \A q \in Pages : \A j \in Cells :
               flash'[q].word[j] = IF q = cur /\ j = free + 1 THEN Key(item.addr) ELSE flash[q].word[j]
      BY <1>WriteKey, <2>1, KeyWritten
    <2>4. NFree' = NFree
      BY <2>1, <2>3, FreeSame DEF NFree, Valid
    <2>5. ASSUME NFree = 0 PROVE Stay(flash', cur)
      <3> DEFINE o == At(cur, 1)
                 a == item.addr
      <3>1. o \in Pages /\ o # cur /\ o = NextPage(cur)
        BY <2>1, AtRing, Sizes
      <3>2. walk.loop \in {"gc", "rec"} /\ walk.page = o
        <4>1. walk.loop \in {"gc", "rec"} /\ target.next # "gc"
          BY <1>WriteKey, <2>5 DEF WriteKey, RingInv, RoomInv, Appending, Control
        <4>2. NFree + 1 = 1
          BY <2>5
        <4> QED
          BY <3>1, <4>1, <4>2 DEF RingInv, RoomInv
      <3>3. map[a] # 0 /\ MapPage(a) = o
        BY <1>WriteKey, <3>2 DEF WriteKey, CopyInv, Appending
      <3>4. Mapped(flash, map[a], a) /\ EntryPage(map[a]) = o
        BY <3>3, <2>1 DEF MapInv, MapPage, EntryPage
      <3>5. \E l \in Cells : Odd(l) /\ flash[o].word[l] = Key(a)
        BY <3>4, Parity DEF Mapped
      <3>6. Stay(flash, cur)
        BY <2>1, <2>5, StayNow
      <3>7. \A j \in Cells : flash'[o].word[j] = flash[o].word[j]
        BY <3>1, <2>3
      <3>8. \A j \in Cells : KeyAt(flash'[cur].word[j]) => j = free + 1 \/ (j < free + 1 /\ KeyAt(flash[cur].word[j]))
        BY <2>1, <2>3, WordAssumption DEF KeyAt, Cells, INFO_size
      <3>9. \A j \in Cells : Odd(j) => flash[cur].word[j] # Key(a)
        <4>1. ASSUME NEW j \in Cells, Odd(j), flash[cur].word[j] = Key(a) PROVE FALSE
          <5>1. Valid(flash, cur)
            BY <2>1 DEF RingInv, LogInv, CurrentInv, ftl_page_is_valid, Valid
          <5>2. walk.loop # "map"
            BY <3>2
          <5>3. AsNew(cur, cur, j, map[a])
            BY <4>1, <5>1, <5>2, <2>1 DEF NewInv, Seen
          <5>4. Off(cur, cur) = NPages /\ Off(cur, o) \in 1 .. NPages
            BY <2>1, <3>1, OffRing
          <5> QED
            BY <5>3, <5>4, <3>1, <3>4, Sizes DEF AsNew
        <4> QED
          BY <4>1
      <3> HIDE DEF a
      <3>10. \A k \in Cells : Odd(k) /\ KeyAt(flash'[cur].word[k]) =>
               \E l \in Cells : Odd(l) /\ flash'[o].word[l] = flash'[cur].word[k]
        <4> SUFFICES ASSUME NEW k \in Cells, Odd(k), KeyAt(flash'[cur].word[k])
                     PROVE  \E l \in Cells : Odd(l) /\ flash'[o].word[l] = flash'[cur].word[k]
          OBVIOUS
        <4>1. CASE k = free + 1
          BY <4>1, <3>5, <3>7, <2>1, <2>3 DEF a
        <4>2. CASE k # free + 1
          BY <4>2, <3>6, <3>7, <3>8, <2>1, <2>3 DEF Stay
        <4> QED
          BY <4>1, <4>2
      <3>11. \A k, l \in Cells : Odd(k) /\ Odd(l) /\ KeyAt(flash'[cur].word[k])
                                  /\ flash'[cur].word[k] = flash'[cur].word[l] => k = l
        <4> SUFFICES ASSUME NEW k \in Cells, NEW l \in Cells, Odd(k), Odd(l),
                            KeyAt(flash'[cur].word[k]), flash'[cur].word[k] = flash'[cur].word[l]
                     PROVE  k = l
          OBVIOUS
        <4>1. CASE k # free + 1 /\ l # free + 1
          BY <4>1, <3>6, <3>8, <2>1, <2>3 DEF Stay
        <4>2. CASE k = free + 1 /\ l # free + 1
          BY <4>2, <3>9, <2>1, <2>3 DEF a
        <4>3. CASE k # free + 1 /\ l = free + 1
          BY <4>3, <3>9, <2>1, <2>3 DEF a
        <4> QED
          BY <4>1, <4>2, <4>3
      <3> QED
        BY <3>10, <3>11 DEF Stay
    <2> QED
      BY <2>1, <2>2, <2>4, <2>5, StayNow
  <1>SetEndPosition. CASE SetEndPosition
    <2>1. Booted /\ Booted' /\ cur' = cur /\ cur \in Pages
      BY <1>SetEndPosition DEF SetEndPosition, Booted, ram, work, TypeOK, Control, Target
    <2>2. \A q \in Pages : /\ flash'[q].mark = flash[q].mark
                           /\ \A k \in Cells : Odd(k) => flash'[q].word[k] = flash[q].word[k]
      BY <1>SetEndPosition, <2>1, WordKeeps DEF SetEndPosition, TypeOK, Page
    <2>3. NFree' = NFree
      BY <2>1, <2>2, FreeSame DEF NFree, Valid
    <2>4. NFree = 0 => Stay(flash, cur)
      BY <2>1, StayNow
    <2>5. At(cur, 1) \in Pages
      BY <2>1, AtRing, Sizes
    <2>6. NFree' = 0 => Stay(flash', cur')
      BY <2>1, <2>2, <2>3, <2>4, <2>5 DEF Stay
    <2> QED
      BY <2>1, <2>6, StayNow
  <1>OpenNextPage. CASE OpenNextPage
    BY <1>OpenNextPage DEF OpenNextPage, StayInv, ram, work
  <1>PageErase. CASE PageErase
    <2>1. target.page \in Pages
      BY <1>PageErase DEF PageErase, TypeOK, Control, Target
    <2>2. ~Valid(flash', target.page)
      BY <1>PageErase, <2>1 DEF PageErase, Valid, TypeOK, Page, BlankPage, FormatAs
    <2> QED
      BY <2>1, <2>2, RunAll DEF StayInv
  <1>PageMark. CASE PageMark
    <2>1. target.page \in Pages
      BY <1>PageMark DEF PageMark, TypeOK, Control, Target
    <2>2. ~Valid(flash', target.page)
      BY <1>PageMark, <2>1 DEF PageMark, Valid, TypeOK, Page, BlankPage, FormatAs
    <2> QED
      BY <2>1, <2>2, RunAll DEF StayInv
  <1>FormatNext. CASE FormatNext
    <2>1. /\ Booted' /\ cur' = target.page /\ target.page \in Pages
      BY <1>FormatNext DEF FormatNext, TypeOK, Control, Target, Booted, FormatAs, NoTarget
    <2>2. \A k \in Cells : flash[target.page].word[k] = Blank
      BY <1>FormatNext DEF FormatNext, RingInv, LogInv, ErasedInv, UnwrittenFrom, Cells
    <2>3. flash'[target.page].word = flash[target.page].word
      BY <1>FormatNext, <2>1, HeaderWritten DEF FormatNext, FormatAs, TypeOK
    <2>4. Stay(flash', cur')
      BY <2>1, <2>2, <2>3, WordAssumption DEF Stay, KeyAt
    <2> QED
      BY <2>1, <2>4, StayNow DEF StayInv
  <1>FormatFirst. CASE FormatFirst
    <2>1. target.page = 0 /\ 0 \in Pages /\ 1 \in Pages /\ ~Valid(flash, 1)
      BY <1>FormatFirst, Sizes DEF FormatFirst, RingInv, LogInv, ScanInv, CountInv, Pages
    <2>2. ~Valid(flash', 1)
      BY <1>FormatFirst, <2>1 DEF FormatFirst, FormatAs, Valid, TypeOK
    <2> QED
      BY <2>1, <2>2, RunAll DEF StayInv
  <1>Collect. CASE \E t \in GcCalls : Collect(t)
    BY <1>Collect DEF Collect, StayInv, ram, work
  <1>CollectPage. CASE CollectPage
    BY <1>CollectPage DEF CollectPage, StayInv, ram, work
  <1>CollectKey. CASE CollectKey
    BY <1>CollectKey DEF CollectKey, StayInv, ram, work
  <1>CollectErase. CASE CollectErase
    BY <1>CollectErase DEF CollectErase, StayInv, ram, work
  <1>CollectRetry. CASE CollectRetry
    BY <1>CollectRetry DEF CollectRetry, StayInv, ram, work
  <1>CollectDone. CASE CollectDone
    BY <1>CollectDone DEF CollectDone, StayInv, ram, work
  <1>ClearAll. CASE ClearAll
    BY <1>ClearAll DEF ClearAll, StayInv, ram, work
  <1>ClearPage. CASE ClearPage
    <2>1. walk.page \in Pages
      BY <1>ClearPage, WalkFields, Ranges DEF ClearPage, TypeOK, Control, Target
    <2>2. ~Valid(flash', walk.page)
      BY <1>ClearPage, <2>1 DEF ClearPage, Valid, TypeOK, Page, BlankPage, FormatAs
    <2> QED
      BY <2>1, <2>2, RunAll DEF StayInv
  <1>ClearReset. CASE ClearReset
    BY <1>ClearReset DEF ClearReset, StayInv, ram, work
  <1>EraseInvalid. CASE EraseInvalid
    BY <1>EraseInvalid DEF EraseInvalid, StayInv, ram, work
  <1>EraseInvalidPage. CASE EraseInvalidPage
    BY <1>EraseInvalidPage DEF EraseInvalidPage, StayInv, ram, work
  <1>EraseInvalidDone. CASE EraseInvalidDone
    BY <1>EraseInvalidDone DEF EraseInvalidDone, StayInv, ram, work
  <1>PowerLoss. CASE PowerLoss
    BY <1>PowerLoss DEF PowerLoss, StayInv, ram, work
  <1>PowerLossInSector. CASE PowerLossInSector
    <2>1. cur \in Pages
      BY <1>PowerLossInSector DEF PowerLossInSector, TypeOK, Control, Target
    <2>2. ~Valid(flash', cur)
      BY <1>PowerLossInSector, <2>1 DEF PowerLossInSector, Valid, TypeOK, Page, BlankPage,
         FormatAs
    <2> QED
      BY <2>1, <2>2, RunAll DEF StayInv
  <1>Stutter. CASE UNCHANGED vars
    BY <1>Stutter DEF vars, StayInv, ram, work
  <1> QED
    BY <1>PowerOn, <1>ScanPage, <1>ScanNone, <1>FindCell, <1>MapKey, <1>MapPrev,
       <1>RecoverNone, <1>Recover, <1>RecoverKey, <1>RecoverDone, <1>Recount, <1>Save,
       <1>WriteData, <1>WriteKey, <1>SetEndPosition, <1>OpenNextPage, <1>PageErase,
       <1>PageMark, <1>FormatNext, <1>FormatFirst, <1>Collect, <1>CollectPage, <1>CollectKey,
       <1>CollectErase, <1>CollectRetry, <1>CollectDone, <1>ClearAll, <1>ClearPage,
       <1>ClearReset,
       <1>EraseInvalid, <1>EraseInvalidPage, <1>EraseInvalidDone, <1>PowerLoss,
       <1>PowerLossInSector,
       <1>Stutter DEF Next, Step, Boot, Append, Format, Gc, Clear, Request

\* Every step copies what is mapped and has room for it.
LEMMA CopyStep == TypeInv /\ RingInv /\ MapInv /\ NewInv /\ StayInv /\ CopyInv /\ [Next]_vars => CopyInv'
  <1> SUFFICES ASSUME TypeInv, RingInv, MapInv, NewInv, StayInv, CopyInv, [Next]_vars PROVE CopyInv'
    OBVIOUS
  <1> USE DEF TypeInv
  <1>PowerOn. CASE PowerOn
    <2>1. ~walk'.later
      BY <1>PowerOn DEF PowerOn, CopyInv, NoWalk, Walk, TypeOK, work, Reset
    <2>2. ~Appending' \/ walk'.loop \notin {"gc", "rec"}
      BY <1>PowerOn, <2>1
         DEF PowerOn, Appending, NoWalk, NoTarget, work, Walk, TypeOK, Control,
            Target, Reset
    <2> QED
      BY <1>PowerOn, <2>1, <2>2 DEF PowerOn, CopyInv
  <1>ScanPage. CASE ScanPage
    <2>1. ~walk'.later
      BY <1>ScanPage DEF ScanPage, CopyInv, NoWalk, Walk, TypeOK, work
    <2>2. ~Appending' \/ walk'.loop \notin {"gc", "rec"}
      BY <1>ScanPage, <2>1
         DEF ScanPage, Appending, NoWalk, NoTarget, work, Walk, TypeOK, Control,
            Target
    <2> QED
      BY <1>ScanPage, <2>1, <2>2 DEF ScanPage, CopyInv
  <1>ScanNone. CASE ScanNone
    <2>1. ~walk'.later
      BY <1>ScanNone DEF ScanNone, CopyInv, NoWalk, Walk, TypeOK, work
    <2>2. ~Appending' \/ walk'.loop \notin {"gc", "rec"}
      BY <1>ScanNone, <2>1
         DEF ScanNone, Appending, NoWalk, NoTarget, work, Walk, TypeOK, Control,
            Target
    <2> QED
      BY <1>ScanNone, <2>1, <2>2 DEF ScanNone, CopyInv
  <1>FindCell. CASE FindCell
    <2>1. ~walk'.later
      BY <1>FindCell DEF FindCell, CopyInv, NoWalk, Walk, TypeOK, work
    <2>2. ~Appending' \/ walk'.loop \notin {"gc", "rec"}
      BY <1>FindCell, <2>1
         DEF FindCell, Appending, NoWalk, NoTarget, work, Walk, TypeOK, Control,
            Target
    <2> QED
      BY <1>FindCell, <2>1, <2>2 DEF FindCell, CopyInv
  <1>MapKey. CASE MapKey
    <2>1. ~walk'.later
      BY <1>MapKey DEF MapKey, CopyInv, NoWalk, Walk, TypeOK, work
    <2>2. ~Appending' \/ walk'.loop \notin {"gc", "rec"}
      BY <1>MapKey, <2>1
         DEF MapKey, Appending, NoWalk, NoTarget, work, Walk, TypeOK, Control,
            Target
    <2> QED
      BY <1>MapKey, <2>1, <2>2 DEF MapKey, CopyInv
  <1>MapPrev. CASE MapPrev
    <2>1. walk' = NoWalk \/ walk' = [walk EXCEPT !.page = PrevPage(walk.page),
                                                 !.key = LastKey(PrevPage(walk.page))]
      BY <1>MapPrev DEF MapPrev
    <2>2. ~walk.later /\ walk \in Walk
      BY DEF CopyInv, TypeOK
    <2>3. ~walk'.later
      <3> DEFINE p == PrevPage(walk.page)
                 k == LastKey(PrevPage(walk.page))
      <3>1. walk' = NoWalk => ~walk'.later
        BY DEF NoWalk
      <3> HIDE DEF p, k
      <3>2. \A x, y : ~[walk EXCEPT !.page = x, !.key = y].later
        BY <2>2 DEF Walk
      <3>3. walk' = [walk EXCEPT !.page = p, !.key = k] => ~walk'.later
        BY <3>2
      <3> QED
        BY <2>1, <3>1, <3>3 DEF p, k
    <2>4. ~Appending'
      BY <1>MapPrev DEF MapPrev, Appending, TypeOK, Control
    <2> QED
      BY <2>3, <2>4 DEF CopyInv
  <1>RecoverNone. CASE RecoverNone
    <2>1. ~walk'.later
      BY <1>RecoverNone DEF RecoverNone, CopyInv, NoWalk, Walk, TypeOK, work
    <2>2. ~Appending' \/ walk'.loop \notin {"gc", "rec"}
      BY <1>RecoverNone, <2>1
         DEF RecoverNone, Appending, NoWalk, NoTarget, work, Walk, TypeOK, Control,
            Target
    <2> QED
      BY <1>RecoverNone, <2>1, <2>2 DEF RecoverNone, CopyInv
  <1>Recover. CASE Recover
    <2>1. ~walk'.later
      BY <1>Recover DEF Recover, CopyInv, NoWalk, Walk, TypeOK, work
    <2>2. ~Appending' \/ walk'.loop \notin {"gc", "rec"}
      BY <1>Recover, <2>1
         DEF Recover, Appending, NoWalk, NoTarget, work, Walk, TypeOK, Control,
            Target
    <2> QED
      BY <1>Recover, <2>1, <2>2 DEF Recover, CopyInv
  <1>RecoverKey. CASE RecoverKey
    <2> DEFINE w == flash[walk.page].word[walk.key]
    <2>1. /\ flash' = flash /\ map' = map /\ target' = target /\ target.next = "none"
          /\ walk.loop = "rec"
          /\ walk'.page = walk.page /\ walk.key \in 3 .. PageElement - 1 /\ pc = "rec"
      BY <1>RecoverKey, WalkFields DEF RecoverKey, TypeOK, Control, Target, Walk, ram,
         NoTarget, RingInv, LogInv, CurrentInv, Booted
    <2>2. KeyAt(w) => w.addr \in Addr /\ w = Key(w.addr)
      BY KeyOf
    <2>3. ASSUME KeyAt(w), ~ftl_page_can_addr_drop(w.addr, walk.page)
          PROVE  map[w.addr] # 0 /\ MapPage(w.addr) = walk.page /\ MapCell(w.addr) = walk.key - 1 /\ Room
      <3> DEFINE a == w.addr
      <3>1. /\ a \in Addr /\ flash[walk.page].word[walk.key] = Key(a)
            /\ ~ftl_page_can_addr_drop(a, walk.page)
        BY <2>2, <2>3
      <3> HIDE DEF a
      <3>2. map[a] # 0 /\ MapPage(a) = walk.page /\ MapCell(a) = walk.key - 1
        BY <3>1, <2>1, LiveIsMapped
      <3>3. Room
        BY <3>1, <2>1, StayFits
      <3> QED
        BY <3>2, <3>3 DEF a
    <2>4. ~walk'.later
      <3>1. /\ walk'.later = (walk.later \/ (KeyAt(w) /\ ~ftl_page_can_addr_drop(w.addr, walk.page) /\ ~Room))
        BY <1>RecoverKey DEF RecoverKey, TypeOK, Walk
      <3> HIDE DEF w
      <3> QED
        BY <3>1, <2>3 DEF CopyInv
    <2>5. Appending' => /\ KeyAt(w) /\ ~ftl_page_can_addr_drop(w.addr, walk.page)
                        /\ item' = [addr |-> w.addr, val |-> flash[walk.page].word[walk.key - 1]]
      BY <1>RecoverKey, <2>1 DEF RecoverKey, Appending
    <2>6. \A a : MapPage(a)' = MapPage(a) /\ MapCell(a)' = MapCell(a)
      BY <2>1 DEF MapPage, EntryPage, MapCell, EntryCell
    <2> HIDE DEF w
    <2>7. Appending' => /\ item'.addr = w.addr /\ item'.val = flash[walk.page].word[walk.key - 1]
      BY <2>5
    <2> QED
      BY <2>1, <2>3, <2>4, <2>5, <2>6, <2>7 DEF CopyInv, MapPage, EntryPage, MapCell, EntryCell
  <1>RecoverDone. CASE RecoverDone
    <2>1. ~walk'.later
      BY <1>RecoverDone DEF RecoverDone, CopyInv, NoWalk, Walk, TypeOK, work
    <2>2. ~Appending' \/ walk'.loop \notin {"gc", "rec"}
      BY <1>RecoverDone, <2>1
         DEF RecoverDone, Appending, NoWalk, NoTarget, work, Walk, TypeOK, Control,
            Target
    <2> QED
      BY <1>RecoverDone, <2>1, <2>2 DEF RecoverDone, CopyInv
  <1>Recount. CASE Recount
    <2>1. ~walk'.later
      BY <1>Recount DEF Recount, CopyInv, NoWalk, Walk, TypeOK, work
    <2>2. ~Appending' \/ walk'.loop \notin {"gc", "rec"}
      BY <1>Recount, <2>1
         DEF Recount, Appending, NoWalk, NoTarget, work, Walk, TypeOK, Control,
            Target
    <2> QED
      BY <1>Recount, <2>1, <2>2 DEF Recount, CopyInv
  <1>Save. CASE \E s \in Saves : Save(s[1], s[2])
    <2>1. ~walk'.later
      BY <1>Save DEF Save, CopyInv, NoWalk, Walk, TypeOK, work
    <2>2. ~Appending' \/ walk'.loop \notin {"gc", "rec"}
      BY <1>Save, <2>1
         DEF Save, Appending, NoWalk, NoTarget, work, Walk, TypeOK, Control, Target
    <2> QED
      BY <1>Save, <2>1, <2>2 DEF Save, CopyInv
  <1>WriteData. CASE WriteData
    <2>1. /\ walk' = walk /\ map' = map /\ item' = item
          /\ (walk.loop \in {"gc", "rec"} => Appending /\ walk.page \in Pages)
      BY <1>WriteData DEF WriteData, Appending, ram, work, TypeOK, Control, Target, RingInv,
         RoomInv, LogInv, ErasedInv, AfterErase, FormatAs
    <2>2. ASSUME walk.loop \in {"gc", "rec"}, Appending PROVE flash'[walk.page].word = flash[walk.page].word
      <3>1. cur \in Pages /\ walk.page \in Pages /\ walk.page # cur
        BY <1>WriteData, <2>1, <2>2 DEF WriteData, RingInv, OldestIsNotCurrent, LogInv,
           CurrentInv, Booted, TypeOK,
           Control, Target, ErasedInv, Appending
      <3> QED
        BY <1>WriteData, <2>1, <3>1 DEF WriteData, TypeOK, FormatAs
    <2>3. \A a : MapPage(a)' = MapPage(a) /\ MapCell(a)' = MapCell(a)
      BY <2>1 DEF MapPage, EntryPage, MapCell, EntryCell
    <2> QED
      BY <2>1, <2>2, <2>3 DEF CopyInv
  <1>WriteKey. CASE WriteKey
    <2>1. walk' = walk /\ target' = target
      BY <1>WriteKey DEF WriteKey
    <2>2. ~Appending' \/ walk'.loop \notin {"gc", "rec"}
      BY <1>WriteKey, <2>1
         DEF WriteKey, Return, Appending, TypeOK, Control, Target, RingInv, CountInv, RoomInv
    <2> QED
      BY <2>1, <2>2 DEF CopyInv
  <1>SetEndPosition. CASE SetEndPosition
    <2>1. /\ walk' = walk /\ map' = map /\ item' = item
          /\ (walk.loop \in {"gc", "rec"} => Appending /\ walk.page \in Pages)
      BY <1>SetEndPosition DEF SetEndPosition, Appending, ram, work, TypeOK, Control, Target,
         RingInv, RoomInv, LogInv, ErasedInv, AfterErase, FormatAs
    <2>2. ASSUME walk.loop \in {"gc", "rec"}, Appending PROVE flash'[walk.page].word = flash[walk.page].word
      <3>1. cur \in Pages /\ walk.page \in Pages /\ walk.page # cur
        BY <1>SetEndPosition, <2>1, <2>2 DEF SetEndPosition, RingInv, OldestIsNotCurrent,
           LogInv, CurrentInv, Booted, TypeOK,
           Control, Target, ErasedInv, Appending
      <3> QED
        BY <1>SetEndPosition, <2>1, <3>1 DEF SetEndPosition, TypeOK, FormatAs
    <2>3. \A a : MapPage(a)' = MapPage(a) /\ MapCell(a)' = MapCell(a)
      BY <2>1 DEF MapPage, EntryPage, MapCell, EntryCell
    <2> QED
      BY <2>1, <2>2, <2>3 DEF CopyInv
  <1>OpenNextPage. CASE OpenNextPage
    <2>1. /\ walk' = walk /\ map' = map /\ item' = item
          /\ (walk.loop \in {"gc", "rec"} => Appending /\ walk.page \in Pages)
      BY <1>OpenNextPage DEF OpenNextPage, Appending, ram, work, TypeOK, Control, Target,
         RingInv, RoomInv, LogInv, ErasedInv, AfterErase, FormatAs
    <2>2. ASSUME walk.loop \in {"gc", "rec"}, Appending PROVE flash'[walk.page].word = flash[walk.page].word
      BY <1>OpenNextPage DEF OpenNextPage
    <2>3. \A a : MapPage(a)' = MapPage(a) /\ MapCell(a)' = MapCell(a)
      BY <2>1 DEF MapPage, EntryPage, MapCell, EntryCell
    <2> QED
      BY <2>1, <2>2, <2>3 DEF CopyInv
  <1>PageErase. CASE PageErase
    <2>1. /\ walk' = walk /\ map' = map /\ item' = item
          /\ (walk.loop \in {"gc", "rec"} => walk.page \in Pages)
      BY <1>PageErase DEF PageErase, Appending, ram, work, TypeOK, Control, Target, RingInv,
         RoomInv, LogInv, ErasedInv, AfterErase, FormatAs
    <2>2. ASSUME walk.loop \in {"gc", "rec"}, Appending PROVE flash'[walk.page].word = flash[walk.page].word
      <3>1. target.page \in Pages /\ walk.page \in Pages /\ walk.page # target.page
        BY <1>PageErase, <2>1, <2>2 DEF PageErase, RingInv, OldestIsNotCurrent, LogInv,
           CurrentInv, Booted, TypeOK,
           Control, Target, ErasedInv, Appending
      <3> QED
        BY <1>PageErase, <2>1, <3>1 DEF PageErase, TypeOK, FormatAs
    <2>4. (Appending' => Appending)
      BY <1>PageErase DEF PageErase, Appending, work, AfterErase
    <2>3. \A a : MapPage(a)' = MapPage(a) /\ MapCell(a)' = MapCell(a)
      BY <2>1 DEF MapPage, EntryPage, MapCell, EntryCell
    <2> QED
      BY <2>1, <2>2, <2>3, <2>4 DEF CopyInv
  <1>PageMark. CASE PageMark
    <2>1. /\ walk' = walk /\ map' = map /\ item' = item
          /\ (walk.loop \in {"gc", "rec"} => walk.page \in Pages)
      BY <1>PageMark DEF PageMark, Appending, ram, work, TypeOK, Control, Target, RingInv,
         RoomInv, LogInv, ErasedInv, AfterErase, FormatAs
    <2>2. ASSUME walk.loop \in {"gc", "rec"}, Appending PROVE flash'[walk.page].word = flash[walk.page].word
      <3>1. target.page \in Pages /\ walk.page \in Pages /\ walk.page # target.page
        BY <1>PageMark, <2>1, <2>2 DEF PageMark, RingInv, OldestIsNotCurrent, LogInv,
           CurrentInv, Booted, TypeOK,
           Control, Target, ErasedInv, Appending
      <3> QED
        BY <1>PageMark, <2>1, <3>1 DEF PageMark, TypeOK, FormatAs
    <2>4. (Appending' => Appending)
      BY <1>PageMark DEF PageMark, Appending, work, AfterErase
    <2>3. \A a : MapPage(a)' = MapPage(a) /\ MapCell(a)' = MapCell(a)
      BY <2>1 DEF MapPage, EntryPage, MapCell, EntryCell
    <2> QED
      BY <2>1, <2>2, <2>3, <2>4 DEF CopyInv
  <1>FormatNext. CASE FormatNext
    <2>1. /\ walk' = walk /\ map' = map /\ item' = item
          /\ (walk.loop \in {"gc", "rec"} => Appending /\ walk.page \in Pages)
      BY <1>FormatNext DEF FormatNext, Appending, ram, work, TypeOK, Control, Target, RingInv,
         RoomInv, LogInv, ErasedInv, AfterErase, FormatAs
    <2>2. ASSUME walk.loop \in {"gc", "rec"}, Appending PROVE flash'[walk.page].word = flash[walk.page].word
      <3>1. target.page \in Pages /\ walk.page \in Pages /\ walk.page # target.page
        BY <1>FormatNext, <2>1, <2>2 DEF FormatNext, RingInv, OldestIsNotCurrent, LogInv,
           CurrentInv, Booted, TypeOK,
           Control, Target, ErasedInv, Appending
      <3> QED
        BY <1>FormatNext, <2>1, <3>1 DEF FormatNext, TypeOK, FormatAs
    <2>3. \A a : MapPage(a)' = MapPage(a) /\ MapCell(a)' = MapCell(a)
      BY <2>1 DEF MapPage, EntryPage, MapCell, EntryCell
    <2> QED
      BY <2>1, <2>2, <2>3 DEF CopyInv
  <1>FormatFirst. CASE FormatFirst
    <2>1. walk' = walk /\ walk.loop = "none"
      BY <1>FormatFirst DEF FormatFirst, TypeOK, Control, Target
    <2> QED
      BY <1>FormatFirst, <2>1 DEF FormatFirst, CopyInv
  <1>Collect. CASE \E t \in GcCalls : Collect(t)
    <2>1. ~walk'.later
      BY <1>Collect DEF Collect, CopyInv, NoWalk, Walk, TypeOK, work
    <2>2. ~Appending' \/ walk'.loop \notin {"gc", "rec"}
      BY <1>Collect, <2>1
         DEF Collect, Appending, NoWalk, NoTarget, work, Walk, TypeOK, Control,
            Target
    <2> QED
      BY <1>Collect, <2>1, <2>2 DEF Collect, CopyInv
  <1>CollectPage. CASE CollectPage
    <2>1. ~walk'.later
      BY <1>CollectPage DEF CollectPage, CopyInv, NoWalk, Walk, TypeOK, work
    <2>2. ~Appending' \/ walk'.loop \notin {"gc", "rec"}
      BY <1>CollectPage, <2>1
         DEF CollectPage, Appending, NoWalk, NoTarget, work, Walk, TypeOK, Control,
            Target
    <2> QED
      BY <1>CollectPage, <2>1, <2>2 DEF CollectPage, CopyInv
  <1>CollectKey. CASE CollectKey
    <2> DEFINE w == flash[walk.page].word[walk.key]
    <2>1. /\ flash' = flash /\ map' = map /\ target' = target /\ target.next = "none"
          /\ walk.loop = "gc"
          /\ walk'.page = walk.page /\ walk.key \in 3 .. PageElement - 1 /\ pc = "gc"
      BY <1>CollectKey, WalkFields DEF CollectKey, TypeOK, Control, Target, Walk, ram, NoTarget
    <2>2. KeyAt(w) => w.addr \in Addr /\ w = Key(w.addr)
      BY KeyOf
    <2>3. ASSUME KeyAt(w), ~ftl_page_can_addr_drop(w.addr, walk.page)
          PROVE  map[w.addr] # 0 /\ MapPage(w.addr) = walk.page /\ MapCell(w.addr) = walk.key - 1
      <3> DEFINE a == w.addr
      <3>1. /\ a \in Addr /\ flash[walk.page].word[walk.key] = Key(a)
            /\ ~ftl_page_can_addr_drop(a, walk.page)
        BY <2>2, <2>3
      <3> HIDE DEF a
      <3>2. map[a] # 0 /\ MapPage(a) = walk.page /\ MapCell(a) = walk.key - 1
        BY <3>1, <2>1, LiveIsMapped
      <3> QED
        BY <3>2 DEF a
    <2>4. ~walk'.later
      BY <1>CollectKey DEF CollectKey, TypeOK, Walk, CopyInv
    <2>5. Appending' => /\ KeyAt(w) /\ ~ftl_page_can_addr_drop(w.addr, walk.page)
                        /\ item' = [addr |-> w.addr, val |-> flash[walk.page].word[walk.key - 1]]
      BY <1>CollectKey, <2>1 DEF CollectKey, Appending
    <2>6. \A a : MapPage(a)' = MapPage(a) /\ MapCell(a)' = MapCell(a)
      BY <2>1 DEF MapPage, EntryPage, MapCell, EntryCell
    <2> HIDE DEF w
    <2>7. Appending' => /\ item'.addr = w.addr /\ item'.val = flash[walk.page].word[walk.key - 1]
      BY <2>5
    <2> QED
      BY <2>1, <2>3, <2>4, <2>5, <2>6, <2>7 DEF CopyInv, MapPage, EntryPage, MapCell, EntryCell
  <1>CollectErase. CASE CollectErase
    <2>1. ~walk'.later
      BY <1>CollectErase DEF CollectErase, CopyInv, NoWalk, Walk, TypeOK, work
    <2>2. ~Appending' \/ walk'.loop \notin {"gc", "rec"}
      BY <1>CollectErase, <2>1
         DEF CollectErase, Appending, NoWalk, NoTarget, work, Walk, TypeOK, Control,
            Target
    <2> QED
      BY <1>CollectErase, <2>1, <2>2 DEF CollectErase, CopyInv
  <1>CollectRetry. CASE CollectRetry
    <2>1. ~walk'.later
      BY <1>CollectRetry DEF CollectRetry, CopyInv, NoWalk, Walk, TypeOK, work
    <2>2. ~Appending' \/ walk'.loop \notin {"gc", "rec"}
      BY <1>CollectRetry, <2>1
         DEF CollectRetry, Appending, NoWalk, NoTarget, work, Walk, TypeOK, Control,
            Target
    <2> QED
      BY <1>CollectRetry, <2>1, <2>2 DEF CollectRetry, CopyInv
  <1>CollectDone. CASE CollectDone
    <2>1. ~walk'.later
      BY <1>CollectDone DEF CollectDone, CopyInv, NoWalk, Walk, TypeOK, work
    <2>2. ~Appending' \/ walk'.loop \notin {"gc", "rec"}
      BY <1>CollectDone, <2>1
         DEF CollectDone, Appending, NoWalk, NoTarget, work, Walk, TypeOK, Control,
            Target
    <2> QED
      BY <1>CollectDone, <2>1, <2>2 DEF CollectDone, CopyInv
  <1>ClearAll. CASE ClearAll
    <2>1. ~walk'.later
      BY <1>ClearAll DEF ClearAll, CopyInv, NoWalk, Walk, TypeOK, work
    <2>2. ~Appending' \/ walk'.loop \notin {"gc", "rec"}
      BY <1>ClearAll, <2>1
         DEF ClearAll, Appending, NoWalk, NoTarget, work, Walk, TypeOK, Control,
            Target
    <2> QED
      BY <1>ClearAll, <2>1, <2>2 DEF ClearAll, CopyInv
  <1>ClearPage. CASE ClearPage
    <2>1. ~walk'.later
      BY <1>ClearPage DEF ClearPage, CopyInv, NoWalk, Walk, TypeOK, work
    <2>2. ~Appending' \/ walk'.loop \notin {"gc", "rec"}
      BY <1>ClearPage, <2>1
         DEF ClearPage, Appending, NoWalk, NoTarget, work, Walk, TypeOK, Control,
            Target
    <2> QED
      BY <1>ClearPage, <2>1, <2>2 DEF ClearPage, CopyInv
  <1>ClearReset. CASE ClearReset
    <2>1. ~walk'.later
      BY <1>ClearReset DEF ClearReset, CopyInv, NoWalk, Walk, TypeOK, work
    <2>2. ~Appending' \/ walk'.loop \notin {"gc", "rec"}
      BY <1>ClearReset, <2>1
         DEF ClearReset, Appending, NoWalk, NoTarget, work, Walk, TypeOK, Control,
            Target
    <2> QED
      BY <1>ClearReset, <2>1, <2>2 DEF ClearReset, CopyInv
  <1>EraseInvalid. CASE EraseInvalid
    <2>1. ~walk'.later
      BY <1>EraseInvalid DEF EraseInvalid, CopyInv, NoWalk, Walk, TypeOK, work
    <2>2. ~Appending' \/ walk'.loop \notin {"gc", "rec"}
      BY <1>EraseInvalid, <2>1
         DEF EraseInvalid, Appending, NoWalk, NoTarget, work, Walk, TypeOK, Control,
            Target
    <2> QED
      BY <1>EraseInvalid, <2>1, <2>2 DEF EraseInvalid, CopyInv
  <1>EraseInvalidPage. CASE EraseInvalidPage
    <2>1. ~walk'.later
      BY <1>EraseInvalidPage
         DEF EraseInvalidPage, CopyInv, NoWalk, Walk, TypeOK, work
    <2>2. ~Appending' \/ walk'.loop \notin {"gc", "rec"}
      BY <1>EraseInvalidPage, <2>1
         DEF EraseInvalidPage, Appending, NoWalk, NoTarget, work, Walk, TypeOK,
            Control, Target
    <2> QED
      BY <1>EraseInvalidPage, <2>1, <2>2 DEF EraseInvalidPage, CopyInv
  <1>EraseInvalidDone. CASE EraseInvalidDone
    <2>1. ~walk'.later
      BY <1>EraseInvalidDone
         DEF EraseInvalidDone, CopyInv, NoWalk, Walk, TypeOK, work
    <2>2. ~Appending' \/ walk'.loop \notin {"gc", "rec"}
      BY <1>EraseInvalidDone, <2>1
         DEF EraseInvalidDone, Appending, NoWalk, NoTarget, work, Walk, TypeOK,
            Control, Target
    <2> QED
      BY <1>EraseInvalidDone, <2>1, <2>2 DEF EraseInvalidDone, CopyInv
  <1>PowerLoss. CASE PowerLoss
    <2>1. ~walk'.later
      BY <1>PowerLoss DEF PowerLoss, CopyInv, NoWalk, Walk, TypeOK, work, Reset
    <2>2. ~Appending' \/ walk'.loop \notin {"gc", "rec"}
      BY <1>PowerLoss, <2>1
         DEF PowerLoss, Appending, NoWalk, NoTarget, work, Walk, TypeOK, Control,
            Target, Reset
    <2> QED
      BY <1>PowerLoss, <2>1, <2>2 DEF PowerLoss, CopyInv
  <1>PowerLossInSector. CASE PowerLossInSector
    <2>1. ~walk'.later
      BY <1>PowerLossInSector
         DEF PowerLossInSector, CopyInv, NoWalk, Walk, TypeOK, work, Reset
    <2>2. ~Appending' \/ walk'.loop \notin {"gc", "rec"}
      BY <1>PowerLossInSector, <2>1
         DEF PowerLossInSector, Appending, NoWalk, NoTarget, work, Walk, TypeOK,
            Control, Target, Reset
    <2> QED
      BY <1>PowerLossInSector, <2>1, <2>2 DEF PowerLossInSector, CopyInv
  <1>Stutter. CASE UNCHANGED vars
    <2>1. /\ flash' = flash /\ map' = map /\ pc' = pc /\ walk' = walk /\ target' = target
          /\ item' = item
      BY <1>Stutter DEF vars, ram, work
    <2>2. (Appending' <=> Appending) /\ \A a : MapPage(a)' = MapPage(a) /\ MapCell(a)' = MapCell(a)
      BY <1>Stutter, <2>1 DEF vars, Appending, MapPage, EntryPage, MapCell, EntryCell
    <2> QED
      BY <1>Stutter, <2>1, <2>2 DEF vars, CopyInv
  <1> QED
    BY <1>PowerOn, <1>ScanPage, <1>ScanNone, <1>FindCell, <1>MapKey, <1>MapPrev,
       <1>RecoverNone, <1>Recover, <1>RecoverKey, <1>RecoverDone, <1>Recount, <1>Save,
       <1>WriteData, <1>WriteKey, <1>SetEndPosition, <1>OpenNextPage, <1>PageErase,
       <1>PageMark, <1>FormatNext, <1>FormatFirst, <1>Collect, <1>CollectPage, <1>CollectKey,
       <1>CollectErase, <1>CollectRetry, <1>CollectDone, <1>ClearAll, <1>ClearPage,
       <1>ClearReset,
       <1>EraseInvalid, <1>EraseInvalidPage, <1>EraseInvalidDone, <1>PowerLoss,
       <1>PowerLossInSector,
       <1>Stutter DEF Next, Step, Boot, Append, Format, Gc, Clear, Request


\* What an intact ring and the mapping table say together.
KeepInv == RingInv /\ MapInv /\ NewInv /\ StayInv /\ CopyInv

LEMMA KeepInit == Init => KeepInv
  <1> SUFFICES ASSUME Init PROVE KeepInv
    OBVIOUS
  <1>1. MapInv /\ NewInv /\ CopyInv
    BY DEF Init, MapInv, NewInv, CopyInv, NoWalk, NoTarget, Booted
  <1>2. StayInv
    <2>1. 0 \in Pages /\ ~Valid(flash, 0)
      BY Sizes DEF Init, Valid, BlankPage, Pages
    <2> QED
      BY <2>1, RunAll DEF StayInv
  <1> QED
    BY <1>1, <1>2, RingInit DEF KeepInv

LEMMA KeepStep == GcBelow /\ TypeInv /\ TypeInv' /\ KeepInv /\ Intact' /\ [Next]_vars => KeepInv'
  BY RingStep, MapStep, NewStep, StayStep, CopyStep DEF KeepInv

LEMMA KeepInvariant == ASSUME GcBelow PROVE Spec => [](Intact => KeepInv)
  <1>1. TypeInv /\ TypeInv' /\ (Intact => KeepInv) /\ [Next]_vars => (Intact => KeepInv)'
    BY KeepStep, DamageStays
  <1> QED
    BY TypeInvariant, KeepInit, <1>1, PTL DEF Spec

\* RecoveryNeverClears: when no page is free after a power loss, what is alive
\* in the oldest page fits in the current one, so that
\* ftl_recover_from_power_lost never falls back on clearing everything, on any
\* ring that no power loss has broken.
THEOREM RecoveryHasRoom == ASSUME GcBelow PROVE Spec => []RecoveryNeverClears
  <1>1. (Intact => KeepInv) => RecoveryNeverClears
    BY DEF KeepInv, CopyInv, RecoveryNeverClears
  <1> QED
    BY KeepInvariant, <1>1, PTL

-----------------------------------------------------------------------------
(* What a restart would find: in an intact ring the reference reading of the  *)
(* flash is what ftl_read returns.                                          *)

\* Pages counted back from c.
LEMMA BackOff ==
    ASSUME NEW c \in Pages
    PROVE  /\ \A d \in 0 .. NPages - 1 : Back(c, d) \in Pages /\ Off(c, Back(c, d)) = NPages - d
           /\ \A d \in 1 .. NPages - 1 : PrevPage(Back(c, d - 1)) = Back(c, d)
           /\ \A p \in Pages : Back(c, NPages - Off(c, p)) = p
  <1>1. c \in Nat /\ c < NPages /\ NPages \in Nat /\ NPages >= 3
    BY Sizes DEF Pages
  <1>2. \A d \in 0 .. NPages - 1 : Back(c, d) = IF c >= d THEN c - d ELSE c - d + NPages
    <2> SUFFICES ASSUME NEW d \in 0 .. NPages - 1
                 PROVE  Back(c, d) = IF c >= d THEN c - d ELSE c - d + NPages
      OBVIOUS
    <2>1. NPages - d \in 0 .. NPages /\ c + NPages - d = c + (NPages - d)
      BY <1>1
    <2>2. At(c, NPages - d) = IF c + (NPages - d) < NPages THEN c + (NPages - d) ELSE c + (NPages - d) - NPages
      BY <2>1, AtValue
    <2>3. Back(c, d) = At(c, NPages - d)
      BY <2>1 DEF Back, At
    <2> QED
      BY <1>1, <2>2, <2>3
  <1>3. \A d \in 0 .. NPages - 1 : Back(c, d) \in Pages /\ Off(c, Back(c, d)) = NPages - d
    BY <1>1, <1>2 DEF Off, Pages
  <1>4. \A d \in 1 .. NPages - 1 : PrevPage(Back(c, d - 1)) = Back(c, d)
    <2> SUFFICES ASSUME NEW d \in 1 .. NPages - 1 PROVE PrevPage(Back(c, d - 1)) = Back(c, d)
      OBVIOUS
    <2>1. d \in 0 .. NPages - 1 /\ d - 1 \in 0 .. NPages - 1 /\ NPages - (d - 1) # 1
          /\ NPages - (d - 1) - 1 = NPages - d
      BY <1>1
    <2>2. Off(c, PrevPage(Back(c, d - 1))) = NPages - d /\ PrevPage(Back(c, d - 1)) \in Pages
      BY <1>3, <2>1, OffRing
    <2> QED
      BY <1>3, <2>1, <2>2, OffRing
  <1>5. \A p \in Pages : Back(c, NPages - Off(c, p)) = p
    <2> SUFFICES ASSUME NEW p \in Pages PROVE Back(c, NPages - Off(c, p)) = p
      OBVIOUS
    <2>1. p \in Nat /\ p < NPages
      BY Sizes DEF Pages
    <2>2. NPages - Off(c, p) \in 0 .. NPages - 1
      BY <1>1, <2>1 DEF Off
    <2> QED
      BY <1>1, <1>2, <2>1, <2>2 DEF Off
  <1> QED
    BY <1>3, <1>4, <1>5

\* In a run a page has a page before it as long as that one is valid.
LEMMA RunPrev ==
    ASSUME flash \in [Pages -> Page], NEW c \in Pages, NEW m \in 0 .. NPages, IsRun(flash, c, m),
           NEW p \in Pages, Valid(flash, p)
    PROVE  HasPrev(p) <=> Off(c, p) - 1 > m
  <1>1. Off(c, p) \in 1 .. NPages /\ PrevPage(p) \in Pages /\ NextPage(PrevPage(p)) = p
    BY OffRing
  <1>2. CASE Off(c, p) = 1
    <2>1. PrevPage(p) = c
      BY <1>2, OffRing
    <2>2. flash[p].seq # NextSeq(flash[c].seq)
      BY RunNext
    <2> QED
      BY <1>2, <2>1, <2>2, Sizes DEF HasPrev
  <1>3. CASE Off(c, p) # 1
    <2> DEFINE q == PrevPage(p)
    <2>1. Off(c, q) = Off(c, p) - 1 /\ q # c /\ q \in Pages
      BY <1>1, <1>3, OffRing
    <2>2. Valid(flash, q) <=> Off(c, p) - 1 > m
      BY <2>1, RunOff
    <2>3. Valid(flash, q) => flash[NextPage(q)].seq = NextSeq(flash[q].seq)
      BY <2>1, RunNext
    <2> QED
      BY <1>1, <2>2, <2>3 DEF HasPrev, Valid, ftl_page_is_valid
  <1> QED
    BY <1>2, <1>3

\* The log is the run.
LEMMA InLogIs ==
    ASSUME flash \in [Pages -> Page], NEW c \in Pages, NEW m \in 0 .. NPages, IsRun(flash, c, m),
           Valid(flash, c), NEW d \in 0 .. NPages - 1
    PROVE  InLog(c, d) <=> Valid(flash, Back(c, d))
  <1>1. \A p \in Pages : Valid(flash, p) <=> Off(c, p) > m
    BY RunOff
  <1>2. \A k \in 0 .. NPages - 1 : Back(c, k) \in Pages /\ Off(c, Back(c, k)) = NPages - k
    BY BackOff
  <1>3. ASSUME InLog(c, d) PROVE Valid(flash, Back(c, d))
    <2>1. CASE d = 0
      <3>1. Off(c, Back(c, 0)) = NPages /\ Back(c, 0) \in Pages
        BY <1>2, Sizes
      <3>2. Back(c, 0) = c
        BY <3>1, OffRing
      <3> QED
        BY <2>1, <3>2
    <2>2. CASE d # 0
      <3>1. d \in 1 .. d /\ d \in 1 .. NPages - 1
        BY <2>2, Sizes
      <3>2. HasPrev(Back(c, d - 1))
        BY <1>3, <3>1 DEF InLog
      <3>3. PrevPage(Back(c, d - 1)) = Back(c, d)
        BY <3>1, BackOff
      <3> QED
        BY <3>2, <3>3 DEF HasPrev, Valid, ftl_page_is_valid
    <2> QED
      BY <2>1, <2>2
  <1>4. ASSUME Valid(flash, Back(c, d)) PROVE InLog(c, d)
    <2> SUFFICES ASSUME NEW i \in 1 .. d PROVE HasPrev(Back(c, i - 1))
      BY DEF InLog
    <2>1. NPages - d > m
      BY <1>1, <1>2, <1>4
    <2>2. i - 1 \in 0 .. NPages - 1 /\ NPages - (i - 1) > m /\ NPages - (i - 1) - 1 > m
      BY <2>1, Sizes
    <2>3. Back(c, i - 1) \in Pages /\ Off(c, Back(c, i - 1)) = NPages - (i - 1)
      BY <1>2, <2>2
    <2>4. Valid(flash, Back(c, i - 1))
      BY <1>1, <2>2, <2>3
    <2> QED
      BY <2>2, <2>3, <2>4, RunPrev
  <1> QED
    BY <1>3, <1>4

\* A run has one newest page.
LEMMA NewestIs ==
    ASSUME flash \in [Pages -> Page], NEW c \in Pages, NEW m \in 0 .. NPages, IsRun(flash, c, m),
           Valid(flash, c)
    PROVE  Newest = {c}
  <1>1. \A p \in Pages : PrevPage(NextPage(p)) = p /\ NextPage(p) \in Pages
    <2> SUFFICES ASSUME NEW p \in Pages PROVE PrevPage(NextPage(p)) = p /\ NextPage(p) \in Pages
      OBVIOUS
    <2>1. NextPage(p) \in Pages
      BY RingType
    <2>2. NextPage(p) # p
      BY NextIsOther
    <2>3. Off(p, NextPage(p)) = 1
      <3>1. NextPage(p) = At(p, 1)
        BY AtRing
      <3>2. At(p, Off(p, NextPage(p))) = NextPage(p) /\ Off(p, NextPage(p)) \in 1 .. NPages
        BY <2>1, OffRing
      <3>3. 1 \in 1 .. NPages
        BY Sizes
      <3> QED
        BY <3>1, <3>2, <3>3, AtRing
    <2> QED
      BY <2>1, <2>3, OffRing
  <1>2. ASSUME NEW p \in Pages, Valid(flash, p), p # c
        PROVE  Valid(flash, NextPage(p)) /\ HasPrev(NextPage(p))
    <2>1. Valid(flash, NextPage(p)) /\ flash[NextPage(p)].seq = NextSeq(flash[p].seq)
      BY <1>2, RunNext
    <2> QED
      BY <1>1, <1>2, <2>1 DEF HasPrev, Valid, ftl_page_is_valid
  <1>3. ASSUME Valid(flash, NextPage(c)), HasPrev(NextPage(c)) PROVE FALSE
    <2>1. flash[NextPage(c)].seq = NextSeq(flash[c].seq) /\ NextPage(c) \in Pages
      BY <1>1, <1>3 DEF HasPrev
    <2> QED
      BY <1>3, <2>1, RunNext
  <1> QED
    BY <1>2, <1>3 DEF Newest, Valid, ftl_page_is_valid

\* What ftl_read returns, for an address that is mapped.
LEMMA ReadIs ==
    ASSUME NEW a \in Addr
    PROVE  /\ map[a] = 0 => ftl_read(a) = NoWord
           /\ map[a] # 0 /\ Mapped(flash, map[a], a) => ftl_read(a) = flash[MapPage(a)].word[MapCell(a)]
  BY DEF ftl_read, Mapped, MapPage, MapCell, EntryPage, EntryCell

\* With the newest pairs mapped, the log holds what ftl_read returns.
LogIsRead ==
    TypeInv /\ KeepInv /\ Booted /\ walk.loop # "map" => Contents = [a \in Addr |-> ftl_read(a)]

LEMMA LogReads == LogIsRead
  <1> SUFFICES ASSUME TypeInv, KeepInv, Booted, walk.loop # "map"
               PROVE  Contents = [a \in Addr |-> ftl_read(a)]
    BY DEF LogIsRead
  <1>1. /\ flash \in [Pages -> Page] /\ cur \in Pages /\ NFree \in 0 .. NPages
        /\ IsRun(flash, cur, NFree) /\ Valid(flash, cur)
    BY FreeHas DEF TypeInv, TypeOK, KeepInv, RingInv, RunInv, LogInv, CurrentInv,
       ftl_page_is_valid,
       Valid, NFree
  <1>2. Contents = Log(cur)
    BY <1>1, NewestIs DEF Contents
  <1>3. ASSUME NEW a \in Addr
        PROVE  ftl_read(a) = LET es == Pairs(a, cur) IN IF es = {} THEN NoWord ELSE LastWord(cur, es)
    <2>1. \A e \in KeyCells : e \in Pairs(a, cur) <=>
             Valid(flash, Back(cur, e[1])) /\ flash[Back(cur, e[1])].word[e[2]] = Key(a)
      BY <1>1, InLogIs DEF Pairs, KeyCells
    <2>2. Pairs(a, cur) \subseteq KeyCells
      BY DEF Pairs
    <2>3. \A e \in KeyCells : /\ e = <<e[1], e[2]>> /\ e[1] \in 0 .. NPages - 1 /\ e[2] \in Cells /\ Odd(e[2])
                              /\ Back(cur, e[1]) \in Pages /\ Off(cur, Back(cur, e[1])) = NPages - e[1]
      BY <1>1, BackOff DEF KeyCells, Odd
    <2>4. CASE map[a] = 0
      <3>1. Pairs(a, cur) = {}
        <4>1. ASSUME NEW e \in KeyCells, e \in Pairs(a, cur) PROVE FALSE
          BY <2>1, <2>3, <2>4, <4>1 DEF KeepInv, NewInv, Seen
        <4> QED
          BY <2>2, <4>1
      <3> QED
        BY <3>1, <2>4, ReadIs
    <2>5. CASE map[a] # 0
      <3> DEFINE q == MapPage(a)
                 i == MapCell(a)
                 e0 == <<NPages - Off(cur, q), i + 1>>
      <3>1. /\ q \in Pages /\ i \in Cells /\ ~Odd(i) /\ Valid(flash, q)
            /\ flash[q].word[i + 1] = Key(a)
            /\ EntryPage(map[a]) = q /\ EntryCell(map[a]) = i
        BY <2>5 DEF KeepInv, MapInv, Mapped, MapPage, MapCell, EntryPage, EntryCell
      <3>2. i + 1 \in Cells /\ Odd(i + 1) /\ i + 1 - 1 = i
        BY <3>1, Parity DEF Cells, INFO_size
      <3> HIDE DEF q, i
      <3>3. NPages - Off(cur, q) \in 0 .. NPages - 1 /\ Back(cur, NPages - Off(cur, q)) = q
        <4>1. Off(cur, q) \in 1 .. NPages
          BY <1>1, <3>1, OffRing
        <4>2. NPages - Off(cur, q) \in 0 .. NPages - 1
          BY <4>1, Sizes
        <4> QED
          BY <1>1, <3>1, <4>2, BackOff
      <3>4. e0 \in KeyCells /\ e0[1] = NPages - Off(cur, q) /\ e0[2] = i + 1
        BY <3>2, <3>3 DEF KeyCells, Odd
      <3> HIDE DEF e0
      <3>5. e0 \in Pairs(a, cur)
        BY <2>1, <3>1, <3>3, <3>4
      <3>6. ASSUME NEW f \in Pairs(a, cur) PROVE f \in KeyCells /\ Newer(e0, f)
        <4>1. f \in KeyCells
          BY <2>2
        <4>2. AsNew(cur, Back(cur, f[1]), f[2], map[a])
          BY <2>1, <2>3, <2>5, <4>1, <3>6 DEF KeepInv, NewInv, Seen
        <4>3. Off(cur, q) \in 1 .. NPages
          BY <1>1, <3>1, OffRing
        <4> QED
          BY <4>1, <4>2, <4>3, <2>3, <3>1, <3>2, <3>4, Sizes DEF AsNew, Newer, Cells, INFO_size
      <3>7. ASSUME NEW e \in Pairs(a, cur), \A f \in Pairs(a, cur) : Newer(e, f) PROVE e = e0
        <4>1. e \in KeyCells /\ Newer(e0, e) /\ Newer(e, e0)
          BY <3>5, <3>6, <3>7
        <4>2. e[1] = e0[1] /\ e[2] = e0[2]
          BY <4>1, <2>3, <3>4, Sizes DEF Newer, Cells, INFO_size
        <4> QED
          BY <4>1, <4>2, <2>3, <3>4
      <3>8. (CHOOSE e \in Pairs(a, cur) : \A f \in Pairs(a, cur) : Newer(e, f)) = e0
        BY <3>5, <3>6, <3>7
      <3>9. LastWord(cur, Pairs(a, cur)) = flash[q].word[i]
        <4>1. LastWord(cur, Pairs(a, cur)) = flash[Back(cur, e0[1])].word[e0[2] - 1]
          BY <3>8 DEF LastWord
        <4>2. Back(cur, e0[1]) = q
          BY <3>3, <3>4
        <4>3. e0[2] - 1 = i
          <5>1. i \in Int
            BY <3>1, Sizes DEF Cells, INFO_size
          <5> QED
            BY <5>1, <3>4
        <4> QED
          BY <4>1, <4>2, <4>3
      <3>10. ftl_read(a) = flash[q].word[i]
        BY <2>5, ReadIs DEF q, i, KeepInv, MapInv
      <3> QED
        BY <3>5, <3>9, <3>10
    <2> QED
      BY <2>4, <2>5
  <1> QED
    BY <1>2, <1>3 DEF Log

\* Without a key in a valid page, nothing is saved.
EmptyIfKeyless ==
    (\A p \in Pages, k \in Cells : Valid(flash, p) /\ Odd(k) => ~KeyAt(flash[p].word[k])) =>
       Contents = [a \in Addr |-> NoWord]

LEMMA KeylessIsEmpty == EmptyIfKeyless
  <1> SUFFICES ASSUME \A p \in Pages, k \in Cells : Valid(flash, p) /\ Odd(k) => ~KeyAt(flash[p].word[k])
               PROVE  Contents = [a \in Addr |-> NoWord]
    BY DEF EmptyIfKeyless
  <1>1. ASSUME NEW c \in Pages, Valid(flash, c) PROVE Log(c) = [a \in Addr |-> NoWord]
    <2>1. ASSUME NEW a \in Addr, NEW e \in KeyCells, e \in Pairs(a, c) PROVE FALSE
      <3>1. /\ e[1] \in 0 .. NPages - 1 /\ e[2] \in Cells /\ Odd(e[2])
            /\ flash[Back(c, e[1])].word[e[2]] = Key(a) /\ InLog(c, e[1])
        BY <2>1 DEF Pairs, KeyCells, Odd
      <3>2. Back(c, e[1]) \in Pages
        BY <3>1, BackOff
      <3>3. Valid(flash, Back(c, e[1]))
        <4>1. CASE e[1] = 0
          <5>1. Off(c, Back(c, 0)) = NPages /\ Back(c, 0) \in Pages
            <6>1. 0 \in 0 .. NPages - 1 /\ NPages - 0 = NPages
              BY Sizes
            <6> QED
              BY <6>1, <1>1, BackOff
          <5> QED
            BY <5>1, <4>1, <1>1, OffRing
        <4>2. CASE e[1] # 0
          <5>1. e[1] \in 1 .. e[1] /\ e[1] \in 1 .. NPages - 1
            BY <3>1, <4>2, Sizes
          <5>2. HasPrev(Back(c, e[1] - 1)) /\ PrevPage(Back(c, e[1] - 1)) = Back(c, e[1])
            BY <3>1, <5>1, BackOff DEF InLog
          <5> QED
            BY <5>2 DEF HasPrev, Valid, ftl_page_is_valid
        <4> QED
          BY <4>1, <4>2
      <3> QED
        BY <3>1, <3>2, <3>3 DEF KeyAt, Keys
    <2>2. \A a \in Addr : Pairs(a, c) = {}
      BY <2>1 DEF Pairs
    <2> QED
      BY <2>2 DEF Log
  <1>2. \A c \in Newest : c \in Pages /\ Valid(flash, c)
    BY DEF Newest, Valid, ftl_page_is_valid
  <1>3. CASE Newest = {}
    BY <1>3 DEF Contents
  <1>4. CASE Newest # {}
    <2>1. {Log(top) : top \in Newest} = {[a \in Addr |-> NoWord]}
      BY <1>1, <1>2, <1>4
    <2> QED
      BY <1>4, <2>1 DEF Contents
  <1> QED
    BY <1>3, <1>4

\* ReadsAgreeWithFlash: between two calls, ftl_read returns for every address
\* what the log on flash holds, on every ring no power loss has broken, for any
\* saves, collections, clearings and restarts.
THEOREM ReadsAgree == ASSUME GcBelow PROVE Spec => []ReadsAgreeWithFlash
  <1>1. TypeInv /\ (Intact => KeepInv) => ReadsAgreeWithFlash
    <2> SUFFICES ASSUME TypeInv, Intact, KeepInv, pc = "idle"
                 PROVE  Contents = [a \in Addr |-> ftl_read(a)]
      BY DEF ReadsAgreeWithFlash
    <2>1. Booted /\ walk.loop # "map"
      BY DEF TypeInv, Control, Booted, TypeOK, Target
    <2> QED
      BY <2>1, LogReads DEF LogIsRead
  <1> QED
    BY TypeInvariant, KeepInvariant, <1>1, PTL

\* The same after a step.
LEMMA LogReadsNext == LogIsRead'
  BY LogReads, PTL

LEMMA KeylessNext == EmptyIfKeyless'
  BY KeylessIsEmpty, PTL

\* What stays on flash stays saved.
LEMMA SameFlash == flash' = flash => Contents' = Contents
  BY DEF Contents, Newest, HasPrev, ftl_page_is_valid, Log, Pairs, InLog, LastWord

\* The reading of flash does not change while what the table points at stays.
LEMMA SameReads ==
    ASSUME TypeInv, TypeInv', KeepInv, KeepInv', Booted, Booted',
           walk.loop # "map", walk'.loop # "map", map' = map,
           \A a \in Addr : map[a] # 0 =>
              /\ flash'[MapPage(a)].word[MapCell(a)] = flash[MapPage(a)].word[MapCell(a)]
              /\ flash'[MapPage(a)].word[MapCell(a) + 1] = flash[MapPage(a)].word[MapCell(a) + 1]
    PROVE  Contents' = Contents
  <1>1. Contents = [a \in Addr |-> ftl_read(a)]
    BY LogReads DEF LogIsRead
  <1>2. Contents' = [a \in Addr |-> ftl_read(a)']
    BY LogReadsNext DEF LogIsRead
  <1>3. ASSUME NEW a \in Addr PROVE ftl_read(a)' = ftl_read(a)
    <2>1. MapPage(a)' = MapPage(a) /\ MapCell(a)' = MapCell(a)
      BY DEF MapPage, EntryPage, MapCell, EntryCell
    <2> QED
      BY <2>1 DEF ftl_read
  <1> QED
    BY <1>1, <1>2, <1>3

\* Before the first page is formatted nothing is saved.
LEMMA NoneValid ==
    /\ (\A p \in Pages : ~Valid(flash, p)) => Contents = [a \in Addr |-> NoWord]
    /\ (\A p \in Pages : ~Valid(flash', p)) => Contents' = [a \in Addr |-> NoWord]
  BY KeylessIsEmpty, KeylessNext DEF EmptyIfKeyless

\* The pair of a mapped address, and where it is not.
LEMMA MappedPair ==
    ASSUME TypeInv, KeepInv, Booted, NEW a \in Addr, map[a] # 0
    PROVE  /\ MapPage(a) \in Pages /\ MapCell(a) \in Cells /\ ~Odd(MapCell(a)) /\ MapCell(a) + 1 \in Cells
           /\ Valid(flash, MapPage(a)) /\ flash[MapPage(a)].word[MapCell(a) + 1] = Key(a)
           /\ MapPage(a) = cur => MapCell(a) + 1 < (IF pc = "key" THEN free + 1 ELSE free)
  <1>1. /\ MapPage(a) \in Pages /\ MapCell(a) \in Cells /\ ~Odd(MapCell(a))
        /\ Valid(flash, MapPage(a)) /\ flash[MapPage(a)].word[MapCell(a) + 1] = Key(a)
    BY DEF KeepInv, MapInv, Mapped, MapPage, MapCell, EntryPage, EntryCell
  <1>2. MapCell(a) + 1 \in Cells
    BY <1>1, Parity
  <1>3. UnwrittenFrom(cur, IF pc = "key" THEN free + 1 ELSE free)
    BY DEF KeepInv, RingInv, LogInv, CurrentInv
  <1>4. Key(a) # Blank /\ free \in Int /\ MapCell(a) \in Int
    BY <1>1, KeyFacts, Sizes DEF TypeInv, TypeOK, INFO_size, Cells
  <1>5. ASSUME MapPage(a) = cur PROVE MapCell(a) + 1 < (IF pc = "key" THEN free + 1 ELSE free)
    <2>1. ~(MapCell(a) + 1 >= (IF pc = "key" THEN free + 1 ELSE free))
      BY <1>1, <1>2, <1>3, <1>4, <1>5 DEF UnwrittenFrom
    <2> QED
      BY <1>4, <2>1
  <1> QED
    BY <1>1, <1>2, <1>5

\* The key word makes the pair the one that is read.
LEMMA KeyReads ==
    ASSUME TypeInv, TypeInv', KeepInv, KeepInv', WriteKey
    PROVE  /\ Contents = [a \in Addr |-> ftl_read(a)]
           /\ Contents' = [a \in Addr |-> IF a = item.addr THEN item.val ELSE ftl_read(a)]
           /\ walk.loop # "none" => ftl_read(item.addr) = item.val
  <1>1. /\ pc = "key" /\ Booted /\ Booted' /\ walk' = walk
        /\ walk.loop \in {"none", "gc", "rec"}
        /\ flash \in [Pages -> Page] /\ map \in [Addr -> Entry] /\ item \in Item
        /\ cur \in Pages /\ free \in INFO_size .. PageElement /\ Appending
    BY Ranges DEF WriteKey, Booted, Return, TypeInv, TypeOK, Control, KeepInv, RingInv,
       RoomInv, Appending, Walk,
       Loops, Target, Item
  <1>2. free \in Cells /\ free + 1 \in Cells /\ ~Odd(free) /\ free \in Int
    <2>1. free + 1 < PageElement
      BY <1>1 DEF TypeInv, Control, Room
    <2>2. ~Odd(free)
      BY <1>1 DEF KeepInv, RingInv, WordsInv
    <2> QED
      BY <1>1, <2>1, <2>2, Sizes DEF Cells, INFO_size
  <1>3. PICK b \in Addr : b = item.addr
    BY <1>1 DEF Item
  <1>4. Contents = [a \in Addr |-> ftl_read(a)]
    BY <1>1, LogReads DEF LogIsRead
  <1>5. Contents' = [a \in Addr |-> ftl_read(a)']
    BY <1>1, LogReadsNext DEF LogIsRead
  <1>6. \A q \in Pages, j \in Cells :
           flash'[q].word[j] = IF q = cur /\ j = free + 1 THEN Key(item.addr) ELSE flash[q].word[j]
    BY <1>1, <1>2, KeyWritten
  <1>7. ftl_read(b)' = item.val
    <2>1. map'[b] = PhysAddr(cur, free)
      BY <1>1, <1>3 DEF WriteKey
    <2>2. MapPage(b)' = cur /\ MapCell(b)' = free /\ map'[b] # 0
      <3>1. /\ EntryPage(PhysAddr(cur, free)) = cur /\ EntryCell(PhysAddr(cur, free)) = free
            /\ PhysAddr(cur, free) # 0
        BY <1>1, <1>2, EntryPlace
      <3>2. (2 * map'[b]) \div PageElement = cur /\ (2 * map'[b]) % PageElement = free
        BY <2>1, <3>1 DEF EntryPage, EntryCell
      <3> QED
        BY <2>1, <3>1, <3>2 DEF MapPage, EntryPage, MapCell, EntryCell
    <2>3. /\ flash'[cur].word[free + 1] = Key(item.addr)
          /\ flash'[cur].word[free] = flash[cur].word[free]
      BY <1>1, <1>2, <1>6
    <2>4. flash[cur].word[free] = item.val
      BY <1>1 DEF KeepInv, RingInv, WordsInv
    <2> QED
      BY <1>3, <2>2, <2>3, <2>4 DEF ftl_read
  <1>8. ASSUME NEW a \in Addr, a # item.addr PROVE ftl_read(a)' = ftl_read(a)
    <2>1. map'[a] = map[a]
      BY <1>1, <1>8 DEF WriteKey
    <2>2. MapPage(a)' = MapPage(a) /\ MapCell(a)' = MapCell(a)
      BY <2>1 DEF MapPage, EntryPage, MapCell, EntryCell
    <2>3. ASSUME map[a] # 0
          PROVE  /\ flash'[MapPage(a)].word[MapCell(a)] = flash[MapPage(a)].word[MapCell(a)]
                 /\ flash'[MapPage(a)].word[MapCell(a) + 1] = flash[MapPage(a)].word[MapCell(a) + 1]
      <3>1. /\ MapPage(a) \in Pages /\ MapCell(a) \in Cells /\ MapCell(a) + 1 \in Cells
            /\ MapPage(a) = cur => MapCell(a) + 1 < free + 1
        BY <1>1, <2>3, MappedPair
      <3>2. MapCell(a) \in Int
        BY <3>1, Sizes DEF Cells, INFO_size
      <3> QED
        BY <1>2, <1>6, <3>1, <3>2
    <2> QED
      BY <2>1, <2>2, <2>3 DEF ftl_read
  <1>9. ASSUME walk.loop # "none" PROVE ftl_read(item.addr) = item.val
    <2>1. /\ map[item.addr] # 0 /\ MapPage(item.addr) = walk.page
          /\ item.val = flash[walk.page].word[MapCell(item.addr)]
      BY <1>1, <1>9 DEF KeepInv, CopyInv
    <2>2. flash[MapPage(item.addr)].word[MapCell(item.addr) + 1] = Key(item.addr)
      BY <1>1, <1>3, <2>1, MappedPair
    <2> QED
      BY <2>1, <2>2 DEF ftl_read
  <1>10. Contents' = [a \in Addr |-> IF a = item.addr THEN item.val ELSE ftl_read(a)]
    <2>1. \A a \in Addr : ftl_read(a)' = IF a = item.addr THEN item.val ELSE ftl_read(a)
      BY <1>3, <1>7, <1>8
    <2> QED
      BY <1>5, <2>1
  <1> QED
    BY <1>4, <1>9, <1>10

\* Nothing but the key word of a pair, and clearing, changes what is saved.
LEMMA ContentsKept == 
    TypeInv /\ TypeInv' /\ KeepInv /\ KeepInv' /\ Intact' /\ [Next]_vars /\ ~WriteKey /\ pc # "clear"
      => Contents' = Contents
  <1> SUFFICES ASSUME TypeInv, TypeInv', KeepInv, KeepInv', Intact', [Next]_vars, ~WriteKey, pc # "clear"
               PROVE  Contents' = Contents
    OBVIOUS
  <1>a. /\ flash \in [Pages -> Page] /\ cur \in Pages /\ free \in INFO_size .. PageElement
        /\ target.page \in Pages
    BY Ranges DEF TypeInv, TypeOK, Target

  <1>PowerOn. CASE PowerOn
    <2>1. flash' = flash
      BY <1>PowerOn DEF PowerOn
    <2> QED
      BY <2>1, SameFlash
  <1>ScanPage. CASE ScanPage
    <2>1. flash' = flash
      BY <1>ScanPage DEF ScanPage
    <2> QED
      BY <2>1, SameFlash
  <1>ScanNone. CASE ScanNone
    <2>1. flash' = flash
      BY <1>ScanNone DEF ScanNone
    <2> QED
      BY <2>1, SameFlash
  <1>FindCell. CASE FindCell
    <2>1. flash' = flash
      BY <1>FindCell DEF FindCell
    <2> QED
      BY <2>1, SameFlash
  <1>MapKey. CASE MapKey
    <2>1. flash' = flash
      BY <1>MapKey DEF MapKey
    <2> QED
      BY <2>1, SameFlash
  <1>MapPrev. CASE MapPrev
    <2>1. flash' = flash
      BY <1>MapPrev DEF MapPrev
    <2> QED
      BY <2>1, SameFlash
  <1>RecoverNone. CASE RecoverNone
    <2>1. flash' = flash
      BY <1>RecoverNone DEF RecoverNone
    <2> QED
      BY <2>1, SameFlash
  <1>Recover. CASE Recover
    <2>1. flash' = flash
      BY <1>Recover DEF Recover
    <2> QED
      BY <2>1, SameFlash
  <1>RecoverKey. CASE RecoverKey
    <2>1. flash' = flash
      BY <1>RecoverKey DEF RecoverKey
    <2> QED
      BY <2>1, SameFlash
  <1>RecoverDone. CASE RecoverDone
    <2>1. /\ Booted /\ walk.loop # "map" /\ walk'.loop # "map" /\ map' = map
          /\ walk.page \in Pages
          /\ flash' = [flash EXCEPT ![walk.page].mark = "zero", ![walk.page].seq = 0]
      BY <1>RecoverDone, WalkFields
         DEF RecoverDone, Booted, TypeInv, TypeOK, Control, Target, NoWalk, ram
    <2>2. Booted'
      BY <1>RecoverDone, <2>1 DEF RecoverDone, Booted, KeepInv, CopyInv
    <2>3. \A q \in Pages : flash'[q].word = flash[q].word
      BY <1>a, <2>1, HeaderWritten
    <2>4. \A a \in Addr : map[a] # 0 => MapPage(a) \in Pages
      BY <2>1, MappedPair
    <2> QED
      BY <2>1, <2>2, <2>3, <2>4, SameReads
  <1>Recount. CASE Recount
    <2>1. flash' = flash
      BY <1>Recount DEF Recount
    <2> QED
      BY <2>1, SameFlash
  <1>Save. CASE \E s \in Saves : Save(s[1], s[2])
    <2>1. flash' = flash
      BY <1>Save DEF Save
    <2> QED
      BY <2>1, SameFlash
  <1>WriteData. CASE WriteData
    <2>1. /\ Booted /\ Booted' /\ walk.loop # "map" /\ walk'.loop # "map" /\ map' = map
          /\ pc = "write" /\ Room /\ flash' = [flash EXCEPT ![cur].word[free] = item.val]
      BY <1>WriteData
         DEF WriteData, Booted, TypeInv, TypeOK, Control, Target, KeepInv, RingInv, RoomInv,
         Appending,
             ram, work
    <2>2. free \in Cells /\ free \in Int
      BY <1>a, <2>1, Sizes DEF Cells, INFO_size, Room
    <2>3. \A q \in Pages : \A j \in Cells :
            flash'[q].word[j] = IF q = cur /\ j = free THEN item.val ELSE flash[q].word[j]
      <3> DEFINE x == item.val
      <3>1. flash' = [flash EXCEPT ![cur].word[free] = x]
        BY <2>1
      <3> HIDE DEF x
      <3>2. LET f == [flash EXCEPT ![cur].word[free] = x]
            IN  /\ \A q \in Pages : f[q].mark = flash[q].mark
                /\ \A q \in Pages : \A j \in Cells :
                     f[q].word[j] = IF q = cur /\ j = free THEN x ELSE flash[q].word[j]
        BY <1>a, <2>2, WordWritten
      <3>3. \A q \in Pages : \A j \in Cells :
              flash'[q].word[j] = IF q = cur /\ j = free THEN x ELSE flash[q].word[j]
        BY <3>1, <3>2, Zenon
      <3> QED
        BY <3>3 DEF x
    <2>4. ASSUME NEW a \in Addr, map[a] # 0
          PROVE  /\ flash'[MapPage(a)].word[MapCell(a)] = flash[MapPage(a)].word[MapCell(a)]
                 /\ flash'[MapPage(a)].word[MapCell(a) + 1] = flash[MapPage(a)].word[MapCell(a) + 1]
      <3>1. /\ MapPage(a) \in Pages /\ MapCell(a) \in Cells /\ MapCell(a) + 1 \in Cells
            /\ MapPage(a) = cur => MapCell(a) + 1 < free
        BY <2>1, <2>4, MappedPair
      <3>2. MapCell(a) \in Int
        BY <3>1, Sizes DEF Cells, INFO_size
      <3> QED
        BY <2>2, <2>3, <3>1, <3>2
    <2> QED
      BY <2>1, <2>4, SameReads
  <1>WriteKey. CASE WriteKey
    BY <1>WriteKey
  <1>SetEndPosition. CASE SetEndPosition
    <2>1. /\ Booted /\ Booted' /\ walk.loop # "map" /\ walk'.loop # "map" /\ map' = map
          /\ flash' = [flash EXCEPT ![cur].end = free - 1]
      BY <1>SetEndPosition
         DEF SetEndPosition, Booted, TypeInv, TypeOK, Control, Target, KeepInv, RingInv,
         RoomInv,
             Appending, ram, work
    <2>2. \A q \in Pages : flash'[q].word = flash[q].word
      <3> DEFINE e == free - 1
      <3>1. flash' = [flash EXCEPT ![cur].end = e]
        BY <2>1
      <3> HIDE DEF e
      <3>2. LET f == [flash EXCEPT ![cur].end = e] IN \A q \in Pages : f[q].word = flash[q].word
        BY <1>a, WordKeeps
      <3> QED
        BY <3>1, <3>2, Zenon
    <2>3. \A a \in Addr : map[a] # 0 => MapPage(a) \in Pages
      BY <2>1, MappedPair
    <2> QED
      BY <2>1, <2>2, <2>3, SameReads
  <1>OpenNextPage. CASE OpenNextPage
    <2>1. flash' = flash
      BY <1>OpenNextPage DEF OpenNextPage
    <2> QED
      BY <2>1, SameFlash
  <1>PageErase. CASE PageErase
    <2>1. CASE flash' = flash
      BY <2>1, SameFlash
    <2>2. CASE flash' # flash
      <3>1. flash' = [flash EXCEPT ![target.page] = BlankPage] /\ pc = "erase" /\ pc' = "mark"
            /\ map' = map /\ walk' = walk /\ target' = target
        BY <1>PageErase, <2>2 DEF PageErase, ram, work
      <3>2. /\ (\A q \in Pages \ {target.page} : flash'[q] = flash[q])
            /\ ~Valid(flash', target.page)
        BY <1>a, <3>1, PageErased DEF Valid
      <3>3. CASE target.next \in {"init", "clear"}
        <4>1. \A q \in Pages : ~Valid(flash, q)
          BY <3>3 DEF KeepInv, RingInv, CountInv
        <4>2. \A q \in Pages : ~Valid(flash', q)
          BY <3>2, <4>1 DEF Valid
        <4> QED
          BY <4>1, <4>2, NoneValid
      <3>4. CASE target.next \notin {"init", "clear"}
        <4>1. Booted /\ Booted' /\ walk.loop # "map" /\ walk'.loop # "map"
          <5>1. target.next \in {"write", "gc", "invalid"}
            BY <3>1, <3>4 DEF KeepInv, RingInv, LogInv, ErasedInv, TypeInv, TypeOK, Target
          <5> QED
            BY <3>1, <3>4, <5>1 DEF Booted, TypeInv, Control, KeepInv, RingInv, RoomInv,
               Appending
        <4>2. ASSUME NEW a \in Addr, map[a] # 0 PROVE flash'[MapPage(a)] = flash[MapPage(a)]
          <5>1. MapPage(a) \in Pages
            BY <4>1, <4>2, MappedPair
          <5>2. Mapped(flash', map'[a], a)
            BY <3>1, <4>1, <4>2 DEF KeepInv, MapInv
          <5>3. Valid(flash', MapPage(a))
            BY <3>1, <5>2 DEF Mapped, EntryPage, MapPage
          <5> QED
            BY <3>2, <5>1, <5>3
        <4> QED
          BY <3>1, <4>1, <4>2, SameReads
      <3> QED
        BY <3>3, <3>4
    <2> QED
      BY <2>1, <2>2
  <1>PageMark. CASE PageMark
    <2>1. flash' = [flash EXCEPT ![target.page].mark = "erased"] /\ pc = "mark"
          /\ map' = map /\ walk' = walk /\ target' = target
          /\ pc' = IF target.next \in {"gc", "invalid"} THEN target.next ELSE "format"
      BY <1>PageMark DEF PageMark, ram, work, AfterErase
    <2>2. /\ \A q \in Pages : flash'[q].word = flash[q].word
          /\ \A q \in Pages : flash'[q].mark = IF q = target.page THEN "erased" ELSE flash[q].mark
      BY <1>a, <2>1, MarkWritten
    <2>3. CASE target.next \in {"init", "clear"}
      <3>1. \A q \in Pages : ~Valid(flash, q)
        BY <2>3 DEF KeepInv, RingInv, CountInv
      <3>2. \A q \in Pages : ~Valid(flash', q)
        BY <2>2, <3>1 DEF Valid
      <3> QED
        BY <3>1, <3>2, NoneValid
    <2>4. CASE target.next \notin {"init", "clear"}
      <3>1. Booted /\ Booted' /\ walk.loop # "map" /\ walk'.loop # "map"
        <4>1. target.next \in {"write", "gc", "invalid"}
          BY <2>1, <2>4 DEF KeepInv, RingInv, LogInv, ErasedInv, TypeInv, TypeOK, Target
        <4> QED
          BY <2>1, <2>4, <4>1 DEF Booted, TypeInv, Control, KeepInv, RingInv, RoomInv, Appending
      <3>2. \A a \in Addr : map[a] # 0 => MapPage(a) \in Pages
        BY <3>1, MappedPair
      <3> QED
        BY <2>1, <2>2, <3>1, <3>2, SameReads
    <2> QED
      BY <2>3, <2>4
  <1>FormatNext. CASE FormatNext
    <2>1. /\ Booted /\ Booted' /\ walk.loop # "map" /\ walk'.loop # "map" /\ map' = map
          /\ flash' = [flash EXCEPT ![target.page].mark = "valid", ![target.page].seq = NextSeq(flash[cur].seq)]
      BY <1>FormatNext
         DEF FormatNext, FormatAs, Booted, TypeInv, TypeOK, Control, Target, NoTarget, KeepInv,
         RingInv,
             RoomInv, Appending
    <2>2. \A q \in Pages : flash'[q].word = flash[q].word
      BY <1>a, <2>1, HeaderWritten
    <2>3. \A a \in Addr : map[a] # 0 => MapPage(a) \in Pages
      BY <2>1, MappedPair
    <2> QED
      BY <2>1, <2>2, <2>3, SameReads
  <1>FormatFirst. CASE FormatFirst
    <2>1. /\ flash' = [flash EXCEPT ![target.page].mark = "valid", ![target.page].seq = 0]
          /\ target.next \in {"init", "clear"} /\ pc = "format"
      BY <1>FormatFirst DEF FormatFirst, FormatAs
    <2>2. /\ \A q \in Pages : flash'[q].word = flash[q].word
          /\ \A q \in Pages : flash'[q].mark = IF q = target.page THEN "valid" ELSE flash[q].mark
      BY <1>a, <2>1, HeaderWritten
    <2>3. \A q \in Pages : ~Valid(flash, q)
      BY <2>1 DEF KeepInv, RingInv, CountInv
    <2>4. \A k \in Cells : flash[target.page].word[k] = Blank
      BY <2>1 DEF KeepInv, RingInv, LogInv, ErasedInv, UnwrittenFrom, Cells
    <2>5. ~KeyAt(Blank)
      BY WordAssumption DEF KeyAt
    <2>6. \A q \in Pages, k \in Cells : Valid(flash', q) /\ Odd(k) => ~KeyAt(flash'[q].word[k])
      BY <1>a, <2>2, <2>3, <2>4, <2>5 DEF Valid
    <2> QED
      BY <2>3, <2>6, NoneValid, KeylessNext DEF EmptyIfKeyless
  <1>Collect. CASE \E t \in GcCalls : Collect(t)
    <2>1. flash' = flash
      BY <1>Collect DEF Collect
    <2> QED
      BY <2>1, SameFlash
  <1>CollectPage. CASE CollectPage
    <2>1. flash' = flash
      BY <1>CollectPage DEF CollectPage
    <2> QED
      BY <2>1, SameFlash
  <1>CollectKey. CASE CollectKey
    <2>1. flash' = flash
      BY <1>CollectKey DEF CollectKey
    <2> QED
      BY <2>1, SameFlash
  <1>CollectErase. CASE CollectErase
    <2>1. flash' = flash
      BY <1>CollectErase DEF CollectErase
    <2> QED
      BY <2>1, SameFlash
  <1>CollectRetry. CASE CollectRetry
    <2>1. flash' = flash
      BY <1>CollectRetry DEF CollectRetry
    <2> QED
      BY <2>1, SameFlash
  <1>CollectDone. CASE CollectDone
    <2>1. flash' = flash
      BY <1>CollectDone DEF CollectDone
    <2> QED
      BY <2>1, SameFlash
  <1>ClearAll. CASE ClearAll
    <2>1. flash' = flash
      BY <1>ClearAll DEF ClearAll
    <2> QED
      BY <2>1, SameFlash
  <1>ClearPage. CASE ClearPage
    BY <1>ClearPage DEF ClearPage
  <1>ClearReset. CASE ClearReset
    <2>1. flash' = flash
      BY <1>ClearReset DEF ClearReset
    <2> QED
      BY <2>1, SameFlash
  <1>EraseInvalid. CASE EraseInvalid
    <2>1. flash' = flash
      BY <1>EraseInvalid DEF EraseInvalid
    <2> QED
      BY <2>1, SameFlash
  <1>EraseInvalidPage. CASE EraseInvalidPage
    <2>1. flash' = flash
      BY <1>EraseInvalidPage DEF EraseInvalidPage
    <2> QED
      BY <2>1, SameFlash
  <1>EraseInvalidDone. CASE EraseInvalidDone
    <2>1. flash' = flash
      BY <1>EraseInvalidDone DEF EraseInvalidDone
    <2> QED
      BY <2>1, SameFlash
  <1>PowerLoss. CASE PowerLoss
    <2>1. flash' = flash
      BY <1>PowerLoss DEF PowerLoss
    <2> QED
      BY <2>1, SameFlash
  <1>PowerLossInSector. CASE PowerLossInSector
    BY <1>PowerLossInSector DEF PowerLossInSector, Intact
  <1>Stutter. CASE UNCHANGED vars
    <2>1. flash' = flash
      BY <1>Stutter DEF vars
    <2> QED
      BY <2>1, SameFlash
  <1> QED
    BY <1>PowerOn, <1>ScanPage, <1>ScanNone, <1>FindCell, <1>MapKey, <1>MapPrev,
       <1>RecoverNone, <1>Recover, <1>RecoverKey, <1>RecoverDone, <1>Recount, <1>Save,
       <1>WriteData, <1>WriteKey, <1>SetEndPosition, <1>OpenNextPage, <1>PageErase,
       <1>PageMark, <1>FormatNext, <1>FormatFirst, <1>Collect, <1>CollectPage, <1>CollectKey,
       <1>CollectErase, <1>CollectRetry, <1>CollectDone, <1>ClearAll, <1>ClearPage,
       <1>ClearReset,
       <1>EraseInvalid, <1>EraseInvalidPage, <1>EraseInvalidDone, <1>PowerLoss,
       <1>PowerLossInSector,
       <1>Stutter DEF Next, Step, Boot, Append, Format, Gc, Clear, Request


LEMMA ContentsSaved ==
    ASSUME TypeInv, TypeInv', KeepInv, KeepInv', WriteKey
    PROVE  Contents' = IF walk.loop = "none" THEN [Contents EXCEPT ![item.addr] = item.val] ELSE Contents
  <1>1. CASE walk.loop = "none"
    <2>1. [[a \in Addr |-> ftl_read(a)] EXCEPT ![item.addr] = item.val]
            = [a \in Addr |-> IF a = item.addr THEN item.val ELSE ftl_read(a)]
      OBVIOUS
    <2> QED
      BY <1>1, <2>1, KeyReads
  <1>2. CASE walk.loop # "none"
    <2>1. /\ [a \in Addr |-> IF a = item.addr THEN item.val ELSE ftl_read(a)] = [a \in Addr |-> ftl_read(a)]
      BY <1>2, KeyReads
    <2> QED
      BY <1>2, <2>1, KeyReads
  <1> QED
    BY <1>1, <1>2

\* FlashStepsPreserveContents: on a ring no power loss has broken, no write or
\* erase changes what a restart would find but the key word of a caller's pair,
\* which makes its save take effect: saves are atomic, and the collector,
\* recovery and the format of pages lose nothing at any point where power may
\* fail.
THEOREM FlashStepsPreserve == ASSUME GcBelow PROVE Spec => FlashStepsPreserveContents
  <1>1. TypeInv /\ TypeInv' /\ (Intact => KeepInv) /\ (Intact => KeepInv)' /\ [Next]_vars =>
          [flash' # flash /\ Intact' /\ pc # "clear" =>
             \/ Contents' = Contents
             \/ /\ pc = "key" /\ walk.loop = "none"
                /\ Contents' = [Contents EXCEPT ![item.addr] = item.val]]_vars
    <2> SUFFICES ASSUME TypeInv, TypeInv', Intact => KeepInv, (Intact => KeepInv)', [Next]_vars,
                        Intact', pc # "clear", Contents' # Contents
                 PROVE  /\ pc = "key" /\ walk.loop = "none"
                        /\ Contents' = [Contents EXCEPT ![item.addr] = item.val]
      OBVIOUS
    <2>1. KeepInv /\ KeepInv'
      BY DamageStays
    <2>2. WriteKey
      BY <2>1, ContentsKept
    <2> QED
      BY <2>1, <2>2, ContentsSaved DEF WriteKey
  <1> QED
    BY TypeInvariant, KeepInvariant, <1>1, PTL DEF Spec, FlashStepsPreserveContents

\* SavedWordReadsBack: the word a save returned from is what ftl_read returns;
\* a ring a power loss broke is not booted again.
THEOREM SavedWordsReadBack == ASSUME GcBelow, ~RestartBroken PROVE Spec => SavedWordReadsBack
  <1>1. TypeInv /\ TypeInv' /\ (Intact => KeepInv) /\ (Intact => KeepInv)' /\ [Next]_vars
          /\ (Intact \/ (pc = "off" /\ walk = NoWalk)) /\ (Intact \/ (pc = "off" /\ walk = NoWalk))' =>
          [\A a \in Addr : pc = "key" /\ pc' = "idle" /\ item.addr = a => ftl_read(a)' = item.val]_vars
    <2> SUFFICES ASSUME TypeInv, TypeInv', Intact => KeepInv, (Intact => KeepInv)',
                        Intact \/ pc = "off", Intact' \/ pc' = "off", [Next]_vars,
                        NEW a \in Addr, pc = "key", pc' = "idle", item.addr = a
                 PROVE  ftl_read(a)' = item.val
      OBVIOUS
    <2>1. WriteKey
      BY DEF Next, Step, Boot, Append, Format, Gc, Clear, Request, vars, Reset,
         PowerOn, ScanPage, ScanNone, FindCell, MapKey, MapPrev, RecoverNone, Recover,
         RecoverKey, RecoverDone, Recount, Save, WriteData, SetEndPosition,
         OpenNextPage, PageErase, PageMark, FormatNext, FormatFirst, Collect, CollectPage,
         CollectKey, CollectErase, CollectRetry, CollectDone, ClearAll, ClearPage, ClearReset,
         EraseInvalid, EraseInvalidPage, EraseInvalidDone, PowerLoss, PowerLossInSector
    <2>2. KeepInv /\ KeepInv'
      OBVIOUS
    <2>3. Contents' = [b \in Addr |-> ftl_read(b)']
      <3>1. Booted' /\ walk'.loop # "map"
        BY <2>1 DEF WriteKey, Booted, Return, TypeInv, TypeOK, Target, Control
      <3> QED
        BY <2>2, <3>1, LogReadsNext DEF LogIsRead
    <2> QED
      BY <2>1, <2>2, <2>3, KeyReads
  <1> QED
    BY TypeInvariant, KeepInvariant, BrokenIsOff, <1>1, PTL DEF Spec, SavedWordReadsBack

-----------------------------------------------------------------------------
(* The abstract store: what ftl_save and ftl_load promise.                  *)

\* A save is in progress only where ftl_write, or the collection it started,
\* runs; outside of a loop the pair being appended is the caller's.
SaverInv ==
    /\ pc \in {"off", "scan", "cell", "map", "recover", "rec", "recount", "idle", "clear",
               "invalid"} => call = NoItem
    /\ walk.loop \in {"scan", "map", "rec", "invalid"} => call = NoItem
    /\ target.next \in {"init", "clear"} => call = NoItem
    /\ walk.loop = "none" /\ Appending => item = call

\* Every step keeps the pair of the caller with the save it belongs to.
LEMMA SaverStep == TypeInv /\ KeepInv /\ SaverInv /\ [Next]_vars => SaverInv'
  <1> SUFFICES ASSUME TypeInv, KeepInv, SaverInv, [Next]_vars PROVE SaverInv'
    OBVIOUS
  <1> USE DEF TypeInv

  <1>PowerOn. CASE PowerOn
    BY <1>PowerOn
       DEF PowerOn, SaverInv, Appending, work, ram, NoWalk, NoTarget, FormatAs,
          Return, AfterErase, Reset, Walk, TypeOK, Control, Target
  <1>ScanPage. CASE ScanPage
    BY <1>ScanPage
       DEF ScanPage, SaverInv, Appending, work, ram, NoWalk, NoTarget, FormatAs,
          Return, AfterErase, Reset, Walk, TypeOK, Control, Target
  <1>ScanNone. CASE ScanNone
    BY <1>ScanNone
       DEF ScanNone, SaverInv, Appending, work, ram, NoWalk, NoTarget, FormatAs,
          Return, AfterErase, Reset, Walk, TypeOK, Control, Target
  <1>FindCell. CASE FindCell
    BY <1>FindCell
       DEF FindCell, SaverInv, Appending, work, ram, NoWalk, NoTarget, FormatAs,
          Return, AfterErase, Reset, Walk, TypeOK, Control, Target
  <1>MapKey. CASE MapKey
    BY <1>MapKey
       DEF MapKey, SaverInv, Appending, work, ram, NoWalk, NoTarget, FormatAs,
          Return, AfterErase, Reset, Walk, TypeOK, Control, Target
  <1>MapPrev. CASE MapPrev
    <2>1. /\ pc = "map" /\ pc' \in {"map", "recover"} /\ call' = call /\ target' = target
          /\ walk.loop = "map" /\ target.next \notin {"write"}
      BY <1>MapPrev DEF MapPrev, TypeOK, Control, Target
    <2> QED
      BY <2>1 DEF SaverInv, Appending
  <1>RecoverNone. CASE RecoverNone
    BY <1>RecoverNone
       DEF RecoverNone, SaverInv, Appending, work, ram, NoWalk, NoTarget, FormatAs,
          Return, AfterErase, Reset, Walk, TypeOK, Control, Target
  <1>Recover. CASE Recover
    BY <1>Recover
       DEF Recover, SaverInv, Appending, work, ram, NoWalk, NoTarget, FormatAs,
          Return, AfterErase, Reset, Walk, TypeOK, Control, Target
  <1>RecoverKey. CASE RecoverKey
    BY <1>RecoverKey
       DEF RecoverKey, SaverInv, Appending, work, ram, NoWalk, NoTarget, FormatAs,
          Return, AfterErase, Reset, Walk, TypeOK, Control, Target
  <1>RecoverDone. CASE RecoverDone
    BY <1>RecoverDone
       DEF RecoverDone, SaverInv, Appending, work, ram, NoWalk, NoTarget, FormatAs,
          Return, AfterErase, Reset, Walk, TypeOK, Control, Target
  <1>Recount. CASE Recount
    BY <1>Recount
       DEF Recount, SaverInv, Appending, work, ram, NoWalk, NoTarget, FormatAs,
          Return, AfterErase, Reset, Walk, TypeOK, Control, Target
  <1>Save. CASE \E s \in Saves : Save(s[1], s[2])
    BY <1>Save
       DEF Save, SaverInv, Appending, work, ram, NoWalk, NoTarget, FormatAs, Return,
          AfterErase, Reset, Walk, TypeOK, Control, Target
  <1>WriteData. CASE WriteData
    BY <1>WriteData
       DEF WriteData, SaverInv, Appending, work, ram, NoWalk, NoTarget, FormatAs,
          Return, AfterErase, Reset, Walk, TypeOK, Control, Target, KeepInv,
          RingInv, RoomInv, LogInv, ErasedInv
  <1>WriteKey. CASE WriteKey
    BY <1>WriteKey
       DEF WriteKey, SaverInv, Appending, work, ram, NoWalk, NoTarget, FormatAs,
          Return, AfterErase, Reset, Walk, TypeOK, Control, Target, KeepInv,
          RingInv, RoomInv, LogInv, ErasedInv
  <1>SetEndPosition. CASE SetEndPosition
    BY <1>SetEndPosition
       DEF SetEndPosition, SaverInv, Appending, work, ram, NoWalk, NoTarget,
          FormatAs, Return, AfterErase, Reset, Walk, TypeOK, Control, Target
  <1>OpenNextPage. CASE OpenNextPage
    BY <1>OpenNextPage
       DEF OpenNextPage, SaverInv, Appending, work, ram, NoWalk, NoTarget, FormatAs,
          Return, AfterErase, Reset, Walk, TypeOK, Control, Target, KeepInv,
          RingInv, RoomInv, LogInv, ErasedInv
  <1>PageErase. CASE PageErase
    BY <1>PageErase
       DEF PageErase, SaverInv, Appending, work, ram, NoWalk, NoTarget, FormatAs,
          Return, AfterErase, Reset, Walk, TypeOK, Control, Target, KeepInv,
          RingInv, RoomInv, LogInv, ErasedInv
  <1>PageMark. CASE PageMark
    BY <1>PageMark
       DEF PageMark, SaverInv, Appending, work, ram, NoWalk, NoTarget, FormatAs,
          Return, AfterErase, Reset, Walk, TypeOK, Control, Target, KeepInv,
          RingInv, RoomInv, LogInv, ErasedInv
  <1>FormatNext. CASE FormatNext
    BY <1>FormatNext
       DEF FormatNext, SaverInv, Appending, work, ram, NoWalk, NoTarget, FormatAs,
          Return, AfterErase, Reset, Walk, TypeOK, Control, Target, KeepInv,
          RingInv, RoomInv, LogInv, ErasedInv
  <1>FormatFirst. CASE FormatFirst
    BY <1>FormatFirst
       DEF FormatFirst, SaverInv, Appending, work, ram, NoWalk, NoTarget, FormatAs,
          Return, AfterErase, Reset, Walk, TypeOK, Control, Target
  <1>Collect. CASE \E t \in GcCalls : Collect(t)
    BY <1>Collect
       DEF Collect, SaverInv, Appending, work, ram, NoWalk, NoTarget, FormatAs,
          Return, AfterErase, Reset, Walk, TypeOK, Control, Target
  <1>CollectPage. CASE CollectPage
    BY <1>CollectPage
       DEF CollectPage, SaverInv, Appending, work, ram, NoWalk, NoTarget, FormatAs,
          Return, AfterErase, Reset, Walk, TypeOK, Control, Target
  <1>CollectKey. CASE CollectKey
    BY <1>CollectKey
       DEF CollectKey, SaverInv, Appending, work, ram, NoWalk, NoTarget, FormatAs,
          Return, AfterErase, Reset, Walk, TypeOK, Control, Target
  <1>CollectErase. CASE CollectErase
    BY <1>CollectErase
       DEF CollectErase, SaverInv, Appending, work, ram, NoWalk, NoTarget, FormatAs,
          Return, AfterErase, Reset, Walk, TypeOK, Control, Target
  <1>CollectRetry. CASE CollectRetry
    BY <1>CollectRetry
       DEF CollectRetry, SaverInv, Appending, work, ram, NoWalk, NoTarget, FormatAs,
          Return, AfterErase, Reset, Walk, TypeOK, Control, Target
  <1>CollectDone. CASE CollectDone
    BY <1>CollectDone
       DEF CollectDone, SaverInv, Appending, work, ram, NoWalk, NoTarget, FormatAs,
          Return, AfterErase, Reset, Walk, TypeOK, Control, Target
  <1>ClearAll. CASE ClearAll
    BY <1>ClearAll
       DEF ClearAll, SaverInv, Appending, work, ram, NoWalk, NoTarget, FormatAs,
          Return, AfterErase, Reset, Walk, TypeOK, Control, Target
  <1>ClearPage. CASE ClearPage
    BY <1>ClearPage
       DEF ClearPage, SaverInv, Appending, work, ram, NoWalk, NoTarget, FormatAs,
          Return, AfterErase, Reset, Walk, TypeOK, Control, Target
  <1>ClearReset. CASE ClearReset
    BY <1>ClearReset
       DEF ClearReset, SaverInv, Appending, work, ram, NoWalk, NoTarget, FormatAs,
          Return, AfterErase, Reset, Walk, TypeOK, Control, Target
  <1>EraseInvalid. CASE EraseInvalid
    BY <1>EraseInvalid
       DEF EraseInvalid, SaverInv, Appending, work, ram, NoWalk, NoTarget, FormatAs,
          Return, AfterErase, Reset, Walk, TypeOK, Control, Target
  <1>EraseInvalidPage. CASE EraseInvalidPage
    BY <1>EraseInvalidPage
       DEF EraseInvalidPage, SaverInv, Appending, work, ram, NoWalk, NoTarget,
          FormatAs, Return, AfterErase, Reset, Walk, TypeOK, Control, Target
  <1>EraseInvalidDone. CASE EraseInvalidDone
    BY <1>EraseInvalidDone
       DEF EraseInvalidDone, SaverInv, Appending, work, ram, NoWalk, NoTarget,
          FormatAs, Return, AfterErase, Reset, Walk, TypeOK, Control, Target
  <1>PowerLoss. CASE PowerLoss
    BY <1>PowerLoss
       DEF PowerLoss, SaverInv, Appending, work, ram, NoWalk, NoTarget, FormatAs,
          Return, AfterErase, Reset, Walk, TypeOK, Control, Target
  <1>PowerLossInSector. CASE PowerLossInSector
    BY <1>PowerLossInSector
       DEF PowerLossInSector, SaverInv, Appending, work, ram, NoWalk, NoTarget,
          FormatAs, Return, AfterErase, Reset, Walk, TypeOK, Control, Target
  <1>Stutter. CASE UNCHANGED vars
    BY <1>Stutter DEF vars, SaverInv, Appending, ram, work
  <1> QED
    BY <1>PowerOn, <1>ScanPage, <1>ScanNone, <1>FindCell, <1>MapKey, <1>MapPrev,
       <1>RecoverNone, <1>Recover, <1>RecoverKey, <1>RecoverDone, <1>Recount, <1>Save,
       <1>WriteData, <1>WriteKey, <1>SetEndPosition, <1>OpenNextPage, <1>PageErase,
       <1>PageMark, <1>FormatNext, <1>FormatFirst, <1>Collect, <1>CollectPage, <1>CollectKey,
       <1>CollectErase, <1>CollectRetry, <1>CollectDone, <1>ClearAll, <1>ClearPage,
       <1>ClearReset,
       <1>EraseInvalid, <1>EraseInvalidPage, <1>EraseInvalidDone, <1>PowerLoss,
       <1>PowerLossInSector,
       <1>Stutter DEF Next, Step, Boot, Append, Format, Gc, Clear, Request


LEMMA SaverInvariant == ASSUME GcBelow PROVE Spec => [](Intact => KeepInv /\ SaverInv)
  <1>1. Init => SaverInv
    BY DEF Init, SaverInv, NoWalk, NoTarget, Appending
  <1>2. TypeInv /\ TypeInv' /\ (Intact => KeepInv) /\ (Intact => SaverInv) /\ [Next]_vars
          => (Intact => SaverInv)'
    BY SaverStep, DamageStays
  <1> QED
    BY TypeInvariant, KeepInvariant, <1>1, <1>2, PTL DEF Spec

\* What the store of FtlStore is, and its steps while the promise stands: a
\* save begins, takes effect or is cut short, everything is cleared, or nothing
\* changes.
StoreNow == IF Cleared THEN [a \in Addr |-> NoWord] ELSE Contents

StoreStep ==
    \/ StoreNow' = StoreNow /\ call' = call
    \/ /\ call = NoItem /\ \E a \in Addr, w \in Values : call' = [addr |-> a, val |-> w]
       /\ StoreNow' = StoreNow
    \/ /\ call # NoItem /\ call' = NoItem
       /\ StoreNow' = [StoreNow EXCEPT ![call.addr] = call.val]
    \/ call # NoItem /\ call' = NoItem /\ StoreNow' = StoreNow
    \/ call = NoItem /\ call' = call /\ StoreNow' = [a \in Addr |-> NoWord]

\* A step outside of clearing that keeps what is saved.
LEMMA StoreSame ==
    ASSUME Contents' = Contents, pc # "clear", pc' # "clear", call' = call PROVE StoreStep
  BY DEF StoreStep, StoreNow, Cleared

\* Every step of an intact ring is one of them.
LEMMA RingStores == 
    TypeInv /\ TypeInv' /\ KeepInv /\ KeepInv' /\ SaverInv /\ Intact /\ Intact' /\ [Next]_vars
      => StoreStep
  <1> SUFFICES ASSUME TypeInv, TypeInv', KeepInv, KeepInv', SaverInv, Intact, Intact', [Next]_vars
               PROVE  StoreStep
    OBVIOUS

  <1>PowerOn. CASE PowerOn
    <2>1. pc # "clear" /\ pc' # "clear" /\ call' = call /\ ~WriteKey
      BY <1>PowerOn DEF PowerOn, work, ram, WriteKey
    <2> QED
      BY <1>PowerOn, <2>1, StoreSame, ContentsKept DEF PowerOn
  <1>ScanPage. CASE ScanPage
    <2>1. pc # "clear" /\ pc' # "clear" /\ call' = call /\ ~WriteKey
      BY <1>ScanPage DEF ScanPage, work, ram, WriteKey
    <2> QED
      BY <1>ScanPage, <2>1, StoreSame, ContentsKept DEF ScanPage
  <1>ScanNone. CASE ScanNone
    <2>1. pc # "clear" /\ pc' # "clear" /\ call' = call /\ ~WriteKey
      BY <1>ScanNone DEF ScanNone, work, ram, WriteKey
    <2> QED
      BY <1>ScanNone, <2>1, StoreSame, ContentsKept DEF ScanNone
  <1>FindCell. CASE FindCell
    <2>1. pc # "clear" /\ pc' # "clear" /\ call' = call /\ ~WriteKey
      BY <1>FindCell DEF FindCell, work, ram, WriteKey
    <2> QED
      BY <1>FindCell, <2>1, StoreSame, ContentsKept DEF FindCell
  <1>MapKey. CASE MapKey
    <2>1. pc # "clear" /\ pc' # "clear" /\ call' = call /\ ~WriteKey
      BY <1>MapKey DEF MapKey, work, ram, WriteKey
    <2> QED
      BY <1>MapKey, <2>1, StoreSame, ContentsKept DEF MapKey
  <1>MapPrev. CASE MapPrev
    <2>1. pc # "clear" /\ pc' # "clear" /\ call' = call /\ ~WriteKey
      BY <1>MapPrev DEF MapPrev, work, ram, WriteKey
    <2> QED
      BY <1>MapPrev, <2>1, StoreSame, ContentsKept DEF MapPrev
  <1>RecoverNone. CASE RecoverNone
    <2>1. pc # "clear" /\ pc' # "clear" /\ call' = call /\ ~WriteKey
      BY <1>RecoverNone DEF RecoverNone, work, ram, WriteKey
    <2> QED
      BY <1>RecoverNone, <2>1, StoreSame, ContentsKept DEF RecoverNone
  <1>Recover. CASE Recover
    <2>1. pc # "clear" /\ pc' # "clear" /\ call' = call /\ ~WriteKey
      BY <1>Recover DEF Recover, work, ram, WriteKey
    <2> QED
      BY <1>Recover, <2>1, StoreSame, ContentsKept DEF Recover
  <1>RecoverKey. CASE RecoverKey
    <2>1. pc # "clear" /\ pc' # "clear" /\ call' = call /\ ~WriteKey
      BY <1>RecoverKey DEF RecoverKey, work, ram, WriteKey
    <2> QED
      BY <1>RecoverKey, <2>1, StoreSame, ContentsKept DEF RecoverKey
  <1>RecoverDone. CASE RecoverDone
    <2>1. pc # "clear" /\ pc' # "clear" /\ call' = call /\ ~WriteKey
      BY <1>RecoverDone DEF RecoverDone, work, ram, KeepInv, CopyInv, WriteKey
    <2> QED
      BY <1>RecoverDone, <2>1, StoreSame, ContentsKept DEF RecoverDone
  <1>Recount. CASE Recount
    <2>1. pc # "clear" /\ pc' # "clear" /\ call' = call /\ ~WriteKey
      BY <1>Recount DEF Recount, work, ram, WriteKey
    <2> QED
      BY <1>Recount, <2>1, StoreSame, ContentsKept DEF Recount
  <1>Save. CASE \E s \in Saves : Save(s[1], s[2])
    <2>1. /\ pc = "idle" /\ pc' = "write" /\ flash' = flash /\ call = NoItem
          /\ \E a \in Addr, w \in Values : call' = [addr |-> a, val |-> w]
      BY <1>Save, CallAssumption DEF Save, SaverInv
    <2>2. StoreNow' = StoreNow
      BY <2>1, SameFlash DEF StoreNow, Cleared
    <2> QED
      BY <2>1, <2>2 DEF StoreStep
  <1>WriteData. CASE WriteData
    <2>1. pc # "clear" /\ pc' # "clear" /\ call' = call /\ ~WriteKey
      BY <1>WriteData DEF WriteData, work, ram, WriteKey
    <2> QED
      BY <1>WriteData, <2>1, StoreSame, ContentsKept DEF WriteData
  <1>WriteKey. CASE WriteKey
    <2>1. pc = "key" /\ pc' # "clear" /\ item # NoItem /\ Appending
      BY <1>WriteKey DEF WriteKey, Return, TypeInv, TypeOK, Control, KeepInv, RingInv, RoomInv,
         Appending
    <2>2. StoreNow = Contents /\ StoreNow' = Contents'
      BY <2>1 DEF StoreNow, Cleared
    <2>3. CASE walk.loop = "none"
      <3>1. call = item /\ call' = NoItem
        BY <1>WriteKey, <2>1, <2>3 DEF WriteKey, SaverInv
      <3>2. Contents' = [Contents EXCEPT ![item.addr] = item.val]
        BY <1>WriteKey, <2>3, ContentsSaved
      <3> QED
        BY <2>1, <2>2, <3>1, <3>2 DEF StoreStep
    <2>4. CASE walk.loop # "none"
      <3>1. call' = call
        BY <1>WriteKey, <2>4 DEF WriteKey
      <3>2. Contents' = Contents
        BY <1>WriteKey, <2>4, ContentsSaved
      <3> QED
        BY <2>2, <3>1, <3>2 DEF StoreStep
    <2> QED
      BY <2>3, <2>4
  <1>SetEndPosition. CASE SetEndPosition
    <2>1. pc # "clear" /\ pc' # "clear" /\ call' = call /\ ~WriteKey
      BY <1>SetEndPosition DEF SetEndPosition, work, ram, WriteKey
    <2> QED
      BY <1>SetEndPosition, <2>1, StoreSame, ContentsKept DEF SetEndPosition
  <1>OpenNextPage. CASE OpenNextPage
    <2>1. pc # "clear" /\ pc' # "clear" /\ call' = call /\ ~WriteKey
      BY <1>OpenNextPage DEF OpenNextPage, work, ram, WriteKey
    <2> QED
      BY <1>OpenNextPage, <2>1, StoreSame, ContentsKept DEF OpenNextPage
  <1>PageErase. CASE PageErase
    <2>1. pc # "clear" /\ pc' # "clear" /\ call' = call /\ ~WriteKey
      BY <1>PageErase DEF PageErase, work, ram, AfterErase, WriteKey
    <2> QED
      BY <1>PageErase, <2>1, StoreSame, ContentsKept DEF PageErase
  <1>PageMark. CASE PageMark
    <2>1. pc # "clear" /\ pc' # "clear" /\ call' = call /\ ~WriteKey
      BY <1>PageMark DEF PageMark, work, ram, AfterErase, WriteKey
    <2> QED
      BY <1>PageMark, <2>1, StoreSame, ContentsKept DEF PageMark
  <1>FormatNext. CASE FormatNext
    <2>1. pc # "clear" /\ pc' # "clear" /\ call' = call /\ ~WriteKey
      BY <1>FormatNext DEF FormatNext, work, ram, WriteKey
    <2> QED
      BY <1>FormatNext, <2>1, StoreSame, ContentsKept DEF FormatNext
  <1>FormatFirst. CASE FormatFirst
    <2>1. pc # "clear" /\ pc' # "clear" /\ call' = call /\ ~WriteKey
      BY <1>FormatFirst DEF FormatFirst, work, ram, WriteKey
    <2> QED
      BY <1>FormatFirst, <2>1, StoreSame, ContentsKept DEF FormatFirst
  <1>Collect. CASE \E t \in GcCalls : Collect(t)
    <2>1. pc # "clear" /\ pc' # "clear" /\ call' = call /\ ~WriteKey
      BY <1>Collect DEF Collect, work, ram, WriteKey
    <2> QED
      BY <1>Collect, <2>1, StoreSame, ContentsKept DEF Collect
  <1>CollectPage. CASE CollectPage
    <2>1. pc # "clear" /\ pc' # "clear" /\ call' = call /\ ~WriteKey
      BY <1>CollectPage DEF CollectPage, work, ram, WriteKey
    <2> QED
      BY <1>CollectPage, <2>1, StoreSame, ContentsKept DEF CollectPage
  <1>CollectKey. CASE CollectKey
    <2>1. pc # "clear" /\ pc' # "clear" /\ call' = call /\ ~WriteKey
      BY <1>CollectKey DEF CollectKey, work, ram, WriteKey
    <2> QED
      BY <1>CollectKey, <2>1, StoreSame, ContentsKept DEF CollectKey
  <1>CollectErase. CASE CollectErase
    <2>1. pc # "clear" /\ pc' # "clear" /\ call' = call /\ ~WriteKey
      BY <1>CollectErase DEF CollectErase, work, ram, WriteKey
    <2> QED
      BY <1>CollectErase, <2>1, StoreSame, ContentsKept DEF CollectErase
  <1>CollectRetry. CASE CollectRetry
    <2>1. pc # "clear" /\ pc' # "clear" /\ call' = call /\ ~WriteKey
      BY <1>CollectRetry DEF CollectRetry, work, ram, WriteKey
    <2> QED
      BY <1>CollectRetry, <2>1, StoreSame, ContentsKept DEF CollectRetry
  <1>CollectDone. CASE CollectDone
    <2>1. pc # "clear" /\ pc' # "clear" /\ call' = call /\ ~WriteKey
      BY <1>CollectDone DEF CollectDone, work, ram, WriteKey
    <2> QED
      BY <1>CollectDone, <2>1, StoreSame, ContentsKept DEF CollectDone
  <1>ClearAll. CASE ClearAll
    <2>1. /\ pc = "idle" /\ walk.page = 0 /\ flash' = flash /\ call' = call /\ walk' = walk
      BY <1>ClearAll DEF ClearAll, work, TypeInv, Control, KeepInv, RingInv, CountInv
    <2>2. StoreNow' = StoreNow
      BY <2>1, SameFlash, Sizes DEF StoreNow, Cleared
    <2> QED
      BY <2>1, <2>2 DEF StoreStep
  <1>ClearPage. CASE ClearPage
    <2>1. /\ pc = "clear" /\ pc' = "clear" /\ call = NoItem /\ call' = call
          /\ walk.page \in 0 .. NPages - 1 /\ walk'.page = walk.page + 1
      BY <1>ClearPage, WalkFields, Sizes DEF ClearPage, SaverInv, TypeInv, TypeOK, Walk
    <2>2. CASE walk.page = 0
      <3>1. StoreNow' = [a \in Addr |-> NoWord]
        BY <2>1, <2>2, Sizes DEF StoreNow, Cleared
      <3> QED
        BY <2>1, <3>1 DEF StoreStep
    <2>3. CASE walk.page # 0
      <3>1. StoreNow = [a \in Addr |-> NoWord]
        BY <2>1, <2>3, Sizes DEF StoreNow, Cleared
      <3>2. StoreNow' = [a \in Addr |-> NoWord]
        <4>1. CASE walk.page + 1 = NPages
          <5>1. \A q \in Pages : ~Valid(flash', q)
            BY <2>1, <4>1, Sizes DEF KeepInv, RingInv, CountInv, Pages
          <5> QED
            BY <5>1, NoneValid DEF StoreNow
        <4>2. CASE walk.page + 1 # NPages
          BY <2>1, <2>3, <4>2, Sizes DEF StoreNow, Cleared
        <4> QED
          BY <4>1, <4>2
      <3> QED
        BY <2>1, <3>1, <3>2 DEF StoreStep
    <2> QED
      BY <2>2, <2>3
  <1>ClearReset. CASE ClearReset
    <2>1. /\ pc = "clear" /\ pc' = "erase" /\ walk.page = NPages /\ flash' = flash
          /\ call' = call
      BY <1>ClearReset DEF ClearReset
    <2>2. StoreNow' = StoreNow
      BY <2>1, SameFlash, Sizes DEF StoreNow, Cleared
    <2> QED
      BY <2>1, <2>2 DEF StoreStep
  <1>EraseInvalid. CASE EraseInvalid
    <2>1. pc # "clear" /\ pc' # "clear" /\ call' = call /\ ~WriteKey
      BY <1>EraseInvalid DEF EraseInvalid, work, ram, WriteKey
    <2> QED
      BY <1>EraseInvalid, <2>1, StoreSame, ContentsKept DEF EraseInvalid
  <1>EraseInvalidPage. CASE EraseInvalidPage
    <2>1. pc # "clear" /\ pc' # "clear" /\ call' = call /\ pc # "key"
      BY <1>EraseInvalidPage DEF EraseInvalidPage, ram, work
    <2>2. ~WriteKey
      BY <2>1 DEF WriteKey
    <2> QED
      BY <2>1, <2>2, StoreSame, ContentsKept
  <1>EraseInvalidDone. CASE EraseInvalidDone
    <2>1. pc # "clear" /\ pc' # "clear" /\ call' = call /\ ~WriteKey
      BY <1>EraseInvalidDone DEF EraseInvalidDone, work, ram, WriteKey
    <2> QED
      BY <1>EraseInvalidDone, <2>1, StoreSame, ContentsKept DEF EraseInvalidDone
  <1>PowerLoss. CASE PowerLoss
    <2>1. /\ pc' = "off" /\ call' = NoItem /\ flash' = flash /\ ~Cleared
      BY <1>PowerLoss DEF PowerLoss, Reset, Intact
    <2>2. StoreNow' = StoreNow
      BY <2>1, SameFlash DEF StoreNow, Cleared
    <2> QED
      BY <2>1, <2>2 DEF StoreStep
  <1>PowerLossInSector. CASE PowerLossInSector
    BY <1>PowerLossInSector DEF PowerLossInSector, Intact
  <1>Stutter. CASE UNCHANGED vars
    <2>1. pc' = pc /\ walk' = walk /\ flash' = flash /\ call' = call
      BY <1>Stutter DEF vars, work
    <2>2. StoreNow' = StoreNow
      BY <2>1, SameFlash DEF StoreNow, Cleared
    <2> QED
      BY <2>1, <2>2 DEF StoreStep
  <1> QED
    BY <1>PowerOn, <1>ScanPage, <1>ScanNone, <1>FindCell, <1>MapKey, <1>MapPrev,
       <1>RecoverNone, <1>Recover, <1>RecoverKey, <1>RecoverDone, <1>Recount, <1>Save,
       <1>WriteData, <1>WriteKey, <1>SetEndPosition, <1>OpenNextPage, <1>PageErase,
       <1>PageMark, <1>FormatNext, <1>FormatFirst, <1>Collect, <1>CollectPage, <1>CollectKey,
       <1>CollectErase, <1>CollectRetry, <1>CollectDone, <1>ClearAll, <1>ClearPage,
       <1>ClearReset,
       <1>EraseInvalid, <1>EraseInvalidPage, <1>EraseInvalidDone, <1>PowerLoss,
       <1>PowerLossInSector,
       <1>Stutter DEF Next, Step, Boot, Append, Format, Gc, Clear, Request


\* ImplementsStore: the ring is the store of FtlStore. A save takes effect with
\* one write and a power loss does all of it or nothing; the collector,
\* recovery, the opening of pages and restarts change nothing; clearing takes
\* effect with its first page; what breaks the promise is a power loss that
\* ftl.c does not survive.
THEOREM RingImplementsStore == ASSUME GcBelow PROVE Spec => ImplementsStore
  <1>1. Init => Store!Init
    <2> SUFFICES ASSUME Init PROVE Store!Init
      OBVIOUS
    <2>1. \A p \in Pages : ~Valid(flash, p)
      BY DEF Init, Valid, BlankPage
    <2>2. Contents = [a \in Addr |-> NoWord] /\ ~Cleared
      BY <2>1, NoneValid DEF Init, Cleared
    <2> QED
      BY <2>2 DEF Init, Intact, Store!Init, Store!Empty
  <1>2. TypeInv /\ TypeInv' /\ (Intact => KeepInv /\ SaverInv) /\ (Intact => KeepInv /\ SaverInv)'
          /\ [Next]_vars => [Store!Next]_(Store!svars)
    <2> SUFFICES ASSUME TypeInv, TypeInv', Intact => KeepInv /\ SaverInv,
                        (Intact => KeepInv /\ SaverInv)', [Next]_vars
                 PROVE  [Store!Next]_(Store!svars)
      OBVIOUS
    <2>1. CASE ~Intact
      BY <2>1 DEF Store!Next
    <2>2. CASE Intact /\ ~Intact'
      BY <2>2 DEF Store!Next, Store!Break, Intact
    <2>3. CASE Intact /\ Intact'
      <3>1. StoreStep
        BY <2>3, RingStores
      <3>2. Intact' = TRUE /\ Intact = TRUE
        BY <2>3 DEF Intact
      <3> QED
        BY <3>1, <3>2
           DEF StoreStep, StoreNow, Store!Next, Store!svars, Store!Begin, Store!Commit,
           Store!Cut,
               Store!Clear, Store!Empty
    <2> QED
      BY <2>1, <2>2, <2>3
  <1> QED
    BY TypeInvariant, SaverInvariant, <1>1, <1>2, PTL DEF Spec, ImplementsStore, Store!Spec

=============================================================================
