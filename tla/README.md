# TLA+ models of the ameba-rtos-pro2 SDK

This directory holds TLA+ specifications of the SDK's own logic under `src/component`, the TLC
configurations that check them on small instances, and TLAPS proofs of what holds for every size.
Most of the repository is vendored (lwIP, mbedTLS, FreeRTOS, littlefs, FatFs, sqlite, iperf, the AWS
SDKs), generated, or binary; the models follow only what is written here.

To check: `tlc -config MCFtl_core.cfg MCFtl.tla` (likewise for each run of `PROJECT.json`), and
`tlapm` on the eight modules `*Proofs.tla`.

| section | modules | theorems |
|---|---|---|
| 3 FTL | `FtlStore`, `Ftl`, `FtlClients`, `FtlMapping` | `FtlProofs`, `FtlRingProofs`, `FtlClientsProofs`, `FtlMappingProofs` |
| 4 NAND bad blocks | `Nand` | `NandProofs` |
| 5 TFTP | `Tftp` | `TftpProofs` |
| 6 DHCP server | `Dhcps` | `DhcpsProofs` |
| 7 RTSP server | `Rtsp` | `RtspProofs` |

A module `MCx` names the instance of `x` that its configurations check. Section 8 says what is not modelled.

## 1. Inventory

| component | state | operations | interacts with | hard behaviour | correct means |
|---|---|---|---|---|---|
| FTL (`file_system/ftl/ftl.c`) | ring of flash pages; RAM: current page, free cell, mapping table, free count | `ftl_init`, `ftl_write`, `ftl_read`, collection, `ftl_ioctl`, `ftl_save_to_storage`/`ftl_load_from_storage` | flash drivers below, Bluetooth and application settings above, the idle task | power loss at any write, page recycling, reads during collection, two locks | a word saved is the word loaded, before and after a restart; collection loses nothing |
| FTL common (`file_system/ftl_common`, `system_data`) | NAND bad block table in two copies, remap table, page buffers | read/write/erase of a page, remapping of a block that fails | SPI NAND/NOR drivers, FTL, system data | a block that goes bad during a write, interrupted table update, lazily created locks | a logical block is stored in one good block; the table survives a restart |
| VFS (`file_system/vfs`) | registered file systems, open file table | register, mount, open/read/write/close | littlefs, FatFs, FWFS drivers | concurrent open and close, table full | a handle names one open file |
| FWFS (`file_system/fwfs`) | partition tables, open file offsets | open, seek, read, write of images | flash, OTA | writes across block borders | reads return the image |
| RTSP/RTP (`network/rtsp`) | server context, client state, stream contexts, RTP buffer queues | service task, OPTIONS..TEARDOWN, stream task, `rtsp_open/start/stop/close` | lwIP sockets, MMF modules | client, stream and control tasks race; teardown while playing | no send on a closed socket; stop terminates; every buffer is returned |
| DHCP server (`network/dhcp/dhcps.c`) | address bitmap, lease table, one request state | DISCOVER, REQUEST, RELEASE, DECLINE, anything else | lwIP UDP callback, AP mode | two clients interleave, pool exhausted, duplicates | an address has one client, and where not; a client gets what it was offered |
| TFTP (`network/tftp`) | block counter, retry count | RRQ, WRQ, data, ack, timeouts | UDP | lost, repeated, late packets | blocks arrive in order, once |
| MQTT client (`network/mqtt/MQTTClient`) | connection status, packet ids, message handlers | connect, publish, subscribe, yield | sockets, mbedTLS | keep-alive timers, reconnect | an acknowledged publish was answered |
| WebSocket (`network/websocket`) | client buffer queue; server connection table | connect, send, receive, close | sockets | send queue full, close handshake | frames in order, table slots not leaked |
| SNTP (`network/sntp`) | last update, retry timer | request, receive | lwIP | timeouts | time only from an answer |
| Wi-Fi control (`wifi/api`) | join status, connect semaphore, event callback table | connect, disconnect, indications | binary driver, DHCP client | connection result and timeout race | connect returns what the last attempt did |
| Fast connect, simple config (`wifi/...`) | stored profile; decoder state | store, restore, decode | FTL/flash, Wi-Fi | stale profile | |
| OS services (`os/os_dep`) | timer list; heap free list; reserved regions | create/start/stop/expire timers; malloc/free | FreeRTOS | expiry against cancellation, list order | a timer fires once, no block is handed out twice |
| OTA/DFU (`soc/8735b/misc/platform`) | boot partitions, signature, versions | select, erase, write, sign | flash, HTTP/TFTP | power loss during update | one bootable image at any time |
| MMF, media (`media`) | module queues, parameters | control, handle, enqueue | binary MMF core, video driver | queue full | items returned once |
| Video API (`video/driver`) | encoder channel parameters | open/close/control | binary encoder | channel reopen | |
| Bluetooth HCI (`bluetooth/driver`) | H4 receive state | byte stream to packets | UART, Bluetooth stack | partial packets | one packet out per packet in |
| Console, USB, Ethernet, AT glue | | | | | not protocol logic |

`PROJECT.json` lists every component with its status, and the hazards with their lines.

## 2. Plan

1. **FTL core** (done): `FtlStore` (what callers are promised), `Ftl` (the log), `MCFtl`,
   `FtlProofs`, `FtlRingProofs`.
2. **FTL callers and table** (done): `FtlClients`, which composes `Ftl` with the tasks that call it,
   `MCFtlClients`, `FtlClientsProofs`; `FtlMapping`, the table of 12-bit entries byte by byte,
   `MCFtlMapping`, `FtlMappingProofs`.
3. **NAND bad blocks** (done): `Nand`, `MCNand`, `NandProofs`: the table, remapping, rewriting of blocks, with
   failing flash operations and power loss.
4. **Network servers** (done): `Tftp`, both ends over a lossy network; `Dhcps`, stations that share one server
   state; `Rtsp`, the four tasks around one RTSP context; each with its `MC` and `Proofs` module.
5. Left: `WifiConnect` (connect against indications and time-outs), `TimerService`, `TcmHeap`, `Ota`, `MmfQueue`,
   then VFS and HCI H4.

Theorems (done): type correctness of each module; that appends only write blank words, that the free count is exact and
saves have room; that a page is dead when erased; that reads agree with flash, that no flash operation changes what a
restart finds, and the refinement of `FtlStore`; that callers only ever run the log, what their saves and loads return;
that packed entries do not disturb each other; that no two NAND blocks are served by one and that data stay where they
were put; that blocks arrive in order; that an address has one user unless the server exposed it; that frames go to the right connection.
Every invariant and action property the passing runs check is proved, under the hypotheses its section names. What is left:
liveness, which is out of the prover's reach; the exact count and the room for saves when erased marks fail or a broken ring
boots again without the hypothesis that the current page is never collected, which the runs check; and the components of 5.

## 3. The FTL

### Code and model

`ftl.c` keeps a map from logical addresses to 32-bit words as a log in a ring of 4 KB flash pages.
A page is two header words and 1022 cells. `ftl_write` appends a data word and its key word to the
current page; `ftl_mapping_table` (RAM) holds the newest position of each address. When the page is
full its end position is written, the next page of the ring is erased, marked as erased and formatted
with the next 8-bit sequence number. When the last free page was taken, the oldest page is collected:
scanned backwards, pairs with a newer copy elsewhere are dropped, the others appended again, then it is
erased; if nothing was dropped the next oldest page follows. `ftl_init` searches the newest page by
sequence number, finds the free cell from the end, rebuilds the mapping table newest first, and if no
page is free copies what is alive in the oldest page into the current one and zeroes its header.

| model | code |
|---|---|
| `flash[p]` with `mark`, `seq`, `end`, `word` | `struct Page_T`: magic and sequence of `INFO_beg`, `INFO_end`, cells |
| `cur`, `free`, `map`, `freeCount` | `g_cur_pageID`, `g_free_cell_index`, `ftl_mapping_table`, `g_free_page_count` |
| `pc` | where the holder of `ftl_sem` is; each label is the point before one flash operation |
| `walk` | local variables of the loop over keys or pages, with `RecycleNum` (`dropped`), `retry_count`, the recovery's "clean all" flag (`later`) |
| `target` | the page `ftl_page_erase`/`ftl_page_format` works on, and who called it |
| `item`, `call` | arguments of the running `ftl_write` (the collector's, the caller's) |
| `damage` | history variable: whether a power loss fell inside a pair, a sector rewrite or a clear |

A logical address is numbered 0, 1, 2... instead of 0, 4, 8...; a word is a model value, a key, or
`Blank` (0xffffffff, which is also a legal data word); a key carries only its address, since its length is
always 1 and its valid bit is set before it is written. `map` holds what `write_mapping_table` keeps of an
address: the word address halved and, by `PageAssumption`, within 12 bits. The byte packing of the table
is in `FtlMapping`. Headers are one word: a page is valid when its magic is there and the valid bit is set.

Actions follow the functions: `PowerOn ScanPage ScanNone FindCell MapKey MapPrev RecoverNone Recover
RecoverKey RecoverDone Recount` (`ftl_init`), `Save WriteData WriteKey SetEndPosition OpenNextPage` (`ftl_write`), `PageErase PageMark FormatNext FormatFirst`, `Collect CollectPage CollectKey
CollectErase CollectRetry CollectDone`, `ClearAll ClearPage ClearReset EraseInvalid EraseInvalidPage
EraseInvalidDone` (`ftl_ioctl`). Every action but the requests has at most one flash operation, so that
`PowerLoss` can fall between any two. `PowerLossInSector` is a loss within `ftl_write_nor`, between
the erase of the sector and its rewrite; the code does this for every word on NOR, which is why
`RmwWrites` exists.

`FtlStore` is the promise to callers: `Begin` a save, `Take` effect, `End` it, or lose it to a crash;
a store that was interrupted inside a pair, a sector or a clear promises nothing more (`Break`).
`Ftl` implements it with the reference reading `Contents` of the flash as `store`, where `Contents`
is defined without the code: the run of valid pages with consecutive numbers that ends in the newest,
and in it the last pair of an address.

### Runs

| run | asks | instance |
|---|---|---|
| `ftl_core` | types; reads agree with flash; no save runs out of space; erased pages are dead; recovery never clears; the free count is exact; no flash operation changes what a restart finds, but the key of a save | 3 pages of 2 pairs, 3 addresses, 4 saves, both ioctls, sector rewrites, power loss anywhere |
| `ftl_pairs` | implements `FtlStore`, also when the saved word is 0xffffffff; the oldest page is not the current one; boot, collection and recovery come to rest once power stays | 4 pages of one pair, so that every save opens a page and collection retries over several pages; both ioctls |
| `ftl_broken` | no word is written over another, the count stays exact and no save runs out of space on a ring that boots again after torn writes and lost sectors | 3 pages of 2 pairs, 3 addresses, sector rewrites |
| `ftl_torn` | violated: a word saved after a torn write reads back | as `ftl_broken`, without sector rewrites |

Bounds: `NPages`, `PageElement` (words of a page), `SeqMod` (sequence numbers, 256 in the code) and the set of
saves are the only ones, besides `RestartBroken`, which says whether a broken ring is booted again. Three
pages is what `ftl_init` raises any smaller ring to, and two pairs in a page give an address space one pair
smaller than two pages, the code's own slack. `SeqMod` is small, so that the numbers wrap in every run, and no
multiple of the ring, so that the wrap falls on every page.
The state space is finite without a state constraint, so that TLC sees every reachable state; saves,
collections and power losses are unlimited in number. `ftl_core` fires collection by a save, recovery with
and without work, and the wrap.

Fairness (`ftl_pairs`, for `ComesToRest`): `WF_vars(Step)`, the steps of the thread that holds `ftl_sem`: a FreeRTOS task
that is ready runs on, and no step waits. Nothing obliges a caller to save, to collect or the power to fail
or return; `ComesToRest` only speaks of behaviours in which the power eventually stays on.
Deadlock is not checked: after damage with `RestartBroken = FALSE` the ring stays off by the bound.

### Callers

`FtlClients` adds the tasks. `ftl_save_to_storage` and `ftl_load_from_storage` move a block of words under
`ftl_mutex_lock`, which they wait for 100 ms; `ftl_write` and the collector hold the recursive mutex `ftl_sem`,
which they wait for without limit; `ftl_read` takes neither. Between the words of a block `ftl_sem` is free.

| model | code |
|---|---|
| `mutex`, `sem` | owners of `ftl_mutex_lock` and `ftl_sem` |
| `leaked` | a level of `ftl_sem` was taken and not given back; only its owner can still take it |
| `task[t]` | the call task `t` is in: which, at which point, word index, value, entry read (`pair`), words read (`got`), result |
| `GetMutex`, `MutexTimeout`, `PutMutex` | `rtw_mutex_get_timeout(.., 100)`, `ERROR_MUTEX_GET_TIMEOUT`, `rtw_mutex_put` |
| `WriteWord`, `StartCollect`, `Run` | `ftl_write`, `ftl_page_garbage_collect`: taken as `Save`, `Collect` and the steps of `Ftl`, in which the task is "busy" |
| `ReadEntry`, `ReadKey`, `ReadData` | `ftl_read`: the table, then two flash reads, other tasks in between |
| `OpenFails`, `CopyFails`, `EraseFails` | the erased mark of a page does not read back (`ftl_page_write`), where it is reached from `ftl_write`, from the collector's `ftl_write`, and from the collector itself |

A block is `Words` words from address 0. Calls start
once the drivers are up (`app_ftl_init` in `main.c`). Power stays on here:
losses are the subject of `Ftl` and the runs of `MCFtl`.

`FtlMapping` is the table itself: `write_mapping_table` stores an entry by three assignments to two bytes, one of
which belongs half to a neighbour, and `table` holds one byte more than was allocated when the number of
addresses is odd; its content is arbitrary. `entry` is a history variable: what was last written.

| run | asks | instance |
|---|---|---|
| `clients_safe` | types; a load that succeeds returns what is on flash, and the words of one save; a save that succeeds is on flash; the mutex is given back again and again | two savers, one loader, all three addresses of a ring of 3 pages of 2 pairs, two values, fair |
| `clients_failing` | exclusive blocks, exact count, room, and that each load returns, with failing marks and an idle collector | one saver, one loader, one collector, fair |
| `clients_stuck` | violated: the mutex is given back, with failing marks | two savers, one loader, fair |
| `mapping_even` | every entry reads back, also between the stores of another | 4 entries, values that tell every nibble apart |

Bounds: three tasks are a holder of the mutex, one that waits and one that passes both by; blocks of two or three
words, so that something falls between the words; one or two values, so that words of two saves can be told apart.
Calls, time-outs and failures are unlimited.

Fairness (`ClientFairSpec`): weak fairness of `Run \/ Failures` (the task inside `ftl_write` or the collector is
ready and runs on) and, for each task, of its own next step, where a task that waits for the mutex either gets it
or times out: FreeRTOS schedules ready tasks, and the time limit is in the call. No fairness among waiters is
assumed: `TryAgain` says that the mutex comes back, not that everybody gets it. Nobody has to call.

### Findings

- `ftl_torn`: after a power loss between data and key word, `ftl_init` resumes at an odd cell, but
  `write_mapping_table` stores half the cell index ("8 bytes aligned", `ftl.c:770`): the next saved word
  cannot be read until a restart scans past it. `ftl.c:961` asserts that a word just saved is read without error.
- `clients_stuck`: `ftl_write` returns at `ftl.c:1114` without giving `ftl_sem` back: the next saver waits for ever and
  keeps `ftl_mutex_lock`, so that "please try again" (`ftl.h:57`) never helps.

Observations, seen with the same models but not among the runs:

- With the default idle thresholds (`ftl.c:114-115`) a collection copies a page in which every pair is alive, drops
  nothing, retries (`ftl.c:530`), and `ftl_page_get_oldest` then returns the current page, against the assertion in
  `ftl.c:447` (whose macro is empty). Nothing in the repository asks for idle collection; the collection that
  `ftl_write` starts is not affected on a ring without torn writes (`ftl_core`, `ftl_pairs`). Torn writes leave pages
  with fewer usable cells, and then it can reach the current page too.
- `ftl_read` takes no `ftl_sem`. A collection that another task asks for with `FTL_IOCTL_DO_GC_IN_APP` can erase the
  page between the two flash reads; the load returns 0, "success" (`ftl.c:1002`), with 0xffffffff. Without such
  collections (`clients_safe`) the mutex protects loads from the saves of other tasks and the collections these start.
- `MAPPING_TABLE_SIZE` rounds down for an odd number of addresses, which the default ring of three pages has (1021): the
  last entry has its upper byte behind the zeroed allocation ("table is initialised as 0", `ftl.c:1411`).

### Theorems

For every ring and page size that satisfies the named assumptions (`RingAssumption`, `PageAssumption`,
`WordAssumption`, `CallAssumption`: what `ftl_init` and the widths of the code's fields impose):

- `TypeCorrect` (`FtlProofs`): `Spec => []TypeOK`. `TypeOK` alone is not inductive: the loops index flash with
  `walk.page`, which may run past the ring while scanning, and append what `item` holds. `Control` says
  which loop runs at each label and which targets are pending there; `TypeInv == TypeOK /\ Control` is
  inductive. One lemma shows each half, one step per action.
- `AppendsOnlyToBlank` (`FtlProofs`): `Spec /\ []OldestIsNotCurrent => []AppendsToBlank`, for any mix of
  saves, collections, ioctls, torn writes and lost sectors. The inductive invariant `LogInv` says: a page
  marked as erased is blank (it is not erased again when opened); the page about to be formatted is blank;
  the search at boot ends on a valid page; and while the device runs, the current page is valid, blank from the free cell on, and
  never the page being erased, recycled or collected. The ring lemmas `PrefixCard` and `Oldest` show that the
  free pages are a gap-free run after the current page and that the page behind them is valid. The hypothesis is
  the code's own assertion, which can fail with idle collection or after torn writes (above): erasing the
  current page would leave an erased mark on a page that is then written.
- `CountIsExact`, `SavesHaveRoom` (`FtlRingProofs`): under the same hypothesis `FreeCountIsExact` and `NeverOutOfSpace`.
  `CountInv` ties the byte `freeCount` to the flash (`NFree`, the pages that are not valid behind the current one) wherever the
  code relies on it. `RoomInv`: outside of a collection a page is free; a collection without a free page
  still has as many pairs of room in the current page as it has keys left to look at (`Left`).
- `CollectedIsNotCurrent`: `GcBelow => (Spec => [](Intact => OldestIsNotCurrent))` discharges the hypothesis where no power
  loss has broken the ring. `WordsInv` says that every page holds whole pairs, `RunInv` that the valid pages are one run of
  consecutive numbers that ends in the current page, also with 8-bit numbers that wrap. `OldInv`: the collector goes on to the
  next page only when it dropped nothing, so every pair of the page before was copied, and those copies take up pages of
  their own, which keeps the collector behind the current page. `IntactRingIsSafe` puts these together: with
  `~RestartBroken` no hypothesis on the behaviour is left.
- `ErasedPagesAreDead`: `MapInv` says that each entry names its pair on flash, and that the entries into the page being
  collected or recovered are those of pairs still ahead of the loop or on their way (`ToCopy`): none when it is erased.
- `RecoveryHasRoom` (`RecoveryNeverClears`): `NewInv` says that every pair in the ring is mapped or has a newer one that is,
  `CopyInv` that what is copied is the mapped pair, `StayInv` that a ring without a free page was left by a collection
  cut short, so that the current page holds only copies of different pairs of the oldest: by counting, the
  rest fits. `KeepInv` is the conjunction of all of these.
- `ReadsAgree`, `FlashStepsPreserve`, `SavedWordsReadBack`, `RingImplementsStore`: by `LogIsRead`, `KeepInv` makes `ftl_read` return what
  `Contents` finds on flash, for every address. What each flash operation does to `Contents` follows from it, and from
  that the refinement of `FtlStore`: `StoreStep` names the steps of the store under the mapping, `RingStores` shows that each
  step of the ring is one of them or a stutter, and `SaverInv` keeps the caller's pair with the save it belongs to.

  `GcBelow` asks that a page threshold of the collector leaves three pages in use. Saves need nothing of it (`GcCalls = {}` in
  `ftl_core` and `ftl_pairs` satisfies it) and the default idle threshold of one free page (`ftl.c:114`) does on rings of four pages and more.
  It is necessary: on three pages the default threshold reaches the current page (above), as do torn writes,
  whence `Intact`.

- `CallsAreExclusive` (`FtlClientsProofs`): `ClientSpec => []ExclusiveCalls`, for any tasks and whatever fails. The
  inductive invariant `CallInv` adds the shape of a call: its fields, the points each kind of call passes, and
  that its word is one of the block, so that a step of one task never takes another for its own.
- `ClientsRunFtl`: `~MarksFail /\ ClientSpec => Spec`. Every step of the tasks is a step of `Ftl` or leaves it alone, so
  that `TypeCorrect`, `AppendsOnlyToBlank` and the runs of `MCFtl` speak of the system with callers as well;
  `ClientsAppendToBlank` is the instance that matters most.
- `SavesAreOnFlash`, `LoadsReturnBlock`, `LoadsAreOneSave`, `ClientsTypeCorrect` (`FtlClientsProofs`), for any tasks and block, under `~MarksFail` and
  `GcBelow`. Through `ClientsRunFtl` the invariants of the ring hold beneath the tasks; `QuietInv` and `FreshInv` say that the ring boots once and
  that nothing is torn while power stays on. `SavesInv`: whoever is inside a save has written the words up
  to its own, and whenever nobody is, the block is whole: nothing was ever saved, or it holds the words of one save (`Whole`). A step of the ring
  for another task leaves all of it alone, because a collection changes no word (`RunKeeps`, from the refinement's lemmas).
  `LoadsInv` says the same of loads: while a load is in the block nobody saves, and with no task that
  collects (`Collectors = {}`) the ring is at rest (`LoadAlone`), so that the entry read first is still right when the cells are read.
  The hypothesis is needed: with a collector beside it a load returns 0xffffffff (above).
- `EntriesKept` (`FtlMappingProofs`): `Entries % 2 = 0 /\ Spec => []EntriesAreKept`. Two addresses share three bytes
  (`Place`, `Apart`); each store changes one byte, and of a shared one only the half that is its own
  (`StoreKeepsOthers`); `Halfway` says how much of the entry is there after one and two stores, and with `TypeOK` and
  `OthersKept` makes the inductive invariant. The hypothesis is needed: see the last observation.

Only model-checked: `ComesToRest`, `TryAgain`, `LoadsReturn`, which are liveness and out of the prover's reach;
`FreeCountIsExact` and `NeverOutOfSpace` with marks that fail (`clients_failing`), where `CallsAreExclusive` is all that is
proved, and on a ring that torn writes broke (`ftl_broken`), where they are proved only from `OldestIsNotCurrent`.

### Not modelled of the FTL

Data, key and header words that do not read back (`ftl_write` ignores their result); what is lost when the collector's copy fails
(`CopyFails` follows the code, `ftl.c:509`, but `ErasedPageIsDead` is only checked where flash does not fail); the reconfirmation of saves, which is compiled out; `FTL_IOCTL_CLEAR_ALL` and
`FTL_IOCTL_ERASE_INVALID_PAGE` while another task saves (they take no lock; nothing calls them); a second `ftl_init`; rings whose word addresses exceed the table's 12 bits
(`PageAssumption`); a ring without a valid page at a collection, in which `ftl_page_get_oldest` would compute a
page outside of it (only reachable after the current page was collected); `FTL_ONLY_GC_IN_IDLE`
and `FEATURE_WRITE_RECYCLE`, which are compiled out. `FTL_WRITE_ERROR_OUT_OF_SPACE` has no action: `NeverOutOfSpace`
shows that its condition does not arise, also on a ring that torn writes have narrowed.

## 4. NAND bad blocks

### Code and model

`ftl_nand_api.c` gives its callers `NUser` blocks. A block that fails is entered in a bad block table and, when it is
next used, gets a block of the reserve; copies of the table are in the last blocks of the flash, found at boot as the
first one whose spare tag does not say bad. A page that is not blank is changed by reading its block into `block_buf`,
erasing it and programming every page. Calls do not overlap: `ftl_common_api.c` takes `ftl_lock` around them.

| model | code |
|---|---|
| `flash`, `tagged` | pages, and the spare byte of page 0 of every block; `Garbage` is a page whose program or erase failed or was cut short |
| `table`, `copy[b]` | `pbbt` in memory and in table block `b`, as a function: `Good`, `NoRemap` (0xffff), or the reserve block |
| `buf` | `block_buf`, shared by the caller's write and the table's |
| `run` | where the call is (each label but the lookups is the point before one flash operation), with the locals: block, retry count, table block and copies written |
| `kept` | history: where the data of a user block were put and which pages a caller may rely on |
| `FindGood FindRemap FindFirst FindAnother FindNone` | `bbm_find_remap_block` |
| `Look Direct Erase Program Programmed`, `EraseCall` | `bbm_nand_write`, `bbm_nand_write_block`; the loop of `ftl_erase_nand` |
| `Mark Tag`, `Tables` | `bbm_mark_bad_block`; `bbm_update_table` |
| `BootLoad BootCreate` | `bbm_check_is_init`; `bbm_create_nand` |

The same labels serve the caller's page and the table's page 0 (`run.tables`), as the functions do.

### Run

`nand_bad`: two user blocks, one tagged bad from the factory, two reserve blocks, three table blocks, two pages each;
the bad block is read and erased (a lookup remaps for either), both pages of the good one are written. At most two flash operations fail and the
power is lost at most once, anywhere: two failures exhaust the reserve, hit a block and its remap block, both
copies of the table, or a block and the table that should record it. `MaxRetry` is 2: one round that gives up and
one that does not.

Fairness: weak fairness of `Work`, the task in the call: no step waits, and the flash driver returns. A power loss ends a
call; `CallsReturn` counts being off as its end.

### Theorems

`TypeCorrect`, `NeverShared` (`Spec => []DistinctTargets`) and `DataStay` (`Spec => []DataStays`), for all sizes, requests, and any number of
faults and power losses.

- `NeverShared`: the invariant adds that a copy is only written while one is due (`Counting`, which bounds the table
  block index), and that the table in memory and every copy name no reserve block twice (`Injective`):
  `bbm_find_free_block` searches the entries, and a copy is the table at one moment. `Disjoint` follows, because
  user and reserve blocks are apart.
- `DataStay`: `kept` is what a caller may rely on (`Kept`): after a call that succeeded without a failing operation, the page
  written and what was promised before; after a restart only what the loaded table serves from the same good block (`Serves`).
  `DataInv` says that such data are in the block that serves theirs, that this block is good (`Settled`), and that they
  are on flash unless their own block is being changed (`Stored`). `Apart` is the point: no flash operation works on a
  block with another one's data, since the block a call works on serves the call's or is block 0 for want of one
  (`Working`), and tables go to table blocks. For the block being changed, as long as nothing fails, `Progress` follows
  its pages from flash to `block_buf` and back, and `Hopeless` shows that only a call without a reserve block retries.
- `AcceptedIsCurrent` (`Spec => []AcceptedTableIsCurrent`): a copy is current if it serves the user blocks as memory does, but for
  those that failed since (`Current`); blocks that go bad and remap blocks that are replaced in memory leave it so. `SavingInv`: while
  `bbm_update_table` runs, every good table block it has passed holds a current copy and `copies` counts exactly these;
  so when it ends, after two copies or the last block, the first untagged block is among them unless two good ones lie before it
  (`TakenAsGood`: blocks that a power loss left tagged before the table saying so was saved, which get the copies although a boot
  passes them over). Outside of it no flash operation works on a table block (`OffTables`), and a boot loads just the
  copy in question (`BootLoadCopy`).

`CallsReturn` is liveness, and only model-checked.

### Observations

- `block_buf` is the only buffer. When a direct write fails it holds the block to "recover" (`ftl_nand_api.c:187`), but
  the lookup of the retry (`:420`) saves the table, and a table page that is not blank is rewritten through `block_buf` as
  well; the retry then programs the table's block into the remap block and the write returns success. One failing
  program is enough: TLC finds it for "the page of a write that succeeded holds what was written". `DataStays` therefore
  promises nothing of a block after a call in which a flash operation failed.
- When the reserve is used up, `remap_block` stays 0 and the call goes to block 0 (`FindNone`).
- A remap block that goes bad is replaced in memory only (`FindAnother`): a restart finds the old one. Likewise a block
  marked bad is in the table on flash only once it got its first remap block.
- Both copies are rewritten in place. If the power goes while copy 0 is erased, a page that reads neither as a
  table nor as an error makes boot create a new table, and the remappings are forgotten.

## 5. TFTP

### Code and model

`tftp_client_start` gets or puts one file; `tftp_server_start` serves. Each end counts blocks, waits with `select`,
answers a wrong or missing datagram up to `tftp_retry_num` times with what it sent before, and the client starts the
transfer anew (`RETRY`) as often again.

| model | code |
|---|---|
| `toServer`, `toClient` | every datagram ever sent. One in the set may be received now, later, again or never: loss, delay, reordering, duplication |
| `client`: `at`, `count`, `j`, `tries`; `server`: `at`, `count`, `i`, `full` | the functions' places and counters; `full`: whether `len` of the block last sent is `BLOCK_SIZE` |
| `got`, `put` | blocks given to the `recv_handle` of client and server |
| `Request`; `SendNext SendEmpty SendTimeout`; `GetBlock GetOther GetTimeout` | `tftp_client_start`; `tftp_client_send`; `tftp_client_get` |
| `StartSession Stop`; `RecvBlock RecvOther RecvTimeout`; `SendBlock SendAgain ServeTimeout` | `tftp_server_start`; `tftp_server_recv`; `tftp_server_send` |

A block's content is its number; the last one is shorter than `BLOCK_SIZE`, an `Empty` one has no data.

### Run

`tftp_lossy`: four blocks, three rounds and three tries. Four blocks have a first, a last and two in between, so that an
old datagram can be one or two numbers off; three of each retry is a first, a middle and a last one. Datagrams are not bounded.
Deadlock is not checked: the client ends, and the server may (`Stop`).

Fairness: weak fairness of the client and of a session of the server: `select` returns at the latest with its time-out, and the
task runs on. Nothing is assumed of the network. `TransfersEnd` does not say that a transfer succeeds.

### Theorems

For every file of up to 65533 blocks and every retry count, over the same network: `TypeCorrect`, `HandedOverInOrder` (`BlocksInOrder`),
`GetsWholeFile` (`GetIsWhole`). `TftpInv` says that a DATA datagram with number `b` on the way to the client holds what
`send_handle` gives for `b`, on the way to the server that or nothing (`MessagesOK`), and ties `count` to what was handed over
(`ClientOK`, `ServerOK`): then an old datagram is either refused or as good as a new one. `TransfersEnd` is
liveness, and model-checked.

### Observations

- A put repeats a block as an empty one, since the call of `send_handle` is commented out (`tftp_client.c:146`); the server
  takes an empty block for the last and ends with a file cut short: `BlocksInOrder` says exactly that much.
- A put returns success without the last acknowledgement.
- The server ends on any datagram that is not a request while it waits for one (`Stop`).
- `RETRY` hands the first blocks over again; a `recv_handle` that appends must notice.
- Block numbers have 16 bits: the assumption of at most 65533 blocks is the code's.

## 6. DHCP server

### Code and model

`dhcps.c` serves the stations of the soft AP from a callback of lwIP, one datagram at a time, but with one state machine,
one `dhcps_allocated_client_address` and one `client_request_ip` for all of them.

| model | code |
|---|---|
| `state`, `allocated`, `requested` | the three globals above; ACK and NAK are sent within the step |
| `marked`, `table` | bits of `ip_range`; `client_mac` and `ip_addr4` of the `AP_STA_NUM` entries |
| `associated` | the stations the Wi-Fi driver lists |
| `offered`, `held` | what a station was offered and what it uses: the station's side; any answer may be lost |
| `exposed` | history: addresses in use that the server has lost hold of, until nobody uses them: offered to the station that uses them (`SendOffer`), or granted when the table had no entry left (`Ack`) |
| `Discover Select Reboot Renew GiveUp` | a DISCOVER; a REQUEST after an offer, for an earlier address, for renewal; RELEASE or DECLINE: `dhcps_handle_msg_options`, `dhcps_handle_state_machine_change` and the answer |
| `OtherMessage` | INFORM, a type only servers send, no option 53: the switch has no default case, the state stays, and in OFFER the handler sends the station an offer (`SendOffer`, as for a DISCOVER) |
| `NextFree`, `Kept`, `MayHave`, `MarkAndSave` | `search_next_ip`, `check_client_request_ip`, `check_client_direct_request_ip`, `mark_ip_in_table` with `save_client_addr` |
| `Restart` | `dhcps_init`: the table is new but for the bits of the server's own address and the gateway's (`Own`), the three globals are not |

### Run

`dhcps_shared`: three stations `a`, `b`, `c`, an AP for two of them (so that one leaves for another to join, and entries
are evicted), a pool of three addresses 4 to 6 in words of three bits, so that 6 is at the end of a word, where
the code shifts by -1, and 4 the server's own. The stations are symmetric. A station may send any message at any time; messages,
losses, joins and restarts are not bounded. There is no liveness: nothing obliges a client to ask.

### Theorems

For every pool, table size and set of stations: `TypeCorrect`, `TableAlwaysAgrees` (`TableAgrees`), `UsedIsRecorded` (`HeldIsRecorded`) and
`NeverTwice` (`HeldOnce`). `DhcpsInv` adds to `TypeOK` and `TableAgrees` that a station that uses an address is
associated, has an entry for it and that the address is not the one on offer (`HeldOK`), for every address that is not exposed:
an address on offer is unmarked or recorded for the station that asks, an ACK is for one of these, and only entries of
stations that left are evicted. An exposed address harms no other one, which is why the exception is made for each address by itself.

### Observations

- While an offer is out to anybody, an INFORM or a message without option 53 (or a DISCOVER of a station that
  keeps its address for the time being) puts the sender's own address on offer (`dhcps.c:943-948`, `570-595`). The next station
  that asks for it gets it, although it is in use and recorded: `dhcps.c:795-801` compares with the address on offer only. The
  entry is overwritten and the address has two users, which is the first way to be `exposed`.
- When the table is full of associated stations, an ACK marks the address and is sent, but not recorded; the address is then
  nobody's for `check_client_direct_request_ip` and can be granted twice (the second way).
- `check_client_direct_request_ip` looks at the table and not at the bits: the server's own address is granted to a
  station that asks for it, if it lies in the pool (with the addresses of `main.h` and the pool 100 to 200 it does not).
- `client_request_ip` stays after any message but an ACK: a renewal, which has no option 50, is then taken for a request of
  that address, and is refused or answered with another one.
- For addresses that are multiples of 32 the shift is by -1: their bit is set but neither found nor cleared again.
- RELEASE and DECLINE free nothing. With every address marked, x.x.x.0 is offered.
- Two stations that discover after each other are offered the same address; the first REQUEST gets it.

Not modelled: a station that speaks BOOTP only and takes an offer for an answer; `check_client_direct_request_ip` compares
with the compile-time pool, taken here to be the configured one; the semaphores of `dhcps_init` and `dhcps_deinit`; option parsing; the DNS option.

## 7. RTSP server

### Code and model

`rtsp_api.c` as `module_rtsp2.c` uses it: four tasks on one `rtsp_context` without a lock. The service task
(`rtsp_service_init`, `rtsp_start_service`) accepts a client and answers its requests; the RTP task (`rtp_service_init`,
`rtp_service_unicast`) is woken by PLAY and sends what is queued; the MMF task brings frames in `rtsp2_handle` and waits
until they come back; the application starts, stops and closes.

| model | code |
|---|---|
| `app`, `server` | the caller of `rtsp_start`, `rtsp_stop`, `rtsp_close`; `rtsp_server_state`, `allow_stream`, `start_rtsp_sema` |
| `service`, `conn` | the service task's place; `client_socket` and whether it is open, the client's state, `setup_done`, `nb_streams_setup`, `castMode` of transport 0 |
| `rtp` | the RTP task's place, `rtp_socket`, its loop index, `is_rtp_start`, `start_rtp_sema` |
| `queues`, `handle` | input and output queues, `RTP_OBJECT_READY`, the two semaphores; `rtsp2_handle`'s place |
| `TakeStart` to `CloseClient`, `Setup Play Pause InvalidRequest Leave` | the service task, and its requests by what they change |
| `Wake` to `EndDelay` | the RTP task |
| `Start Stop Close Closed`, `Call GetPayload Fill Return` | `rtsp2_control`; `rtsp2_handle` of `RTSP2_NON_BLOCK_TYPE` |

Each stream has one payload. A request that changes no state has no action; a request loop reads `allow_stream` before it
polls, so that `Requests` are possible after `Stop`.

### Run

`rtsp_clients`: two streams, two connections after each other, two PLAYs, two starts. Two streams compete for the one
output semaphore; two connections are one that leaves while the RTP task is at work and one that follows; PLAY after PAUSE, and PLAY of the
next client, both fit. `MaxInput = 1`: a token of `rtp_input_sema` makes one pass over all streams, so that more tokens
only make passes that find nothing. Three PLAYs pass as well (1.9 million states), outside the time of the runs. Deadlock is not checked: a closed service stops.

Fairness: weak fairness of each task's own steps; sockets are polled with time-outs. Not of `Requests`, `Surroundings`, `Call`, `Start`,
`Stop`, `Close`: no client, network or application has to do anything.

Assumptions, all named at their definitions: `rtsp_start` comes when no task is at work for an earlier one (`AtRest`;
`rtsp_stop` returns before its service has stopped, and a quick OFF and ON would put a payload in two queues); the RTP
task runs within the 2 s the service task waits (`RtpHasRun`); `rtp_object_handler` returns. `RtpHasRun` also cuts off a case
that the 2 s do not rule out: the RTP task resets `is_rtp_start` just when the service task polls it (`rtsp_api.c:1852-1854`), and
has a wake-up left over. The socket is then closed before that wake-up is taken. It does no harm unless the RTP task stands still,
with the old socket, until the next client has connected and plays: then `SendsToItsClient` fails.

### Theorems

For any number of streams, connections, PLAYs and starts: `TypeCorrect` and `FramesGoToTheClient` (`SendsToItsClient`). `RtpInv` says that whatever
can make the RTP task use a socket, running, woken or about to be woken, keeps the service task at its
client: the loop on `is_rtp_start` is what the proof needs, and the delay before its first test, since a task just woken
has not set it yet. `HandleReturns` and `CloseReturns` are liveness, and model-checked.

### Observations

- `castMode` of transport 0 decides for all streams: a client that only sets up the second stream gets the mode an earlier
  client asked for.
- `rtsp_close` frees the context when the service task has ended, whether or not the RTP task has.
- `rtsp_close` after a failed `rtsp_open` waits for a task that was never created.
- `rtsp_start_service` returns without freeing its buffers when the service is disabled while it waits for Wi-Fi.

Not modelled: multicast ("to do"), proxy, RTCP, requests that arrive in parts, `RTSP2_BLOCK_TYPE`, failures in
`rtsp_open` and of the UDP socket's bind. `nb_streams_setup` saturates at the number of streams, which is all that its test tells apart.

## 8. Not modelled

- Wi-Fi control, timers, TCM heap, OTA, VFS, the MMF queues, HCI: own logic, next in the plan.
- The encoder, MMF core and Wi-Fi driver are binaries; USB, Ethernet, AT commands, console and video driver API are glue
  to them or to vendored code.
- Vendored, generated and example code, and data files, which are nearly all of the repository's four million lines.

Liveness is checked by TLC only (`ComesToRest`, `TryAgain`, `LoadsReturn`, `CallsReturn`, `TransfersEnd`, `HandleReturns`,
`CloseReturns`).
