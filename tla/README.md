# OneBase: a TLA+ verification project

OneBase is a small relational database in C++: a disk file, a buffer pool with an
LRU-K replacer, table heaps and B+ tree indexes on top of it, a binder, an
optimizer and Volcano executors, a lock manager and transactions, and a TCP
server. This directory holds TLA+ modules translated from that code, TLC
configurations that check them on small instances, and TLAPS proofs.

Paths below are relative to the root of the repository (`src/buffer/...`); a
module's `map` entry in `PROJECT.json` names the lines each definition stands for.

## 1. Inventory

| Part | State | Operations | Used by / uses |
|---|---|---|---|
| Disk manager (`storage/disk/disk_manager.cpp`) | one `fstream` with its failbit, the file, `num_pages_`, `next_page_id_` | ReadPage, WritePage, AllocatePage, DeallocatePage, constructor | called by the buffer pool under its latch |
| LRU-K replacer (`buffer/lru_k_replacer.cpp`) | `entries_` (history, evictable mark), `curr_size_`, `current_timestamp_` | RecordAccess, SetEvictable, Evict, Remove | called by the buffer pool |
| Buffer pool manager (`buffer/buffer_pool_manager.cpp`) | `pages_`, `page_table_`, `free_list_` | NewPage, FetchPage, UnpinPage, FlushPage, FlushAllPages, DeletePage | shared by all threads, one latch |
| Page guards, page latch (`buffer/page_guard.cpp`, `common/rwlatch.h`) | pin, dirty mark and latch of one page | construction, move, Drop | table heap, tree |
| Table page, table heap (`storage/page/table_page.cpp`, `storage/table/table_heap.cpp`) | slot array and free pointer; a linked list of pages | insert, update, mark deleted, iterate | executors |
| B+ tree (`storage/index/`, `storage/page/b_plus_tree_*.cpp`) | tree of pages, root id | Insert with splits, Remove with borrowing and merging, GetValue, iterators | uses the buffer pool; nothing else in `src/` constructs a tree, the catalog's indexes are maps |
| Catalog (`catalog/catalog.cpp`) | tables, indexes, an in-memory index map | create, look up, build an index | binder, executors |
| Binder, optimizer | one statement at a time | bind, rewrite | server, shell |
| Executors (`execution/executors/`) | one cursor per operator | Init, Next | table heap, index map |
| Lock manager (`concurrency/lock_manager.cpp`) | a request queue, `upgrading_` flag and condition variable per RID; the lock sets inside each transaction | LockShared, LockExclusive, LockUpgrade, Unlock | transactions, one thread each |
| Transaction manager (`concurrency/transaction_manager.cpp`) | transaction states | Begin, Commit, Abort | calls Unlock |
| Server, client, shell | sockets, one thread per client | accept, execute, shut down | share one instance without a lock of their own |
| libpg_query (vendored) | - | parse | binder |

**How they interact.** Buffer pool operations are critical sections: each call
holds `latch_` from start to end and calls the replacer and the disk manager
inside it. What interleaves is the sequence of calls of different pin holders.
Lock manager operations hold `latch_` except inside `cv_.wait`, so each wait
splits a call into steps, between which other transactions run and may abort the
waiting one. Lock sets live in the transaction, request queues in the lock
manager; both describe the same locks. A page guard is a pin and a latch, taken and
given up in two steps between which other threads run. A statement is bound, planned and executed
on the thread of its client; a write executor pulls rows from a scan of a table and changes
that table between two pulls. The server's threads share the instance and the signal handler's flag.
The lock manager, the guards and the B+ tree are finished parts that no executor uses yet: the table
heap fetches and unpins pages itself, and indexes are maps inside the catalog.

**What is hard.** Pins that overlap on one page, with dirty and clean unpins in
any order; evictions that write back and unmap a page before its frame is reused;
a stream whose failbit stays set after a short read; a restart at any moment;
waits that end because of another transaction's release, its abort, or nothing
at all; an upgrade that gives its grant back while it waits; loops over a set that
their own body erases from; moves of guards; iterators over pages that change between two calls;
free space counted in unsigned numbers; indexes that nobody maintains; a statement that throws half
way; a shutdown that meets clients in every state. `PROJECT.json` lists these as hazards with the line where
each one bites.

**What makes each part correct.**

- Replacer: its counter is exact, its victim is the LRU-K victim whatever the
  order in which the hash map is iterated.
- Buffer pool: frames are neither lost nor handed out twice, pinned pages stay,
  dirty pages leave only through the file, and the whole behaves like a store
  without a cache, also across a restart.
- Lock manager: incompatible locks are never granted together, a lock in the set of a
  transaction is granted, nobody acquires after releasing, no wake-up is lost.
- B+ tree: search and scans return what was inserted and not removed since, whatever splits,
  borrows and merges happened; links and sizes are exact; every call ends.
- Transactions: the end releases everything, the outcome is final, everybody ends.
- Page guards: latches and pins are exactly those of the open guards; a page stays under its
  guard; readers see no change; a waiting thread gets its latch.
- Table page and heap: rows read back as written, data and slots do not overlap; every page is
  linked; a scan returns every row once, while the session changes the table.
- Catalog, optimizer, executors: the two index maps agree; a statement does what its SQL says
  to the table as it was at its start; a plan returns the same with and without an index, with a hash
  join or nested loops.
- Server: every request has one reply or a lost connection, no query runs on a destroyed
  instance, shutdown ends.

## 2. Modules

| Module | Models |
|---|---|
| `LRUKReplacer` | the replacer as a value with operations on it, and as a machine of its own |
| `LRUKScan` | the loop of `Evict` over the map in every order |
| `DiskManager` | file, stream and page ids as a value with operations on it |
| `BufferPoolManager` | the pool over both, with pin holders as clients, and restart |
| `PageStore` | abstract: a store of pages without a cache |
| `BufferPoolRefinement` | the mapping from the pool to `PageStore` |
| `LockManager` | the lock manager and the threads of the transactions |
| `TransactionManager` | Begin, Commit, Abort over `LockManager` |
| `BPlusTree` | the index: pages, Insert, Remove, GetValue, iteration |
| `PageGuard` | guards, page latches and the threads that own them, over `BufferPoolManager` |
| `TablePage` | a slotted page as a value with operations on it |
| `TableHeap` | the list of table pages under a session that scans and writes |
| `Expressions` | values, tuples, bound expressions and predicates |
| `QueryOperators` | joins, aggregation, sort, limit, projection, and the join rule of the optimizer, with reference definitions |
| `Database` | catalog, planning, scans and write executors: the statements of a session |
| `Server` | server, worker threads, clients and messages |
| `LockManagerProofs` | TLAPS proofs about `LockManager`, for all clients; the one about wake-ups for clients that upgrade through `LockUpgrade` |
| `TransactionProofs` | TLAPS proofs about `TransactionManager`, on top of those about the lock manager |
| `ReplacerProofs`, `BufferPoolProofs` | TLAPS proofs about the replacer and its scan, the pool over it, and the pool's refinement of `PageStore` |
| `PageGuardProofs`, `ServerProofs` | TLAPS proofs about guards and latches, and about the server |
| `TableHeapProofs` | TLAPS proofs about `TableHeap` and its pages |
| `DatabaseProofs` | TLAPS proofs about the catalog and the write statements of `Database` |
| `MCBufferPool`, `MCLockManager`, `MCTransactionManager`, `MCPageGuard`, `MCTableHeap`, `MCDatabase` | instances for TLC: symmetry sets, guards, tables and statements |

Definitions introduced by a comment that begins "Mistake:" are wrong variants of the
definition after them, the bugs that a property should notice; no specification
uses them. `PROJECT.json` pairs each property with one of them.

### Replacer
`lru` is the record of `entries_`, `curr_size_` and `current_timestamp_`. An entry
exists exactly while its history is not empty. The operations are functions from
record to record because the pool calls several of them inside one of its steps.
`Victims` is the declarative LRU-K choice; `LRUKScan!Scan` is the loop with its two
running minima, over an arbitrary order of the map's entries (`Orders`).

### Disk manager
`disk.len` is the number of pages in the file, `disk.fail` the failbit. A read
beyond the end sets it and yields zeros; nothing clears it; a write in that state
does nothing to the file but still advances `num_pages`. A write beyond the end
makes the skipped pages zero pages. Opening takes both counters from the length of
the file. A page's content is one value: writes of a page are not torn.

### Buffer pool
`pages_`, `page_table_` and `free_list_` are the C++ members. One action per
operation, with all its replacer and disk calls. The clients are modelled by `held` (who
pins what, and whether it must be unpinned dirty) and `live` (pages that may still
be referred to). This states the discipline of the code that uses the pool: a page is
written only while it is pinned, a holder that wrote unpins dirty, deleted pages
are not fetched. `MarkNewDirty` says whether a new page is unpinned dirty even if nobody
wrote to it: the table heap and the tree do so, some tests (`test/buffer/lab1_test_common.h`) do not. With FALSE a
new page that is unpinned clean, evicted and fetched again is read beyond the end of the file: the failbit stays
set, later write-backs are dropped, and `CleanIsDurable` and `ImplementsPageStore` fail. `DeleteResident` has the
code's order: the mapping is erased before `replacer_->Remove`, which returns silently for a frame it does not track and throws for a tracked
frame that is not evictable; `PinsRespected` shows that neither happens. Calls that return false or
nullptr are stuttering steps (`PoolExhausted`, `DeletePinned`). `Restart` ends the
process without a flush, since no destructor flushes, and opens the file again.

### Lock manager
`requests[r][t]` holds the requests of transaction `t` in the queue of `r`, in
order. Requests of different transactions are never compared by position in the
code, so the queue is kept per transaction. A lock call is one step up to its return or its
first wait; `waiting[t]` records the wait; `asleep` is the set of threads that found
their predicate false and were not notified since. `WakeBlocked`, `WakeGranted` and
`WakeAborted` are the three outcomes of a wake-up. `SpuriousWakeup` is what a
condition variable may do at any time. `ExternalAbort` is `SetState(ABORTED)` from
another thread, which notifies nobody. `DirectExclusive` says whether clients call
`LockExclusive` on a RID they hold shared instead of `LockUpgrade`; the code accepts it.

What holds for all clients is `HeldLocksGranted`: between two calls, a lock in the sets of a transaction is granted in
the queue, and a growing transaction has no other request. Two stronger statements of `docs/lab4_concurrency_control_en.md` fail, each with
a run of its own:

- `SetsExclude`: `LockUpgrade` takes the grant back before it waits and leaves the RID in the shared set; another transaction may be
  granted the exclusive lock before the upgrader wakes up (run `upgrade_gives_up_lock`). `GrantedCompatible` speaks of granted
  requests only and holds.
- `NoRequestLeft`: a direct `LockExclusive` queues a second request, of which `Unlock` removes only the first; the exclusive grant is
  then in no lock set and stays for ever (run `unlock_leaves_request`).

With `DirectExclusive` TRUE `NoLostWakeup` fails, too: `LockUpgrade` takes a grant back without a notification, and a client that waits
for its direct exclusive lock, blocked by this grant only, sleeps on. The passing run and the theorems about wake-ups are therefore for
clients that call `LockUpgrade`.

### Transactions
Commit and Abort set the state and then walk both lock sets with range-for loops whose body
(`Unlock`) erases the element the iterator stands on. Incrementing it is undefined
behaviour. `LoopOutcomes` names what a build can do: find the link of the freed node
intact (`next`), find null and leave the loop (`stop`), or follow a wild pointer
(`crash`). Transactions make no lock calls after Commit or Abort, and both are called by the
transaction's own thread.

### B+ tree
`nodes` maps page ids to node pages, `root` is `root_page_id_`. The tree has no latch and one caller;
what makes it hard is the length of the sequences that lead to a wrong page, not concurrency. A
call is one step for its descent and the change of the leaf, and one step (`Continue`) for each
turn of the loops of Insert and Remove, whose local variables are in `op`. A leaf is its keys,
since key and RID move together; an internal page of size n has n kids and n - 1 keys, because
the code never reads `KeyAt(0)`. `KeyIndex` is the code's binary search. Merging both ways (the
right page into the first, or the page into its left sibling) is one action, since the code treats the
two pages alike. `stored` records what the caller inserted and removed. `misrouted` records that
`BorrowInternalRight` has run: it sets a wrong separator (run `bplus_tree_loses_keys`), and
from then on no call is explored (`Ready`), so the other properties speak of all trees
that have not met this step, and of the state right after it. Page ids are reused, as ids are only
compared for equality. Duplicate inserts and removals of absent keys change nothing and are
stuttering steps. The node sizes are at least 2 and 3: the constructor accepts smaller ones, with which
empty leaves or internal pages with one kid remain.

### Page guards
`guard[g]` is a guard variable, named by its thread and a number; `latch[f]` is the shared mutex of a frame.
A guard is opened on a page that was just fetched or made: the pin is there and the constructor waits
for the latch (`latching`), then the guard is `open`. `Drop` first unlatches and then unpins, in two steps;
a basic guard only unpins. A move constructor, or an assignment to an empty guard, hands both over; an
assignment to a guard that holds a page is `Drop` followed by a move, since the code drops first. Threads do one thing
at a time, take latches in the order of page ids and never latch a page twice, the discipline a
`shared_mutex` needs. A read guard on a new page would unpin it clean (see `MarkNewDirty`) and is left out.
Flushes and deletions of other threads go on all the while.

### Table page and table heap
A page has its link, slots, free space pointer and bytes; a byte holds the content of the row it belongs to.
Slots are positions from 1 and `INVALID_PAGE_ID` is 0. `TableHeap` is one session: it scans, and
changes the row the scan returned last, as the write executors do, and inserts at any time. `stored` is what the session
believes the table holds, `due` the rows a scan must still show. A refused `FetchPage` is modelled
where it matters: it ends an iteration like the end of the table, or throws in `GetTuple`; a refused write changes
nothing. `UpdateTuple` compares the growth of a row with the free space but consumes its whole new size, so the data can
run into the slot array; `OverrunOnlyByUpdate` says that this is the only way, and after an overrun nothing more is
explored, since the code then reads slots that hold other data.

### Expressions and query operators
A value is its type, its null mark and a number; floats count thousandths, so that values which print alike with two
decimals exist. What is stored of a row are the numbers: `SerializeTo` writes no null mark. Operators are functions of
the tuples of their children. Iteration over an `unordered_map` gives a set, and `std::sort` any arrangement that
the comparator allows, none if it is no strict order. The references (`SelectByDefinition`,
`AggregationByDefinition`, nested loops for the hash join) do not use the code's algorithms.

### Database
`heap[t]` is the sequence of slots of table `t`, as `TableHeap` shows it for rows of one size, as long as no page is overrun
and no page is refused. `TableHeap::UpdateTuple` may return false (`table_heap.cpp:70-77`), which the UPDATE executor ignores and counts
(`update_executor.cpp:41-42`), and `TablePage` overruns its slots after enough updates; both are in `TableHeap`, and here an update
always succeeds in place. A WHERE clause is one that cannot throw (`SafePredicate`: operands of one type, no division), and SET keeps the types of the
columns (`BoundWrite`); the expressions of SET may divide by zero. `indexes_` and
`index_names_` are the maps of the catalog. A write statement is planned by `Begin` and then runs one row per `Step`,
so that its scan reads what it has written. `stmt.before` is the table at its start, `exact` whether it reads the
table or an index that is still right. A deleted row is a slot without data: an index scan that
finds one evaluates its predicate through a null pointer and the process dies. Selections, joins and
aggregations change nothing; their results are compared in every state between two statements.
`INSERT INTO t SELECT ... FROM t` with two or more rows meets its own rows, because the iterator stands on an
old row while the first copy is appended, and goes on until the heap refuses a row; nothing in the repository
speaks of this case, and `WritesExact` leaves it out.

### Server
The main thread tests the flag, accepts, and in the end joins; every connection has a worker that tests the flag,
receives, executes and replies; a client sends, waits for one reply, quits or is killed. Connections wait in the
backlog of the listen socket, which the signal handler closes. A message arrives whole or not at all.

## 3. Runs

Named parts of an invariant (the type invariant among them) are its first conjuncts: `PoolConsistent`, for
example, is `TypeOK`, `MappingConsistent` and `FramesPartitioned`.

| Run | Instance | Shows |
|---|---|---|
| `buffer_pool` | 2 frames, 3 pages, 2 contents, 2 holders, K = 2, 5 accesses between restarts | structure (`PoolConsistent`), pins and evictability (`PinsRespected`), that clean and absent pages are in the file, and that the pool implements `PageStore`, which includes that ids in use are not given out again; for the replacer under these calls, that counter and histories are exact and the scan of `Evict` returns the one LRU-K victim for every order of the map |
| `transactions` | 3 transactions, 2 RIDs, clients that call `LockUpgrade`, outcome `next`, fair | compatibility of grants, held locks granted, the upgrade flag, no lost wake-up and two phases; the end releases everything, the outcome is final, and every transaction ends unless it is in, or waits for, a cycle of waits |
| `bplus_tree` | 6 keys, 10 pages, leaves of 2, internal pages of 3 | search, scans, links and balance exact after every sequence of calls; the leaf chain exact at every step of a call; every call ends |
| `page_guards` | 2 frames, 3 pages, 2 contents, K = 1, 3 accesses, 3 guards of 2 threads | latches and pins are exact, pages stay, readers see no change, latches are granted |
| `table_heap` | pages of 5 bytes (header and slots of 1), 3 pages, rows of 1, 2 and 4 bytes, 5 writes | rows read back, scans complete and without repetition (so every page is linked), overruns only by updates |
| `server` | 2 clients, 2 requests each | replies match requests, clean shutdown, every request ends |
| `database` | 2 tables with up to 3 rows, 3 statements, 2 indexes, 4 slots | statements, plans and catalog as above |

Five runs are expected to be violated; each states what a document or a comment of the repository says.

| Run | What TLC finds |
|---|---|
| `upgrade_gives_up_lock` | an upgrader waits without a grant, the reader in its way unlocks, and a third transaction gets the exclusive lock while the RID is still in the upgrader's shared set |
| `unlock_leaves_request` | `LockShared`, `LockExclusive` and `Unlock` of one transaction on one RID leave an exclusive request that no lock set mentions |
| `commit_leaks_locks` | when the loop of Commit stops at a null link, the remaining requests stay in the queues of a transaction that ended |
| `bplus_tree_loses_keys` | six keys in five leaves under two internal pages; a removal empties the first leaf, its parent borrows from the right, and a stored key is no longer found |
| `index_goes_stale` | CREATE INDEX, then a write statement: the map of the index no longer describes the table |

**Bounds.** `MaxTime` bounds the accesses of one process (a restart sets the clock to
0); `MaxPages` bounds the page ids ever allocated. Two frames and three pages are the
smallest pool in which an eviction has a choice, a page is evicted and comes back,
and a page beyond the end of the file is written before a lower one. Two holders are enough for
overlapping pins of one page with different dirty marks, and fill the pool. Five accesses
allow two new pages, an eviction by a third and a fetch of an evicted page. K = 2 gives
frames of both classes (fewer than K accesses, and K) at once, and full histories that drop timestamps. Three transactions let a third one slip between a holder and a waiter;
two RIDs let a transaction hold one lock while it waits for another. Six keys with the smallest
pages make trees of three levels with five leaves, in which each borrow, merge and split happens on both
levels; ten pages are enough for every such tree (a call without a page would be stuck and break `CallsEnd`).
Three accesses with K = 1 let guards open two pages, and a third one that evicts one of them; one thread has two guards
for moves, the other one. A page of 5 bytes holds two rows of one byte or one of two, a row of 4 bytes fits into no page, and an
update of a row overruns a full page; five writes reach a second and a third page. Two clients let one be idle while the other is
served during a shutdown; a second request would meet a reply left over from the first. Three statements allow
CREATE INDEX, a write that makes it stale and a write that uses it; the rows contain a zero divisor behind a good one,
two scores that print alike and equal keys; four slots let inserts find no room. Symmetry (of
holders, transactions, RIDs, row contents) is used in safety runs only, and no property tells them apart.

**Deadlock.** The transaction run does not check deadlock: transactions that are
done stop, and the code has no deadlock detection, so transactions may wait for each other.
Threads that use guards, clients of the server and the session may stop as well, and a session's bound on statements
ends it; a thread that hangs breaks `LatchesGranted`, `RequestsEnd` or `StopsUnlessClientIdle`. The tree's caller may stop, and no call is explored on a misrouted tree; a call that hangs breaks `CallsEnd`.

**Fairness.** A notified thread gets the latch and runs (`WF` of `Wake`). A transaction
that is not waiting eventually ends (`WF` of Commit and Abort and of the steps of
their loops): this is the assumption on clients without which no lock manager lets
waits end. A call of the tree goes on
to its end on its caller's thread (`WF` of `Continue`): it waits for nobody. Nothing is assumed about lock calls, aborts from outside or spurious wake-ups. `TransactionsEnd` names
the one thing that keeps a transaction from ending, a cycle of waits (`Deadlocked`), since the code detects none;
there are finitely many transactions, so that starvation by an endless stream of shared locks cannot show. A thread that may take a
latch takes it (`WF` of `Latch`) and drops its guards in the end, since their scopes end (`WF` per thread); new guards of
others are bounded by `MaxTime`, so that starvation by an endless stream of readers cannot show. The threads of the server
run and a waiting client reads (`WF` of their steps); nobody is made to connect, send, quit or signal. `WF` of `WorkerExec` assumes that each query
ends. The statement that strains this is an INSERT that selects from its own table (see Database): it ends only when the heap refuses a row.

## 4. Proofs

`LockManagerProofs` proves, for every set of transactions and RIDs and for both values of
`DirectExclusive` (no other assumption):

- `LocksExclude`: `LockSpec => []GrantedCompatible`.
- `LocksTwoPhase`: `LockSpec => TwoPhase`.
- `HeldLocksAreGranted`: `LockSpec => []HeldLocksGranted`.
- `UpgradeFlagsExact`: `LockSpec => []UpgradeFlagExact`.

`GrantedCompatible` is not inductive: `WakeGranted` grants whatever request the
thread's iterator points to, after a test that depends on the kind of the call. The
inductive invariant `LockInv` adds `WaitersQueued`: the request a thread waits for is
still in the queue, not granted and of the mode of its call, and the transaction is growing or
aborted. It holds since only a transaction's own steps touch its requests
(`StepIsOwn`) and an idle thread is needed for every other call. The last conjunct gives two-phase
locking: a wake-up that is not an abort happens in the growing phase.
`GrantIsSafe` shows that every request in the new queue of a step is not granted,
was there before, or is compatible with the grants of the others; with `StepIsOwn` this
gives the induction step.

For the lock sets the strengthening is `Backed`, for each transaction and RID, in a wait too: every request but the one waited for is
granted (`OthersGranted`), the exclusive set has only exclusive grants, the shared set only grants or the RID of an upgrade under way, and
a growing transaction has no request, and no exclusive grant, that its sets lack (`SetsComplete`). The last part is conditional on the growing phase because `Unlock` of
one of two requests ends that phase and leaves the other.
For the flag, `FlagStep` says that a step leaves flag and upgrader alone, sets both or clears
both; `Unlock` clears a flag only for a request that is not granted, which by `OthersGranted` an idle
transaction does not have.

With `DirectExclusive = FALSE`, without which it is false (see the lock manager above), the module proves

- `NoWakeupLost`: `LockSpec => []NoLostWakeup`.

`WakeInv` adds `Single`: a transaction has at most one request on a RID, so that one that waits there holds nothing. `ReleaseNotifies` says that a
grant disappears only with a notification, or in a `LockUpgrade` that is itself blocked: then the transaction that
blocks the upgrade also blocks every sleeper the lost grant blocked.

`ReplacerProofs` proves, for any frames and K >= 1, about the replacer under any sequence of calls (`LRUSpec`):

- `CounterExact`: `LRUSpec => []SizeExact`, from `Counted`: the counter is the number of evictable entries and only entries
  carry a mark. Each operation changes the set of evictable frames by at most one frame.
- `HistoriesCorrect`: `LRUSpec => []HistoriesOrdered`. The histories are apart only because all of them lie before
  `current_timestamp_`, which every access advances; `Ordered` carries both.
- `EvictScanCorrect`: `LRUSpec => []ScanFindsVictim`. `Best` is the invariant of the loop: after some entries, the victim so far is the
  LRU-K choice among them. Distances are distinct by `HistoriesOrdered`, which is why the order of the map cannot matter.

Their lemmas are about the operations as functions of a replacer, so that the proofs about the pool use them too.

`BufferPoolProofs` proves, for any number of frames, pages, contents and pin holders:

- `PoolIsConsistent`: `Spec => []PoolConsistent`, and `PinsAreRespected`: `Spec => []PinsRespected`.
- `CleanPagesAreDurable`: `Spec => []CleanIsDurable`, if `MarkNewDirty`; without it the property is false (see the buffer
  pool above).

The inductive invariant `PoolInv` joins the two structural properties with what makes them inductive: `MarksExact`, the
evictable marks in terms of sets of frames with the exact counter of the replacer (an eviction must return a used, unpinned frame, and
it finds none only if there is none); `NoPinIsClean`; `IdsBounded`, by which `AllocatePage` returns an id that nobody
knows. Each operation is split as in the code: acquiring a frame (from the free list, or an eviction with its write-back) and
installing a page in it. `DurableInv` restates `CleanIsDurable`; the failbit stays clear since a read
happens only for a live page that is not resident, and such a page is in the file.

The last part of the module proves `PoolImplementsStore`: `Spec => ImplementsPageStore`, if `MarkNewDirty`: initial states map to initial states
and every step of the pool to a step of `PageStore` or a stutter. `StoreInv` adds `FileZero`: a page beyond the end
of the file is zero once the file grows over it. Each operation is reduced to the set of pages it writes to the file
(`Persisted`) and the change of the contents it shows. The refinement also covers what the simple
invariants do not say: that a restart yields the file and nothing else, and that an id in use is not given out again.

`PageGuardProofs` proves, for any threads, guards, frames and pages, and for both values of `MarkNewDirty`:

- `LatchesAreExact`, `GuardsAreThePins`, `FramesShowPages`: `GuardSpec` implies `[]LatchesExact`,
  `[]GuardsArePins`, `[]FrameShowsPage`.
- `ReadersUndisturbed`: `GuardSpec => ReadersSeeNoChange`, an action property.

`GuardInv` is `PoolInv`, `Linked` (a guard is empty exactly if it has no pin, and its pointer is the frame the page table has for its page)
and `Exact` (the latch of each frame counts its open guards). What the pool does for one holder leaves the pages of the other holders in
their frames (`Untouched`), because evictions and deletions need a frame without pins. A reader
is undisturbed because a write needs the write latch or a guard without a latch, and everything else that changes a frame
needs an unpinned one.

`ServerProofs` proves, for any finite set of clients and any number of requests:

- `RepliesMatchRequests`: `ServerSpec => []ReplyIsToLastRequest`.
- `ShutdownIsClean`: `ServerSpec => []ShutdownClean`.

In `ServerInv`, `Dialogue` follows a request: while a client waits, at most one message is under way in one of the two directions, and
when it is idle none is, so that a left-over reply cannot be taken for the next one. `Kept` says who still answers for an
open connection: its worker, or the backlog of a socket that still listens.

`TransactionProofs` proves about `TxnSpec`, for any transactions and RIDs and whatever the undefined increment in the loops
does (any `LoopOutcomes`):

- `LocksExcludeThroughout`, `BeliefsHoldThroughout`, `FlagsExactThroughout`, `TwoPhaseThroughout`: `TxnSpec` implies `[]GrantedCompatible`,
  `[]HeldLocksGranted`, `[]UpgradeFlagExact` and `TwoPhase`.
- `OutcomesAreFinal`: `TxnSpec => OutcomeFinal`.
- `EndLosesNoWakeup`: `TxnSpec => []NoLostWakeup`, if `DirectExclusive = FALSE`: what a loop that stops early leaves behind
  keeps its waiters blocked, so they are stuck but not forgotten.

The steps of the lock manager inside `TxnSpec` are those of `LockNext`, so `BackedInv` and the lemmas
about it carry over (`TxnNextCases`); new are the state set by Commit and Abort and the sets cleared at the end. `OutcomeInv` adds that a transaction that has
decided is not waiting, which is why `Unlock` leaves its state alone (it changes GROWING only) and why clearing its sets takes nothing from an upgrade under way.
`EndedHoldsNothing` is not proved: with `stop` the run `commit_leaks_locks` refutes it, and with the
benign outcome alone it would say little.

`TableHeapProofs` proves about `HeapSpec`, for any page size, header and slot sizes, tuple sizes and numbers of pages and writes:

- `HeapReadsBack`: `HeapSpec => []RowsReadBack`.
- `ScanMissesNothing`: `HeapSpec => []ScanComplete`, and `ScanRepeatsNothing`: `HeapSpec => []ScanOnce`.
- `OnlyUpdatesOverrun`: `HeapSpec => OverrunOnlyByUpdate`, an action property.

In `HeapInv`, `Chain` says that every page links to the one allocated after it. With it, what a walk over the links reaches is a matter of
arithmetic on page ids (`Reached` is shown equal to an addition by a least counterexample), so `FirstLive` is the least tuple at or after a
position in the order of page and slot. `Placed` and `Holds` are the part about the bytes: tuples lie
between the free space pointer and the end of their page, and every slot holds what the session stored there. An insertion that passes `Fits`
and an update that does not overrun write below everything stored. `ScanGood`, `DueGood` and `Increasing` are the part about the
scan: what it returned is in the order of the list and before its iterator, what it owes is behind it. All but the order of
the rows returned is conditional on `Intact`, since an overrun page means nothing any more.

`DatabaseProofs` proves about `DbSpec`, for any tables, columns, rows, statements, predicates and indexes:

- `CatalogStaysConsistent`: `DbSpec => []CatalogConsistent`.
- `StaleIndexesAreSound`: `DbSpec => []StaleIndexSound`.
- `WritesAreExact`: `DbSpec => []WritesExact`.

They rest on `DatabaseAssumption`: columns are INTEGER or FLOAT, the tables hold whole rows and start within `MaxSlots`, and statements are what the binder makes of SQL
whose WHERE clause cannot throw (`BoundWrite`): a DELETE or UPDATE scans the table it writes; the expressions of SET are columns, numbers or
one arithmetic operator over INTEGER operands, of the type of their column; a WHERE clause is empty, a comparison or two of them joined, with operands of
one type and without division (`SafePredicate`). Int32 overflow, a page overrun by UPDATE and a page without a frame are outside the model (see Database
above and `TableHeap`), so the theorems say nothing about them. The invariant
`DbInv` (theorem `DbInvariant`) has two halves. The first is the catalog: `CatalogGood` (the two maps are inverse to each other), `IndexesGood` (an
index lists slots of its table in ascending order, which stays true when the index is stale because heaps never shrink) and
`FreshGood` (an index whose table was not written since its creation finds exactly the rows of the table). DROP INDEX is followed name by
name, so that a list that stops half-way is covered. The second half, `Progress`, says how far a statement has come. A slot is
`Passed` when the scan is behind it; `Done` is the set of matching slots that are. A DELETE or UPDATE has changed the slots in
`Done` and no others and counted each once (`Changed`), an INSERT has appended copies of exactly these, as far as there was room
(`Grown`). The heart is `StillUnread`: what the scan has not passed is as it was when the statement began, so the row that
`Next` returns can be judged by the old table. It fails only for an INSERT that reads its own rows. `ReadNext` then adds one slot to
`Done`, larger than all others, and leaves no matching slot out if the scan reads the table or an index that is not stale
(`ExactGood`). When the scan has no hit left, `Done` is the set of all matching slots (`NoHits`); when an UPDATE throws, the failing slot is the least of the failing ones
(`FailedAt`). For an INSERT the copies are compared with the definition through `ListsUnique`: a set has one ascending enumeration.
Predicates enter only through their value on a row; the one fact about them is `LookupHolds`, that a row which satisfies `column = constant` has the
constant in that column, whose type the constant has by `LookupBound`.

**Induction.** The library's induction theorems cannot be instantiated with the installed provers. Where a proof needs induction over numbers
(walks along links, the loops over a map, a list of names or a heap) it takes a least counterexample: `LeastNatural` follows from
the well-foundedness of `<` on the naturals, with a set of numbers in place of a predicate.

**Only model-checked.** Liveness (`TransactionsEnd`, `CallsEnd`, `LatchesGranted`, `RequestsEnd`, `StopsUnlessClientIdle`) needs fairness
and `ENABLED`, which TLAPS does not handle. `EndedHoldsNothing` depends on the undefined increment (see above). `SelectExact`, `OptimizedJoinSame` and `GroupsExact` compare sorted and folded sequences
of tuples, as bags or up to order, with their definitions, and the library's sorting and folding operators give the provers nothing to
reason from. The B+ tree's `SearchExact`, `ChainExact`, `LinksExact` and `Balanced` speak of paths through a tree whose shape changes at several levels
in one call, and hold only until the borrow that `bplus_tree_loses_keys` shows; an inductive invariant would have to describe every
half-finished split and merge.

## 5. Not modelled, and the plan

- VARCHAR and BOOLEAN columns, int32 overflow, float rounding: the properties need numbers that compare and print.
- The walk over the parse tree and the resolution of names; the vendored parser. The binder refuses
  `INSERT ... VALUES`, plans only the first table of a comma-separated FROM clause, and drops GROUP BY without aggregates.
  It binds ORDER BY of an aggregating query to columns of the table, although the sort reads rows of the aggregation.
- Several sessions at once: the heap, the catalog and the static maps of two executors have no latch, and no
  document promises that concurrent statements work.
- The local shell (plans without a catalog, so without indexes), console input, text of results, SHOW.
- Isolation levels are stored and never read. Unlocked reads of the replacer's size have no effect.
- Iterators of the B+ tree across changes of the tree, the tree over a buffer pool that refuses a page in the middle of a call,
  and the bytes of a node page at the default sizes.

Next: an inductive invariant of the B+ tree (sizes and sorted keys of single pages first, then the ranges of keys under a separator), and
the half of `SelectExact` that says which rows a scan yields, which follows from the lemmas about reading in `DatabaseProofs`.
