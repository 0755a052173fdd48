# TLA+ models of Mosito

Mosito (`src/`) is a small distributed query engine: a master compiles a query
plan, ships parts of it to workers, and the parts exchange blocks of tuples over
sockets. This directory holds TLA+ models of its concurrent and distributed
core and of its SQL front end, TLC configurations that check them on small instances, and TLAPS proofs.
Paths below are relative to `src/src/` of the repository.

## Inventory

| Component | State it keeps | Operations | Talks to | What makes it correct |
|---|---|---|---|---|
| `BlockCircleQueue` (`common/m_circle_queue.h`) | lists `emptys_`, `blocks_` of pool blocks, `lock_` | `push`, `pop` | `PCBuffer` | no pool block is lost or in both lists; contents come out in order |
| `PCBuffer` (`common/m_pc_buffer.cpp`) | one queue per column | `put`, `get` (11 attempts each), `get_sorted` | both exchanges | a bounded FIFO per column; calls return |
| `CircleQueue`, `ThreadPool`, `TaskThreadPool` (`common/m_thread_pool.cpp`) | ring of task pointers, `lock_`, `condition_` | `add_into_thread_pool`, `single_thread` | `ExecutorSlave`, which creates a pool of five (its call of `add_into_thread_pool` is commented out at present) | each task is run once; no lost wakeup |
| `Sender`, `Merger` (`common/`) | sockets, `meet_zero_` | `m_connect`, `m_send`, `m_socket`, `m_accept`, `m_single`, `m_receive_select` | the exchanges | no connection refused where a socket could be had; nothing received is dropped |
| `ShuffleLower1` (`physical/`) | `buffers_` per key range, `PCBuffer`, `send_route` thread | `prelude`, `execute` | `Sender` | every tuple goes, once, to the upper that owns its range |
| `ShuffleUpper1` (`physical/`) | `PCBuffer`, receive thread, `meet_zero_` | `prelude` (`gather_all`, `send_gather`, `serialization`), `execute` | `Merger`, `Executor` | all uppers listen before a task leaves; the end is reported exactly when all lowers have ended |
| `ShuffleLower`, `ShuffleUpper` | the same, sorted within a range | the same, `get_sorted` | the same | also: output sorted |
| `LoserTree` (`common/m_trees.cpp`) | a tournament over the heads of sorted runs | `initialize`, `play`, `replay` | `get_sorted` | always names the smallest head |
| `Sort`, `MergeJoin`, `Scan`, `Debug`, `Project` (`physical/`) | partitions of the input, threads | `prelude`, `execute`, `postlude` | each other | result equals the relational operator's |
| `MemoryStore` (`storage/`) | map from file to loaded memory | insert, find | `Scan` | a file is loaded once |
| `Executor` (`executor/`), `TaskInfo` | an actor endpoint | `sendToMultiple`, handler | exchanges | a task runs on every node it was sent to |
| `Coordinator`, `Worker` (`deploy/`) | endpoints known, socket | `register_worker` | each other | every worker knows every other |
| `KM`, `ParStrategy`, `Histogram` (`analysis/`) | weights, labels, counters | matching, counting threads | planner | a maximum matching; exact counts |
| `Barrier`, locks (`common/m_synchronize.cpp`) | count, condition | `arrive` | nobody at present | nobody passes before all have arrived |
| Scanner (`sql/lex.yy.cpp`) | buffer, start condition, `oldstate`, `yylval` | `yylex`, `readInputForLexer` | the parser | each token and its value; no state leaks into the next statement |
| Parser (`sql/sql.tab.cpp`), nodes (`sql/sql_node_struct.h`, `sql/function.cpp`) | value stack, tree, `parsetreeroot`, `errorNumber` | 611 actions, `new...`, `output` | `SqlParser` | every field holds what its struct declares, and readers cast it back to that |
| `SqlParser` (`sql/m_sql_parser.cpp`) | the text, `globalReadOffset` | `execute`, `getparsetreeroot` | the parser | every statement is answered with its own tree |
| Expressions, logical plan, optimizer | | | | not modelled: data structures, stubs |

### How the parts interact

A running query is the chain
`Debug{ShuffleUpper1(10){MergeJoin{Sort{ShuffleUpper1(500){Scan}},Sort{ShuffleUpper1(50){Scan}}}}}`.
A `ShuffleUpper1` runs on every node of the upper stage. Its `prelude` opens the
listening sockets, meets the other uppers (`gather_all` on the first one,
`send_gather` on the others), sends the lower part of the plan to the nodes of
the lower stage through the actor system, and accepts one connection per lower.
Each connection is a column of its `PCBuffer`. On a lower node `ShuffleLower1`
pulls tuples from its child, partitions them by key range into blocks, and puts
these into a `PCBuffer` with a column per upper; a `send_route` thread moves them
to the sockets. On the upper node a receive thread moves what `select` reports
into the columns, and `execute` scans the columns. An empty block marks the end
of a stream; each thread counts the markers it has seen and stops at its own count.
`Sort` and `MergeJoin` collect their whole input in `prelude` and work on it with
one thread per core.

### What is hard here

* **Concurrency.** `put` and `get` retry without a lock; the pools sleep on a
  condition variable; merge threads share one stack slot and one iterator.
* **Ordering.** Five queues and four threads lie between a lower's child and the
  operator above the exchange; end markers travel among the data.
* **Failure and limits.** Results of `put`, `m_socket`, `m_accept`, `m_connect` and
  `m_single` are ignored; the data socket of an exchange is never closed, so the next query's `bind` fails;
  a dead lower leaves a socket that is readable for ever; a full ring is waited for
  with the lock held.
* **Start-up.** Uppers start in any order, and lowers connect exactly once; workers
  register one by one and may die half way; scans create the store they share.
* **State that outlives its use.** The SQL session never resets its read offset, its
  error count or its scanner's mode; a block keeps the tuples of its last use.
* **Agreement of long lists.** The grammar's actions pass untyped unions between a
  scanner, constructors and readers that live in four files.
* **Boundaries.** Ranges per upper, the last block, the empty range, the ring that
  wraps.

Nothing is persisted, so there is no crash recovery. There are no timeouts other than
the bounded attempts of `PCBuffer`.

## Modules

| Module | Models | State and actions |
|---|---|---|
| `BoundedColumns` | the promise of `PCBuffer`: one bounded FIFO per column | abstract; a call takes effect in one step or answers false when the column is full or empty |
| `PCBuffer`, `MCPCBuffer` | `common/m_pc_buffer.cpp`, `BlockCircleQueue` | both lists and the memory of the pool; `push` and `pop` are one step each (they run under `lock_`), each attempt of `put` and `get` is a step |
| `PCBufferProofs` | | TLAPS proofs about `PCBuffer` and about the tree of its `get_sorted`, `LoserTree` |
| `ThreadPool` | `common/m_thread_pool.cpp`, `CircleQueue` | the ring with `front_` and `rear_`, mutex, condition variable; a step per statement that another thread can observe; spurious wakeups |
| `UpperGather` | `prelude` of `ShuffleUpper1` and `ShuffleLower1`, the socket calls of `Sender` and `Merger` | ports with their backlog, ports an earlier query still holds (`taken`), a program counter per upper, the task of each lower; `m_socket`, `m_accept` and `m_connect` may fail, and the callers go on as they do in the code |
| `Shuffle1`, `MCShuffle1` | `execute` and the threads of `ShuffleLower1` and `ShuffleUpper1`, `m_receive_select` | composes two stages of columns (used as the FIFOs that `PCBuffer` is proved to implement) with sockets of bounded capacity; crash of a lower |
| `Sort` | `physical/m_sort.cpp` without `MULTI_PARTITION` | `prelude` collects the child's tuples and pushes them one by one into their ranges, a sorting thread per core, the blocks that `execute` fills |
| `LoserTree` | `LoserTree` of `common/m_trees.cpp` | the arrays `B` and `L`; every round of the loops of `initialize`, `play` and `replay` is a step, and so is a `Load` of any key |
| `ShuffleSorted`, `MCShuffleSorted` | `physical/m_shuffle_lower.cpp`, `physical/m_shuffle_upper.cpp`, `PCBuffer::get_sorted` | the sorted ranges, a block per upper with its slots, the loops of `execute` upper by upper, columns, sockets, and the merge tuple by tuple, whose winner is any least leaf: what `LoserTree` is proved to answer |
| `Registration` | `Worker::init`, `WorkerConnector`, `Coordinator::register_worker`, `m_single` | the listening socket, `ipinfo`, `endpoints_info_`, mail of the actors; workers that die, accepts that fail |
| `ScanCache` | `physical/m_scan.cpp`, `storage/m_memory_store.h` | the singleton, one map per store that was created, a program counter per scan; every call of `getInstance` is a read of its own, and an insertion (of `insert` or `operator[]`) takes two steps, so that another thread may meet it; files that `fopen` cannot open |
| `SqlLexer` | the actions of `sql/lex.yy.cpp` | sets of tokens by what they leave in `yylval` |
| `SqlNodes` | `sql/sql_node_struct.h`, `sql/function.cpp` | structs with the kinds of their fields, constructors |
| `SqlGrammar` | the rules and actions of `sql/sql.tab.cpp` | a record per rule: right hand side, and what the action does with it |
| `SqlTree` | `yyuserAction` over all of them | for every symbol the values it can have, for every field the values it can hold; a step reduces the rules of one stretch of the switch |
| `SqlSession`, `MCSqlSession` | `sql/m_sql_parser.cpp`, `readInputForLexer`, start conditions and comments of `yylex`, shift and recovery of `yyparse` | the globals of the session; a step per lexeme |
| `MergeJoin`, `MCMergeJoin` | `physical/m_join.cpp` without `SYN_JOIN`, `getNext` and `getNextFake` of `common/m_buffer.cpp` | tables per range, the shared slot `joinargu`, iterators, a program counter per merge thread |
| `StartupProofs` | | TLAPS proofs about `ThreadPool` and `UpperGather`, the two things work on a node starts with; the names of `ThreadPool`'s specification begin with `Pool` so that one module can extend both |
| `Shuffle1Proofs`, `ShuffleSortedProofs`, `SortProofs`, `MergeJoinProofs`, `ScanCacheProofs` | | TLAPS proofs about the module of that name |
| `MasterProofs` | | TLAPS proofs about the two loops of the master, `Registration` and `SqlSession`; the names of `SqlSession`'s specification begin with `Session` |

Neither macro is defined by the build, so the branches named are the ones that run.

Blocks are sequences of tuples. What is kept of their layout is how many tuples fit
(`Fit`) and how many `assembling` records (`Counted`), in `Shuffle1`, `ShuffleSorted` and
`Sort`: `allocateTuple` uses the whole block, `assembling` all but its last four bytes
(`m_buffer.cpp:102` and `:169`), so one tuple less is counted when the tuple size divides the
block size, 4095 of 4096 tuples of 16 bytes. Tuples are identifiers with a range in
`Shuffle1`, and with a key in `Sort` and `MergeJoin`. Logging, timing and memory
release are left out. Undefined behaviour is a choice: freshly allocated memory is
`Garbage`, an increment that races may be lost, memory behind a table may hold any
key, and an iterator past its end or a tuple stored in no table (`undefined` in
`MergeJoin`), and an entry read past its end or a null stream (in `ScanCache`), stop the
model of that thread.

`SqlTree` abstracts a value to its kind: NULL, a number, a string, the leftover of a
keyword in `yylval`, a dead local, or a node of a struct with its nodetype. The sets
of values grow until no rule adds to them, which is reached after a few rounds over
the switch: it covers every tree of every statement, whatever its size. `SqlSession` is
about order in time and keeps a small part of the grammar.

Some operators are plausible bugs (an off-by-one, a dropped reset, a swapped operand);
the comment before them says which. They are not part of the specifications: each
is substituted for the definition that follows it to confirm that a property notices.

## Runs

| Run | Instance | What it shows |
|---|---|---|
| `pcbuffer` | one column of two blocks, three threads, two contents, two attempts; a tree of five leaves over three keys | `PoolPartition`: no pool block leaks or is listed twice. `ImplementsFIFO`: refinement of `BoundedColumns`. `CallsReturn`: the attempts are bounded. `WinnerIsLeast`: between two calls the winner of the tree is a least leaf and each other leaf is in the tree once. `OperandsWritten`: no entry of `B` is used before it was written. The queues and the tree share no state, so each runs while the other rests in an initial state (`MCPCBuffer`) |
| `thread_pool` | two callers, two workers, four tasks, ring of two | `RingIsFIFO`: nothing lost, duplicated or overtaken. `NoLostWakeup`. `AllRunUnlessStuck`: every task runs unless a caller is stuck at the full ring |
| `upper_gather` | three uppers, two lowers, one port still in use or one failing socket call | `RefusedOnlyBroken`: an ignored connect is refused only where the port's own `m_socket` or `m_accept` failed, or that of `gather_all`. `OneColumnPerLower`: only an upper whose own data accept failed goes on with fewer connections than lowers. `EveryUpperReady`: without a failure the start-up works in every order of starts and delays |
| `shuffle_two_lowers` | two lowers, the second may die at any step; one upper; columns and sockets of one block; blocks that take two tuples and count one; six tuples each | `InOrder`. `NoBlockVanishes`: only the last block tagged by a lower that died with it in hand goes nowhere. `DrainedWhenDone`, `EndsUnlessMarkerLost`. `MarkerOnItsWay`: while `execute` waits, the marker and the threads that must bring it are still there. `ServedBeforeDead`: of a connection accepted before the dead one everything up to its marker is taken off the socket |
| `shuffle_two_uppers` | one lower, two uppers, four ranges, consumers that may stop | `RoutedByRange`; `LowersFinish`: a stalled consumer never blocks a lower |
| `sort_order` | every input of at most four tuples, two nodes, four ranges, blocks that take three tuples and count two | `EveryKeyHasRange`, `TuplesAhead`, `StoredAscending`. `EndsComplete`: everything is stored, and the operator above reads exactly the counted tuples, each in its place |
| `mergejoin` | two merge threads, every pair of five streams, one with a key that has no table | `NeverAnEarlierRange`, `JoinEnds`: what the race cannot break. `ExactWhenUndisturbed`: equality with the reference join where no race happened |
| `shuffle_sorted` | two lowers, one or two uppers, blocks that take three tuples and count two, columns and sockets of one block; plans with an empty share, a share of more than a block, a key beyond `DATAVOLUME` | `BlocksOnceButLast`: a stream repeats only its last block. `StreamsAscend`: blocks ascend, but for keys beyond `DATAVOLUME` and the unfilled slots of the last one. `MergeAscends`: the merge is sorted whenever its columns are. `ColumnsMergedWhole`: `get_sorted` never starts on a marker, and ends when it has stored everything that reached a column. `FlushesIffAllShare`: a lower comes to its last blocks if and only if it has a tuple for every upper |
| `registration` | three workers that may die, a backlog of two, one failing accept | `EveryPairLinked`: any two workers that complete `init` get connected. `SurplusAccounted`: surplus entries of `endpoints_info_` are failures, one for one |
| `scan_cache` | three scans, two files of two blocks each and one that cannot be opened | `ScanExact`: unless two threads were in one map at once, a scan passes on a prefix of its file; with one store it is the whole file, and only the missing file stops a scan. Two stores are the exception named: a scan may end early or read past the end of the other store's entry |
| `sql_tree` | the whole grammar | `FieldsHoldTheirType`, `ClausesInTheirFields`, `OperandsKept`, `OnlyDeadStatementsMissing` |
| `sql_session` | texts of `MCSqlSession`: right, wrong, short, long, with open and closed comments and a `BETWEEN` without `AND`; up to three errors | `TreeOfTheRest`: the tree is that of the text behind the length of the previous one, and NULL after any error. `EveryTextAnswered`: what stops the session is exactly a shorter text, an open comment or a statement without a tree |

### What the properties say about the code's surprises

Where the code does something a reader would not expect, the property names the
exception and claims the rest:

* The receive thread ignores the result of `put` (`m_merger.cpp:185`): a block that
  finds a full column is dropped. `NoBlockVanishes` and `InOrder` hold with the dropped
  blocks accounted for, and `EndsUnlessMarkerLost` is what remains of termination.
* `ShuffleLower1::execute` drops the tuple that finds its buffer full and never puts
  partly filled buffers; the model does the same.
* A caller of `add_into_thread_pool` that meets a full ring spins with the lock held
  (`m_thread_pool.cpp:55`): `AllRunUnlessStuck`.
* `Sort` counts its last block as full (`m_sort.cpp:205`), and where `Counted` is less than
  `Fit` the last tuple of every full block is lost: `EndsComplete` says that every counted
  tuple is read in its place and none of the others is read, with stale ones behind the last.
* The data socket of an exchange is never closed (`m_shuffle_upper1.cpp:121`,
  `m_merger.cpp:189`) while `do_join_query` loops, so its `bind` fails from the second query
  on, and nobody looks at the result: `RefusedOnlyBroken` and `OneColumnPerLower` say how far
  such a failure reaches.
* Every `getInstance` of `execute` (`m_scan.cpp:91` and `:93`) may give another store: see
  `ScanExact`.
* `MergeJoin` takes `value/CPU_CORE` for a table without a test (`m_join.cpp:407`): a key from
  `CPU_CORE * CPU_CORE` on, as nearly all keys of a table of `DATAVOLUME` are, is stored
  outside the array. `JoinEnds` and `ExactWhenUndisturbed` are about the runs without one.
* `getNextFake` skips a tuple (`m_buffer.cpp:54`), so equal keys on both sides do not
  give all their pairs: `ExactWhenUndisturbed` is about tables without duplicates.
* The flush loop of `ShuffleLower` resets a block when `put` fails
  (`m_shuffle_lower.cpp:259`): the last block is repeated until the column is full, or
  lost if it is full at once. `BlocksOnceButLast` shows that no other block is.
* `get_sorted` declares the block in hand empty when the last column ends
  (`m_pc_buffer.cpp:93`): its tuples are lost, in addition to the blocks the receive thread
  dropped and the uncounted last tuples of full blocks.
* With a single lower `initialize` would use `B[0]` before anything wrote it
  (`m_trees.cpp:97`): `LoserTree` and `ShuffleSorted` assume two or more.
* `globalReadOffset` is never reset (`m_sql_parser.cpp:74`), `errorNumber` neither: see
  `TreeOfTheRest`.
* Expressions without an action (`CURRENT_DATE` and three others), `INTO`, several forms
  of `ALTER TABLE`, `INSERT ... SET a < e`, and statements without a tree put what
  the scanner left in `yylval` into node fields: `FieldsHoldTheirType` lists them.
* Twenty-one kinds of statements need tokens that no rule of the scanner returns:
  `OnlyDeadStatementsMissing`.

### Why the bounds are enough

* *Columns and sockets of one block* are full as soon as one block waits, which is the
  case every refusal and every blocking send depends on. Three threads on a column of
  two blocks make both lists go empty and the pool blocks be reused in another order.
* *Two attempts* instead of 11 leave a gap between attempts in which others act, and
  a last attempt; the proofs hold for any number.
* *Four tasks in a ring of two* wrap it more than once; two workers and two
  callers are needed for a signal to meet a worker that is on its way.
* *Two lowers* are needed for a column accepted before, and one after, a dead
  connection; *two uppers with four ranges* for a range to be routed wrongly. Three
  uppers let one upper be served while another has not started.
* *Six tuples per lower with blocks of two* are two blocks and a marker per
  stream (the tuple that finds the buffer full is dropped by the code), one more than
  a column and a socket hold together. One tuple of a block is counted, one is not.
* *Four tuples in blocks of three, of which two count,* give a full and a partly filled
  block, a lost tuple, and empty ranges first, last and between.
* *Plans of `ShuffleSorted`*: shares of none to four tuples with blocks of three, of which
  two count, give an empty share, a partly filled block and a second one; two
  columns are the smallest merge in which one ends before the other.
* *One failure of a socket call or one port in use* is enough for every failure exit to be
  taken; the proofs hold for any number.
* *Five leaves* are on two levels, with a match of a match and a leaf between the loops of
  `initialize`, so every loop runs; three keys give every order of a new key, a winner and a loser.
* *Three workers* let one register between two others, or die there.
* *Three scans* are a pair that races and one that meets the result; the third file is one
  that cannot be opened.
* *Session texts* come in several lengths, so that the next text is shorter than, as
  long as, and longer than the previous one, by less and by more than a statement.
* *Two merge threads over four keys*: a pair of threads, and a first and a last
  range, is what the race on the slot needs. `FakeMax` bounds how often memory behind a
  table matches by chance; without it `getNextFake` could go on for ever, which the
  code does not exclude.

### Fairness

Weak fairness of each thread says that the operating system runs it; nothing else is
assumed in `PCBuffer`, `UpperGather`, `Sort`, `MergeJoin` and `Shuffle1`. In `PCBuffer`
only a thread inside a call is fair, since nobody is obliged to call. In
`UpperGather` fairness of a lower includes that the actor system delivers its task.
There a failing call is fair only where it cannot succeed (a `bind` on a port in use, an
`accept` on a socket that does not listen); an `accept` nobody connects to may wait for ever.
`Crash` and `SpuriousWakeup` are never fair. In `ThreadPool` taking the mutex is
strongly fair: a mutex that is released again and again is eventually granted to a
thread that waits for it. In `SpecStalled` the consumers have no fairness at all, so
`LowersFinish` holds even if they stop. In `ShuffleSorted` the merging consumer has no
fairness either. In `Registration` fairness of `handler` includes that the actor
library delivers a message to a live endpoint. In `SqlSession` only the steps after a
text was typed are fair. In `SqlTree` fairness drives the reductions to their fixpoint.

`CHECK_DEADLOCK FALSE` is used where the system may stop: the workers of `ThreadPool`
sleep when all tasks are done, `ShuffleSorted` and `ScanCache` end with their streams,
`Registration` when all workers are in, and `SqlSession` may exit.

## Proofs

All theorems hold for every value of the constants that satisfies the named
assumptions. These are: sizes and counts are positive; in `Shuffle1` the number of
uppers divides `CPU_CORE`, and in `Sort` the product of nodes and cores divides
`DATAVOLUME` (50,000,000, with four cores and up to four nodes; both are needed for the ranges to fit
together); `Garbage`, `Null` and `Nobody` are not among the values they stand beside;
scans, workers of the pool and workers of the cluster are finitely many; `LoserTree` and
`ShuffleSorted` have two columns or more, and no more uppers than ranges; `Counted` is between
1 and `Fit`; and in `MergeJoin` the children's streams ascend. Its keys are any naturals. TLC evaluates each assumption in the runs. Every inductive
invariant was checked by TLC on the run's instance before it was proved.

* `PCBufferProofs!TypeCorrect` — the type invariant is inductive by itself.
* `PCBufferProofs!PoolPartitioned` — `PoolPartition` is inductive together with the
  type invariant. The one argument is `MoveHead`: moving the head of one list to the
  end of the other keeps both lists injective and disjoint, and their total length. Pushing
  and popping are that move in the two directions (`PartitionSymmetric`).
* `PCBufferProofs!Refinement` — every step of `PCBuffer` is a step of
  `BoundedColumns` under the mapping of a column to the contents of its used pool
  blocks. It needs the partition: `PushContents` holds because the block overwritten
  by `push` is in no place of `blocks_`.
* `PCBufferProofs!WinnerLeast`, `WrittenBefore` — for every number of leaves. Leaves and
  matches are numbered as the nodes of one tree (`nodeOf`, `leafAt`), and the history
  `champ` names the winner below each node. While the tree is built (`Building`), the nodes done on
  a level are a prefix of it, a match is done when its right child is, and
  a match whose left child alone is done holds that child's winner: this is why the entry that
  `play` meets on its way up, and the left operand of the odd match, have been written. It
  also needs that no leaf is in `B` twice (`Apart`). Once built, every match but the ones
  above the loaded leaf is decided between the winners of its children (`Standing`). That no
  leaf is below the root's winner then needs no induction over the tree (`RootLeast`): take
  the least node whose winner is below it; its parent's match contradicts that.
* `StartupProofs!TypeCorrect`, `Disciplined` — from the inductive invariant
  `Base == PoolTypeOK /\ Discipline`. The types alone are not inductive: a
  worker that pops must know that the ring is not empty, which follows from what it
  saw under the lock and from nobody else being inside.
* `StartupProofs!Wakeups` — `NoLostWakeup` by counting. A push adds a task and turns a
  sleeper into a worker that looks at the ring, or nobody sleeps; a pop removes one
  of each; a worker sleeps only when the ring is empty.
* `StartupProofs!FIFO` — for every capacity, however often the ring wraps.
  `PushQueued` and `PopQueued` say what the two operations do to the sequence that the
  ring represents.

* `StartupProofs!NeverRefused`, `ColumnPerLower` — the invariant ties each connection
  made to a place: a port's accepted connections followed by its backlog name different
  callers, each past its own reply socket (`CallOnce`, `ColumnsOnce`, `OpenPorts`).
  `NUppers - 1` different callers are all the others, so every data port is open
  before the master sends a task (`TasksLast`), and a lower only runs after that. A failed
  socket or accept call is remembered in `failed`, and each part of the invariant is said of
  the ports without one.
* `Shuffle1Proofs!TagsAscend`, `BlocksAccounted`, `RangesKept`, `DrainedAtEnd` — one
  invariant for what lies between a lower and an upper: the blocks delivered, the upper's
  column, the socket, `send_route`'s hand and the lower's column, as one conduit. Tags
  along it ascend up to `debug_count_` (`Ordered`), every tag given out is in it or was
  dropped, or is the last one and in a dead lower's hand (`Known`, `HandTagged`), each tuple is of the upper's ranges (`AllFor`), and one marker comes last,
  with everything behind it empty (`OneMarker`); markers seen are counted against the
  lowers that put them. Every step of either side puts a block in, moves one to the next
  sequence, or drops one, so the proof is a few lemmas on such moves.
* `Shuffle1Proofs!NeverForgotten`, `JoinReturns` — the counting behind the end of an
  exchange. A marker once put is in the conduit or was dropped (`OneMarker` is an
  equivalence); `meet_zero_` of `ShuffleLower1`, of the `Merger` and of `ShuffleUpper1`
  are the numbers of markers that passed those three places (`SentCounted`,
  `ArrivedCounted`, `Counts`). So while `execute` waits and no marker was dropped, one is in
  the column, or the threads that have to bring it have not returned; and the thread
  `execute` joins has left its loop.
* `ShuffleSortedProofs!BlocksKeepOrder`, `StreamsRise`, `MergeRises`, `ColumnsWhole`,
  `BareLoops` — from one invariant `SortedInv`, again about a stream: the upper's column, the
  socket, `send_route`'s hand and the lower's column.
  `Lines` relates the blocks of a stream to each other, to the buffer they came from and to the
  range left over: numbers ascend up to the buffer's, whose counted slots (`Front`) the last one has, only the last block is there more than
  once and only when flushing, a block without keys beyond `DATAVOLUME` ascends to a key not
  above what is left. It starts with the fact that `combine` yields a descending range
  (`CombineFacts`), for every input. `Gathered` counts the spent ranges, so that a lower flushes when all are
  and marks what it has flushed. `Fronts`: a column `get_sorted` has not opened yet starts
  with a block, since the first one always finds room. `Chains` states what `get_sorted` has of
  an ascending column as one ascending sequence (leaf, rest of the block, blocks waiting);
  it survives every block the receive thread drops, which only shortens it. `Merging`: no
  leaf is below what was stored, and a finished column is drained.
* `SortProofs!KeysHaveRanges` — arithmetic: `dist_ranges_` of a node ends where the share the
  lowers route to it ends (`Bounds`, `RoutedBelowLast`). `NeverPastTheRanges`, by counting:
  the places of the ranges that hold a tuple are as many as `temp_cur_` says (`Counts`).
  `OutputAscends`: what is stored is not above what is left (`StoredBelow`), since every
  range holds keys between its bounds and a sorted one is taken from its end.
  `EveryTupleStored`: each tuple is to be pushed, in a range or stored (`Whole`).
  The sort itself is `Orders`: any permutation that is in order.
* `ScanCacheProofs!ScansExact` — an entry of a map is the whole file or empty, so a scan
  passes on a prefix, whichever store each `getInstance` gave; while one store exists no entry
  is empty, a reader's file is there and the block at a tested cursor too
  (`OneStore`). `StoresCounted` bounds the stores by the threads still to look.
* `MasterProofs!SurplusCounted` — a worker connects once, so an entry repeats an
  earlier one only after a failure that was counted before (`ConnectOnce`, `Surplus`).
  `IntroductionsKept`: a worker that sent its address is in the queue, being served or an
  entry, and an entry has met, by link or mail, all before it (`Linkage`).
* `MasterProofs!TreeFromTheRest` — `TreeOfTheRest` for any set of texts, any number of
  statements and errors. The reference reading (`Tokens`) looks at the whole text, the
  scanner at one lexeme; the invariant `Reading` joins them: after `k` lexemes the start
  condition says whether the first `k` leave a comment or a `BETWEEN` open, and the stack
  is the tokens of the first `k` and begins a sentence (`Prefix`), or some beginning of the
  tokens is no sentence's (`Spoilt`), or the `;` was read (`Complete`). It needs that
  the statement starts in `INITIAL`, which `Carried` keeps as long as no statement had an
  error: a sentence's `BETWEEN` has its `AND`. `ExitsIfShorter`: the offset at the refill is
  the length of the previous text.
* `MergeJoinProofs!NeverBelowOwnRange` — the slot is the number of the last thread
  created (`Creation`), which no thread that runs is above.
* `MergeJoinProofs!JoinExact` — the invariant is an implication: as long as nothing is
  `spoiled`, only thread `j` moves the iterators of range `j` (`Alone`), the tuples in its hand
  are those its iterators have just passed (`InHand`), and of the pairs with a left
  tuple up to `Left(j)` or a right tuple up to `Right(j)` it has combined each match
  once and no other (`CombinedOnce`). A step changes `Left` or `Right` only past a
  pair that does not match, because tables ascend (`Gathered`), or past the one it
  combines, because keys are unique. The loops over fake tuples then only meet memory
  behind a table (`FakeDuplicate`). A key without a table sets `undefined`, after which no thread
  is created.

Only model-checked: the liveness properties (`CallsReturn`, `AllRunUnlessStuck`,
`EveryUpperReady`, `EndsUnlessMarkerLost`, `LowersFinish`, `ServedBeforeDead`,
`EndsComplete`, `JoinEnds`, `FlushesIffAllShare`, `EveryPairLinked`, `EveryTextAnswered`,
`OnlyDeadStatementsMissing`), which need reasoning about fairness that the prover
does not support. The safety half is proved of `FlushesIffAllShare` (`BareLoops`), of
`EndsUnlessMarkerLost` (`NeverForgotten`), of `EveryPairLinked` (`IntroductionsKept`) and of `EveryTextAnswered` (`ExitsIfShorter`).
`SqlTree` has no constants, so TLC's answer is the whole one for it.

## Plan

Modelled first, because everything else runs on it: the buffer, the pool, the start-up
and the data path of the exchange, then the two operators with threads of their own;
then the sorting exchange with its merge, registration, the scan cache and the SQL
front end. The proofs followed in the same order; every invariant of a module
with constants is a theorem now. What is left is the composition: `Shuffle1` and
`ShuffleSorted` use the FIFO of `PCBuffer`, and `ShuffleSorted` the winner of `LoserTree`, by
what they are proved to do; a refinement theorem would join the modules formally.

## Not modelled

* `BCShuffle`: an older exchange without end markers that no plan builds.
* Of the SQL front end: flex's automaton and bison's tables with the forks of its GLR
  skeleton (that a text is split and parsed as `sql.l` and `sql.ypp` say is taken from
  those tools), what is printed, and texts that overflow `globalInputText`.
* Expressions, logical plan and optimizer: data structures without behaviour, or stubs.
* `KM`, `ParStrategy`: they print a matching that no plan uses. `Histogram`: unfinished,
  with the shared slot that `MergeJoin` models. `Heap`: only used by `Sort::heap_out`, which
  nobody calls. `Barrier`: only used under `SYN_JOIN`.
* The `do_..._query` loops of `Coordinator`: each builds one fixed plan.
* The handler of `ExecutorSlave` gives its thread `&task`, the address of a pointer, which
  the thread takes for the pointer (`m_executor.h:104`): what runs then is undefined
  in every schedule. The exchanges are modelled with the task as meant.
* Logging, configuration, timers, affinity, smart pointers, B+ tree: utilities, partly
  unused.
* `persist` and the growth of `FlexBlock`; `destroy_thread_pool`, which leaves its
  workers running.
* Keys of `DATAVOLUME` or more in `Shuffle1` and `Sort`: `partition` and `compare_start_end`
  then have no defined result. Nothing rules such keys out: the generator draws
  `rand()%gain`, and `gain` is an argument (`datagen/m_data_gen.h:72`).
* A number of uppers that does not divide `CPU_CORE` in `Shuffle1`, and lowers and uppers that
  are listed in a different order in `Sort`; no plan has either.
* What an upper does with a missing connection: `Shuffle1` starts from one per lower.
* `output()` of `sql/function.cpp`: its calls on query trees are commented out
  (`sql.tab.cpp:2992`, `3011`, `3048`), and the statements it is still called on (insert,
  create, drop, show and others) fall to its default case (`function.cpp:1452`).
* `m_receive_select1` has no caller, and the one call of `m_receive` is inside a comment
  (`m_bcshuffle_upper.cpp:82-94`).
* Short reads of a live socket: a block is received whole (`MSG_WAITALL`), so a short
  `recv` is the end of file of a dead lower.
