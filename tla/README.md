# TLA+ models and proofs of the parallel BPE tokenizer trainer

The program under `skeleton/src` reads a text file, splits it into words, counts
the distinct words (task 1) and runs byte-pair encoding over them (task 2). Each
task has a sequential reference and an OpenMP version; the OpenMP versions are
what `run_cli` uses. Two more versions of task 2 (v2, v3) are experiments that
the program does not call. This directory models all of them and the pipeline
around them, model-checks them with TLC, and proves with TLAPS that the registry of the
merge loop is exact after every round and its surgery race free, that the parallel merge
loop is greedy byte-pair encoding and reports its result, that the registry of v2 is exact
in the middle of a round, that the heap is a priority queue, that the two-stage tie-break is one total order, that the chunked scan
returns the words of the input, and that the parallel word counter counts them right.

## 1. Inventory

| component | state | operations | interacts with |
|---|---|---|---|
| merge loop (`parallel_task2.cpp`) | the chain (`token`, `alive`, `next`, `previous`), `token_count`, vocabulary, the queue | `build_state`, `pop_best_state`, `process_positions_sequential`, `process_positions_parallel`, `push_born_states`, `finalize_results` | changes the registry and the queue; its OpenMP team shares the chain |
| pair registry (`task2_state` in the same file) | `pair_state`s, position lists, groups and their free list, stamp caches, `born_states` | `link_append`, `link_remove`, `get_*_pair_state`, `get_word_group`, `add_edge`, `remove_edge` | called by the merge loop, by one thread at a time |
| `queue_heap` | a vector, a heap of four children per node | `push`, `pop`, sifts | holds outdated entries on purpose |
| sequential task 2 (`task2.cpp`) | vectors with dead entries per pair | the same rounds | the result parallel task 2 must reproduce |
| v3 of task 2 | as `task2.cpp`, groups captured per thread | words taken dynamically; the round's own pair removed in one batch; replay | experimental, not called by the program |
| v2 of task 2 | maps from words to numbers of occurrences | two critical sections per occurrence | experimental, not called by the program |
| parallel task 1 (`parallel.cpp`) | the buffer, word starts and counts per thread | mark, scan, count (three parallel loops), merge | its result is the input of task 2 |
| `split_words` (`corpus.cpp`) | the buffer, a cursor | one pass over 8-byte chunks | the words of sequential task 1 |
| sequential task 1 (`task1.cpp`) | one hash table with pointers into the buffer as keys | chunked hash and equality, counting, sort | reference of parallel task 1 |
| pipeline, CLI, file I/O (`pipeline.cpp`, `corpus.cpp`, `output.cpp`) | the buffers in turn, a buffered output stream | read, task 1, free, task 2, write, exit code | everything |
| MD5 | | one pure function | a line of the log |

What is hard here, and hardly reached by a test:

* **Lock-free surgery.** Threads resolve occurrences of the chosen pair and splice
  the chain without a lock. It is race free only because words are owned.
* **Deferred replay.** The registry is brought up to date after the surgery, from
  events, when tokens and links have changed further. `edge_group` must keep
  telling which pair each old edge is in until the replay gets to it.
* **Recycled groups and one-slot caches.** A group is freed and reused for another
  pair within one round, its `group_count` doubles as the free-list link, and
  every pair caches a group.
* **Stamps instead of a map.** The pairs born in a round are found through two arrays of
  stamps that are never cleared.
* **A lazy queue.** Entries keep the count of the time they were pushed; this is
  sound only because the count of a queued pair never grows.
* **A list emptied up front.** The head and tail of the chosen pair are reset before
  its members are removed one at a time through links that are then stale.
* **Dead entries.** The vectors of `task2.cpp` and v3 keep positions whose edge has gone.
  What a round reads there must be tested against the chain, also after an earlier
  merge of the same round.
* **A batch for all threads.** v3 recycles the groups its threads captured before the
  replay still reads `edge_group` of their neighbours.
* **A registry between two states.** In v2 a thread's occurrence has left the registry and
  not come back while other threads read and change the registry.
* **Overlap.** In `a a a` the two occurrences of `(a, a)` overlap, and which is merged
  depends on list order after any number of unlinks and appends.
* **Team size.** Ownership and scan chunks use `omp_get_max_threads()`, which is an
  upper bound of the team the region gets.
* **Borrows** in the SWAR tests of `split_words` and `task1`, and the buffer's tail, where
  equal words must hash and compare equal although one of them cannot be read a
  chunk at a time.
* **Errors at a distance.** A file that shrinks while it is read, a disk that fills up when
  a buffer is flushed late.

The full list, each at its line, is in `PROJECT.json` under `hazards`.

## 2. Modules

```
BpeText ----+--> GreedyBPE <--------------------------------------------------+
            |        ^ ImplementsGreedyBPE                                    |
PairRegistry+--> ParallelTask2 --> MergeLoopBook --> BpeRefinement --> MCParallelTask2
     |                                  ^ Loop                                |
     +--> VectorRegistry --> Task2 -----+--> MCTask2                          |
                             LockedTask2+--> MCLockedTask2                    |
PriorityQueue <-- QueueHeap --> MCQueueHeap                                   |
WordText --> SplitWords --> Task1 --> MCTask1Seq                              |
     \----> ParallelTask1 --> MCParallelTask1                                 |
     \----> Pipeline --> MCPipeline     Greedy -------------------------------+

proofs  CountingLemmas --> QueueHeap_proofs
                      \--> Task1_proofs, ParallelTask1_proofs
                      \--> PairRegistry_proofs --> ParallelTask2_proofs --> BpeRefinement_proofs
                      \--> LockedTask2_proofs
```

**BpeText**: texts as sequences of bytes, `strcmp`, the packed fingerprint (its width
is a constant, 8 in the code) and `queue_compare`'s tie-break.

**PairRegistry**: the registry as a record, the *book*, with one operator per C++
function that takes a book and returns the one the function leaves. Its record
fields have the names of the C++ members. A call of `std::abort()` sets `aborted`.
`GroupsSound` says what holds of every book.

**ParallelTask2**: the merge loop. A position is `<<word, slot>>`; slot
`Len(chars) + 1` is the word's sentinel. Phases follow the control of the code:

| phase | code | actions |
|---|---|---|
| `build` | `build_state`, first filling of the queue | `BuildPosition`, `BuildNextWord`, `StartMerging` |
| `pop` | `pop_best_state`, an iteration at a time | `PopIneligible`, `PopOutdated`, `PopBest`, `Finish` |
| `walk` | the pair's list is copied to `positions` | `WalkList`, `StartRound` |
| `sequential` | `process_positions_sequential` | `SkipPosition`, `MergePosition` |
| `surgery` | the parallel region | `TakeWord(t)`, `Resolve(t)`, `Apply(t)`, `Join` |
| `replay` | the replay of `local_events` | `ReplayEvent` |
| | `push_born_states` | `EndRound` |
| `done` | `finalize_results` (an operator) | |
| `aborted` | `remove_edge` aborted | |

An occurrence takes a thread two steps, because it acts on what it has read:
`Resolve` reads, `Apply` splices. Everything the sequential code does to one
position (chain, registry, counts) is one action, as no other thread runs then.
Words in a bucket come in any order (`unordered_map`), and so does the corpus
(a hash table of task 1), so every order is an input.

**GreedyBPE**: the abstract specification of task 2, which all four versions implement.
It has no lists, groups, queue or threads; a word is its bytes and `cuts`, the places at
which its tokens begin. Each round counts all pairs afresh and merges the best one in
all words, left to right, which takes cuts away (`MergeWord` of `BpeText`). A pair is a candidate when it is
in two distinct words; ties go by `strcmp` on the merged text.

**MergeLoopBook**: what the bookkeeping of the merge loop comes to: between rounds the book
describes the chain (`CountsExact`, `ListsExact`, ...), and a round uses its pair up. A sum of
frequencies is written as the number of the pairs of a slot and a number up to its
frequency, which is the form the proofs can use.

**BpeRefinement**: the mapping from `ParallelTask2` to `GreedyBPE`, and the properties
about the texts. The cuts of a word are its live slots (`LiveCut`). A round counts as done
when the pair is chosen: the mapping merges what the concrete round has still to merge
(`GreedyCuts`).

**QueueHeap**, **PriorityQueue**: `queue_heap` with an iteration of a sift as a step, and the
bag with a best element that it implements. `ParallelTask2` takes its queue as a
set from which any unbeaten entry comes out; that is what `PriorityQueue`
promises, so the two fit together. (`QueueCovers` shows that no state is in the
queue twice, so a set is enough.)

**VectorRegistry**, **Task2**: the sequential reference `task2.cpp`, and v3, which copies
it. The lookups and the recycling of groups are those of `PairRegistry`; a pair
keeps its positions in a vector that is only appended to. `Task2` takes every action
whose text is the same as in `parallel_task2.cpp` from `ParallelTask2` (`Loop!...`)
and defines what differs: choosing a pair, the edges of an occurrence, and for v3
the region (`TakeWord` gives any thread any word, `Resolve` captures the group of the
word's first occurrence) and the batch in `Join`. The variable `version` says which of the
two a behaviour is of.

**LockedTask2**: v2. An occurrence takes a thread four steps: `Read`, `RemoveCritical`,
`Surgery`, `AddCritical`; the critical sections are one step each, which is what
they exclude one another for. There are no groups and no replay.

**WordText**, **SplitWords**: words of the input, and the chunked scan. The bits of a byte,
the bytes of a chunk, the limit and the separators are constants. The subtraction
of `hasless_any` is done on numbers, borrows included, a chunk being the number its
bytes make.

**Task1**: `split_words`, then `task1`: chunked hash, chunked equality, counting and the sort. A
hash is what a constant operator, `Folded`, makes of the sequence of values mixed into it
(`Mixed`). Nothing is assumed of `Folded`, so unequal words may collide, and then
`ChunkedEq` alone decides, as in `std::unordered_map`. The run takes a hash of
three values, so nearly all words collide with others. `std::sort` may leave any order
in which no later key is less (`Sorted`).

**ParallelTask1**: the three `omp` loops with their barriers, an iteration of a thread as a
step, then the merge of the local tables. `schedule(static)` is modelled by the
contiguous blocks GCC's runtime deals out. A local hash table is a bag of words.

**Pipeline**: `run_cli` as a process with the failures it may meet: wrong arguments, a file
that cannot be opened or that shrinks after `tellg`, an input with too many slots, an
`output.txt` that cannot be created, a disk with room for some of the lines, a second
reading that fails. The tasks are taken at their word: task 1 hands over the tally
in any order, task 2 takes the steps of `GreedyBPE`. A line is the unit of the
stream's buffer and of the disk.

Definitions marked `Mutant:` in a comment are deliberately wrong variants. No
specification uses them; replacing the definition they are named after breaks the
property listed in `PROJECT.json` under `mutants`, which shows that the property
has teeth.

## 3. Runs

| run | cfg | distinct states | what it shows |
|---|---|---|---|
| `sequential` | `MCSequential` | 25 588 | below the threshold the incremental registry equals a recount after every round, and the loop is greedy BPE |
| `threads` | `MCThreads` | 3 193 | the same with two threads in the region, and the race-freedom properties, in every interleaving |
| `termination` | `MCTermination` | 568 | the loop ends (liveness) |
| `vectors` | `MCTask2` | 11 598 | `task2.cpp` and v3 are greedy BPE on exact counts |
| `locked` | `MCLockedTask2` | 13 961 | v2 is greedy BPE, and its registry is exact outside the words in the threads' hands |
| `heap` | `MCQueueHeap` | 7.9 k | the heap is a priority queue |
| `task1_sequential` | `MCTask1Seq` | 11 456 | the chunked scan finds the maximal runs, equal words are counted together, and colliding ones apart |
| `task1` | `MCTask1` | 4.8 k | three threads find and count the words of the sequential splitter |
| `pipeline` | `MCPipeline` | 5 116 | `output.txt` is a beginning of the one right result, and what exit code 0 promises |
| `short_team` | `MCShortTeam` | violation | a team smaller than `omp_get_max_threads()` leaves words unmerged |
| `short_team_split` | `MCTask1ShortTeam` | violation | a smaller team leaves chunks unscanned |
| `late_write` | `MCLateWrite` | violation | exit code 0 with an incomplete `output.txt` |

The properties, in the order a reader should take them:

* `ImplementsGreedyBPE` (refinement; of `ParallelTask2`, of `Task2` in both versions, of
  `LockedTask2`) and `ResultIsGreedy`: the tokenizer's promise. As all versions are greedy
  BPE, and greedy BPE has one result, they agree.
* `CountsExact`, `TokenCountsExact`, `ListsExact`, `GroupsExact`, `ChainIntact`: between rounds the
  incremental state is what recomputing it would give, list order included.
* `QueueCovers`, `OnlyNewbornsGrow`, `TextsUnique`: why the lazy queue finds the best pair,
  and why the order of births does not matter.
* `RoundUsesUpPair`, `NoAbort`, `NothingMergedAhead`: why emptying the list up front and
  replaying late are safe. `NothingMergedAhead` speaks of both kinds of round: of the list of a
  sequential one and of the events of the region.
* `GroupsSafe`, `HeldFresh`, `WordsNotShared`: why the surgery needs no lock (also proved).
* `LiveEdgesGrouped`, `RoundDrainsPair`: why v3 may leave stale entries in `edge_group`, and
  why every word that merged once has used up its group, which the batch takes for
  granted.
* `RegistryKeepsUp`: in the middle of a round of v2, the registry is exact for every word
  that no thread holds between its two critical sections (also proved).
* `MergeLoopEnds`, `EndsReported`: the loop ends; the program ends, and exit code 0 hides at
  most the loss of the last bufferful.
* `SiftOrder`, `ImplementsPriorityQueue`; `NoSeparatorSkipped`, `WordsExact`, `WordCountsExact`;
  `SplitExact`, `NothingLost`, `ResultExact` for the heap and the two versions of task 1.
* `OutputIsPrefix`: whatever fails, and in whatever order the hash table is gone
  through, `output.txt` holds a beginning of the result for the bytes that were read.

Bounds, and why they are enough:

* *Corpora.* `sequential` takes all ordered pairs of distinct words of 3-4 and 2-4
  bytes over two letters with two weightings. Two words are the least that let a
  pair be a candidate; four bytes over two letters give overlaps, a pair next to
  itself, a neighbour shared by two occurrences, groups that are freed and
  recycled. What these do not reach is added by name: `StaleCorpora` (outdated
  queue entries that are still eligible, corrected before and after another pair
  of the old count) and `LongCorpora` (a pair born twice in one word, ties behind
  the fingerprint, stamps of an earlier round). Each entry was added because a
  plausible bug was not visible without it. `vectors` and `locked` take those of these
  inputs that leave dead entries in the vectors, and triples and quadruples of
  words that share a pair, so that two threads meet in the registry.
* *FingerprintBytes = 2* instead of 8, so that texts longer than the fingerprint
  come up within four bytes and both branches of the comparison are taken.
* *kParallelThreshold* = 100 in `sequential` (no region), small in the others, so that
  runs have rounds of both kinds. In `threads` it is 4: a pair is merged only while two
  words have it, so three positions are the fewest of a sequential round with
  neighbouring occurrences in a word (`abab` and `ab`).
* *Threads.* Two with two or three words: each thread has a word, or one has two in
  either order. Independence of the threads for any number is a theorem (below).
* *QueueHeap.* Eight entries of three ranks: a full level of four children, one with
  children of its own, and many ties. `Capacity` is the only bound.
* *SplitWords, Task1.* Bytes of 3 bits (`Base` = 8) in chunks of 3 with the limit 3; the
  alphabet has two separators, the byte below the limit that is no separator, the
  limit itself and a byte with the top bit set: the cases the borrow and the mask
  distinguish. Inputs of up to four bytes have every alignment of a word to chunk
  and buffer end; the longer ones repeat words that span chunks, once with the
  buffer's end behind them. The hash, `SumModThree`, has three values: in one input two
  words that differ in a full chunk only have the same hash.
* *ParallelTask1.* Three threads, inputs of up to seven bytes: uneven, empty and
  word-cutting chunks; a NUL in the input.
* *Pipeline.* Seven files: none, only separators, one word, repeated words, words that
  merge, one with a NUL, one that `SlotLimit` = 10 refuses, and each cut short at
  every byte. `StreamBuffer` = 2 lines and `Rooms` from none to more than any result has,
  so that the disk fills up before, in and behind the last flush.

Modules that end have an explicit `Terminated` disjunct, so deadlock is checked in
every run.

### Fairness

`Spec` of `ParallelTask2` has weak fairness of the main thread's step and of each team
thread's step. The code has no lock and no condition variable in the loop: the
main thread is always running outside the region, and inside it no thread waits
for another except at the implicit barrier (`Join`). Weak fairness is what an
operating system that does not starve a runnable thread gives. `Pipeline` has weak
fairness of its step: it is one thread of control that waits for nothing but the
operating system. The other modules state no liveness and no fairness.

`termination` uses a smaller set of corpora (`ShortCorpora`) than `threads`: the tableau
evaluates the enabledness of every step, which is slow on longer words.

## 4. Findings

The first two come from reading `omp_get_max_threads()` outside a parallel region and
taking it for the size of the team. OpenMP promises only an upper bound: with
`OMP_DYNAMIC` or `OMP_THREAD_LIMIT` the region may get fewer threads. Nothing in the code
or the README rules these settings out, and the README tells the user to confirm the
result "at any thread count".

* `parallel_task2.cpp:559` owns a word by `word % omp_get_max_threads()`. The words of the
  missing thread numbers are never bucketed; their occurrences stay while the
  pair's list is already empty (`short_team`, `RegionMergesAll`).
* `parallel.cpp:39` takes a thread's chunk by its number, sized the same way: the last
  chunks are not scanned and their words vanish (`short_team_split`, `SplitExact`). The
  counting loop of the same function is an `omp for` and copes with any team.
* `output.cpp:16` tests the stream before its buffer has reached the file; the
  destructor's flush is tested by nobody, so a disk that fills up then leaves a short
  `output.txt` behind exit code 0 (`late_write`, `SuccessMeansWhole`). `pipeline` shows that no
  more than a bufferful can be lost so.

With the full team `task1` shows `SplitExact`, and `threads` shows `RoundUsesUpPair` and the
refinement, which fail if an occurrence is left behind.

## 5. Proofs

`tlapm` checks every obligation of eight modules. The theorems hold for every corpus or
input, byte range, number of threads, threshold, size of fingerprint, capacity and
width, and with no bound on the number of pairs or rounds. Those marked *full team*
assume `Team = Threads`; without it they are false, which is what the runs `short_team` and
`short_team_split` show. All others hold for any team.

| module | theorem | states |
|---|---|---|
| `ParallelTask2_proofs` | `Inductive` | `Spec => []IInv` |
| | `TypeCorrect` | `Spec => []TypeOK` |
| | `GroupsStaySafe` | `Spec => []GroupsSafe`: groups count their edges, none is recycled while in use, the free list neither branches nor loops, a cache never names a group that is not its pair's |
| | `NoStaleRead` | `Spec => []HeldFresh`: what a thread read still holds when it splices |
| | `WordsStayApart` | `Spec => []WordsNotShared` |
| | `ChainStaysIntact` | `Spec => []ChainIntact`: `next` leads from each live slot to the word's next live slot and `previous` back |
| | `StampsStayInTime` | a stamp of the current round names a pair born in it |
| | `EntriesStayHigh` | a pair has at most one queue entry, whose count is never below the pair's |
| | `NewbornsOnlyGrow` | `Spec => OnlyNewbornsGrow` |
| `BpeRefinement_proofs` | `BookKeepsUp` | `Spec => []EInv` |
| | `CountsNeverDrift`, `TokensNeverDrift` | `Spec => []CountsExact`, `Spec => []TokenCountsExact` |
| | `GroupsStayExact`, `NoGroupLeaks` | `Spec => []GroupsExact`; every group is in use or on the free list, once, in the middle of a replay too |
| | `NeverAborts`, `MergesLeftToRight` | `Spec => []NoAbort`, `Spec => []NothingMergedAhead` |
| | `ListsNeverLose` | *full team*: `ListsExact` |
| | `PairsAreUsedUp`, `RegionLeavesNone` | *full team*: `RoundUsesUpPair`, `RegionMergesAll` |
| | `QueueMissesNothing` | *full team*: `QueueCovers` |
| | `StrictTotalOrder`, `StagesAgree` | `strcmp` orders texts without NUL totally; fingerprint first, `strcmp` on a tie, is `strcmp` on the merged texts |
| | `MergeLoopIsGreedy` | *full team*: `ImplementsGreedyBPE`, the refinement of `GreedyBPE` |
| | `ReportsGreedyResult` | *full team*: `ResultIsGreedy`: the reported tokens are those of greedy BPE, counts and order included |
| | `TextsStayUnique` | *full team*: `TextsUnique`: no two tokens have the same text, no two pairs in use merge to the same |
| `LockedTask2_proofs` | `RegistryStaysExact` | `Spec => []RegistryKeepsUp`: v2's registry is exact for every word that no thread has between its critical sections, and v2 never aborts |
| | `ThreadsHoldFresh` | what a thread of v2 holds is still so when it uses it, and no two threads are in one word |
| `QueueHeap_proofs` | `TypeCorrect`, `OrderKept` | a sift stays in the heap, and leaves at most one place out of order |
| | `HeapImplements` | `Spec => ImplementsPriorityQueue` |
| `Task1_proofs` | `TypeCorrect`, `NoneSkipped` | the cursor is inside the buffer whenever a word is open; `Spec => []NoSeparatorSkipped` |
| | `WordsAreRuns` | `Spec => []WordsExact`: the words are the maximal runs, each a C string of its own |
| | `WordsCounted` | `Task1Spec => []WordCountsExact`: each distinct word once, with its number of occurrences, in `strcmp` order |
| `ParallelTask1_proofs` | `TypeCorrect` | `Spec => []TypeOK` |
| | `WordsFound`, `NothingIsLost`, `ResultIsTally` | *full team*: `SplitExact`, `NothingLost`, `ResultExact` |

`CountingLemmas` and `PairRegistry_proofs` hold the lemmas these rest on.

Assumptions: `NoPositionAssumption` (the sentinel is no index), `HeldAssumption` (an occurrence a
thread holds is not the sentinel), `FingerprintAssumption`, `CorpusAssumption` (corpora are
sequences of words with natural counts), `ByteAssumption`, `ThreadAssumption` (the team is part
of `0..max_threads-1`), `ThresholdAssumption`, `OrderAssumption` (`comp` is a strict weak
order, which `StrictTotalOrder` gives for the code's), `CapacityAssumption`,
`WidthAssumption` (a chunk has a byte, the limit is no more than the top bit of a byte,
the separators are below it), `SeparatorAssumption` (the NUL is one) and the assumptions on
inputs (they are bytes). TLC evaluates all of them.

### The merge loop is safe

None of the properties of the first group is inductive alone. `GroupsSafe` needs that an
edge is never added where one is registered, which is a fact about the chain and about
the events in flight. So `IInv` adds

* `ChainOrdered`, `ChainLinked`: links stay in the word, `next` leads right, live links are
  inverse. From these a splice touches only the four slots it names.
* `TokensKnown`, `PairsKnown`: tokens, keys, queue entries and `best` name something.
* `BuildAhead`, `WalkCursor`: `build_state` has registered nothing at or after its cursor.
* `EndsFree`: the last live slot of a word has no edge, unless the merge that made it
  the last is still in an event.
* `EventsSound`: an event still describes the chain and the book as the replay will
  find them, however many later splices the threads made.
* `ThreadsOwn`, `ThreadsIdle`: a thread holds and records only words it owns, and none
  holds anything outside the region. With distinct owners this gives that another
  thread's `Apply` leaves `held[t]` true, which is `HeldFresh`.

`PairRegistry_proofs` proves, per operator of the registry, that it keeps the book typed
and its groups sound, and what it changes of `edge_group`, of the counts, of the lists and
of the stamps. Two more arguments rest on `IInv`. *The chain*: `Follows(p, q)` says
that no live slot lies between `p` and `q`; a splice removes one slot and joins what
was left of it to what was right of it, whatever else other threads splice in other
words. *The counts*: `RInv` says that a stamp equal to the round's token names a
newborn, that queue entries are of pairs born before the round, one to a pair, and
never below the pair's count. Every operator of the registry either leaves
the count of a pair, lowers it, or raises that of a newborn; the stamps are
what makes a lookup in the middle of a round return a newborn.

### The book is exact

`EInv` (stated in `ParallelTask2_proofs`, whose last part and `BpeRefinement_proofs` share
the steps) says what the book is when it is *not* up to date: it is, counts, groups and lists
alike, that of the chain as it was before the merges whose events are still to be
replayed. `EventsFit` says that the pending events of a word undo, last to first, to such a chain;
an `Apply` appends an event that fits and a `ReplayEvent` takes the first one off.
Then one round trip of the registry (`RemoveEdges`, then `AddEdges`) is compared with one
splice: at most three edges leave their pairs and at most two new ones join newborn
pairs (`RemovesExact`, `AddsExact`). The rest of `EInv` is what this comparison needs:

* positions are in order, those of a word together and from left to right, and so are
  the lists, so that the leftmost of two overlapping occurrences is merged and a newborn
  pair's list grows at its end only;
* keys are unique, and the stamps of a round know every newborn pair by its key, so that
  a lookup in the middle of a round finds a pair exactly if there is one;
* an edge that an event removes is registered and counted, so the conditions on which
  `remove_edge` aborts never hold;
* between the merges of a sequential round what is merged of a word is left of what is to
  come (`MergedBehind`, proved by itself), as it is in a region by the order of the
  events: so no merge, in either kind of round, has the merged token on its right;
* with the full team every occurrence still unmerged is ahead of a thread (held, in its
  current word, or in its bucket), so that none is left at the barrier.

Lists and the free list are followed by recursive functions in the properties. The
invariant states them by *ranks* instead: members are numbered so that links lead from
a number to the next. A list is then found again by the least place at which
the walk and the ranks would differ. `TInv` is a separate invariant for `token_count`: what
is counted so far is the weight of the slots, corrected by what the region
owes until its reduction at the barrier.

### The loop is greedy BPE

The book speaks of pairs of token numbers, greedy BPE of pairs of texts. They agree if no
two tokens have the same text, which is not obvious: `a` with `bc` and `ab` with `c`
would both make `abc`. That it cannot happen is a property of left-to-right merging:

* `CutsAlike`: two stretches that stand between cuts and read alike are cut alike, in the
  same word or in two. A round keeps this (`MergedAlike`, by the least place at which
  the cuts of the two stretches would differ).
* `TextsWhole`: so a text that is a token somewhere is never found cut in two elsewhere.
  Merging a pair makes its text whole everywhere (`MergedWhole`), and no later
  round cuts a text that was whole (`MergedStaysWhole`).
* `TextsApart`: hence what a pair will merge to, which still stands in two parts, is none
  of the texts in the vocabulary (`MergedNew`); `NewText` keeps this from the
  choice of the pair to the moment its token is appended.
* `Spelt`: a live token's text is what stands between its cut and the next.

Their conjunction with `VocabularyTexts` is the invariant `SInv`. A step that merges one
occurrence leaves `GreedyCuts` as they are (`OneMerged`), provided no occurrence that overlaps it
on the left is still to come; this is where the order of the lists, and of a thread's
positions, enters (`LeftMergedFirst`, `LeftAppliedFirst`). At the end of a round nothing is
left to merge (`NothingToMerge`, from `RoundUsesUpPair`), so the mapping falls back to the
live slots. Thus all steps stutter but two. `PopBest` is `Merge`: the eligible pairs of the
book are the candidates (`CandidatesAre`), with the same counts, and the entry that none
in the queue beats has an exact count, so by `QueueCovers` it is the one best
(`TopIsBest`). `Finish` is `Halt`: an empty queue leaves no candidate. For the result,
`Ranked` shows that numbering tokens by how many rank before them lists each once,
in order, and `TextCounts` that `token_count` of a token is the weight of its text.

### v2's registry keeps up

`RegistryKeepsUp` says nothing of a word in a thread's hands, so it is not inductive: the
second critical section must be shown to leave the word exact. `LInv` says instead what the
registry holds of *every* word at every moment. `Registered` is the set of live slots behind
the cursor of `build_state` whose pair the registry holds: all of them, but for the left
neighbour, the position and the right slot of each occurrence that a thread has between its two
critical sections (`Touched`). `BookSound` says that the book describes exactly that
set (`Describes`): a pair for each key in it, no key twice, `word_edges` the number of its
members of a word and a key, `word_count` and `count` the totals of `word_edges`. In a
settled word `Registered` is all there is, which is `RegistryKeepsUp` (`InvKeepsUp`).

* One call of `remove_edge_v2` takes one member out of the described set, one call of
  `add_edge_v2` puts one in (`RemoveOne`, `AddOne`). A member that is taken out is
  counted, by at least its frequency, so no abort is reached. The three removals of the first
  section and the two additions of the second are chains of these (`WithoutEvent`,
  `WithEvent`).
* The surgery between them changes no key of a registered slot: what it changes is
  `Touched`. So the book describes the chain before and after it.
* That a thread's three slots are what it read needs `HeldSound`: with `ReadFresh` what
  it read before the first section is still so, and with `WriteFresh` what it is about to
  register is what stands in the chain. Another thread's step leaves both true, as it is in
  another word (`WordsApart`: a word is in the loop's remaining words or with one thread) and links
  stay inside a word (`ChainSound`).
* `BuildSound` says that slots ahead of the cursor are still as laid out, so
  that `build_state` registers each once; `StatesKnown` that the queue and `best` name pairs.

The theorem assumes nothing of the team: in v2 the words of a missing thread are taken
by the others, so the finding about `omp_get_max_threads()` does not concern it.

### The heap, the chunks and the order of texts

**The heap.** `SiftOrder` with `TypeOK` is inductive: while `i` sifts up, every other place
is in order with its parent, and the children of `i` are in order with its parent as
well; while it sifts down, likewise. At rest no place beats its parent, so none beats the
top: the least place that did would have a parent that does too. The mapping to
`PriorityQueue` sends the vector to the bag of its entries, and an exchange to a
stutter, by a bijection between the places of an entry before and after.

**The scan.** `hasless_any` subtracts `limit` from every byte of a chunk at once. `Peel` and
`LowBytesStay` take a number apart byte by byte; `MarksExact` shows that below the
lowest byte under the limit no borrow arises, so the lowest mark is the lowest byte
under the limit, and marks above it may be wrong. The invariant adds to
`NoSeparatorSkipped` that the buffer from the cursor on is still the input (`Ahead`), that the
words found are the word starts up to the cursor in order, and that every word before
the cursor has its NUL (`Ended`).

**Hash and equality.** Both are recursive functions, unfolded one chunk at a time
(`HashUnfolds`, `EqUnfolds`). `PackedLow` says that the mask leaves the number of the bytes
it covers, and `ZeroMarks` that the lowest mark of `haszero` is the first NUL, also in the
union of the marks of two chunks. So with `r` bytes of a word left a chunk either has no
NUL and all its bytes belong to the word, or its first NUL is at `r` and the mask
cuts it there (`ChunkDecides`); fewer bytes than a chunk before the end of the buffer
are read by the single-byte loop, with the same value (`HashString`). By descent on the bytes
left, equal words feed the hash alike wherever they stand (`HashesAgree`) and `ChunkedEq` is
equality of the words (`EqIsEquality`), whether or not they collide: what is behind a NUL does
not matter. Hence at most one key stands for a word, and it is found, for every `Folded`
(`KeyFinds`). The invariant of the counting loop (`Tallied`)
has one key for each distinct word counted so far, with its number of occurrences, and
`ByteStrLess` on keys is `strcmp` on the words (`LessIsStrcmp`), which never ties.

**The tie-break.** Two texts differ first at some place; the fingerprints order them the
same way if that place is inside them and are equal otherwise.

### The parallel word counter

Stretches and chunks are *cuts*, functions from `0..m` that never fall, and so divide
`0..n-1` (`StretchDivides`, `ChunkDivides`). While the threads mark, each byte is as read or
already NUL (`Marked`), and each list holds the word starts of the part of its chunk that was
scanned, in order (`Scanned`); concatenated in thread order they are those of the input.
The sum behind `NothingLost` is inductive as it stands (`CInv`): a step takes one place from
the uncounted to a local map, or one local map to the merged one. When it ends nothing is
uncounted or unmerged, so what is merged is the tally.

### Induction, sums and sorting

The general induction theorems of the library take an operator as a parameter, which no
installed prover instantiates. `Least` of `CountingLemmas` (a set of naturals that is
not empty has a least element), which follows from well-foundedness of `<`, takes a
set and serves instead: a claim that fails somewhere fails at a least place; `Climb` is the
same for a set closed under successor. A fold cannot be reasoned about in this way, so
sums are written as cardinalities; sorting has no definition the provers see, so "in
order" is stated (`InOrder`) instead of compared with a sorted list.

Only model-checked: the properties of `Task2` (`task2.cpp` and v3: `CountsExact`,
`LiveEdgesGrouped`, `RoundDrainsPair` and its refinement of `GreedyBPE`), the refinement of
`GreedyBPE` by `LockedTask2`, the properties of `Pipeline`, and all liveness (which needs
fairness and `ENABLED`). `OutputIsPrefix` compares with a result computed by a recursive function over
the rounds and with a sorted list, so it needs induction over both.

## 6. Not modelled

* MD5: a fixed function of bytes, in a line of the log only; its 32-bit arithmetic on
  blocks of 64 bytes is out of TLC's useful range.
* `print_task1`, which the program does not call; logging and time measurement.
* `std::bad_alloc`: an allocation always succeeds.
* Ids and counts are unbounded naturals. `build_state` refuses inputs with 2^32 slots or
  more (a step of `Pipeline`, with a small limit); that the numbers of states and groups
  then fit too is not checked. Counts are 64 bits wide and do not overflow for an
  input that fits in memory. `build_state`'s refusal of a NUL byte cannot happen behind
  task 1, as the NUL is a separator.
* Which words collide in task 1's hash: the arithmetic of FNV-1a is replaced by any function
  of the mixed values (`Folded`). How long a chain of colliding words takes is not modelled.
* The tests, build and benchmark scripts, and the vendored Abseil and GoogleTest, which
  are most of the lines of the repository: they are used for logging, hash tables
  and testing, and are taken at their documentation.

## 7. Plan

All parts with state of the program are modelled. What is left is proof:

1. The registry of `Task2` and the refinements of `GreedyBPE` by `Task2` and `LockedTask2`; the
   lemmas about texts and cuts in `BpeRefinement_proofs` do not depend on the registry.
2. `OutputIsPrefix` of `Pipeline`, as far as it can be said without the recursive
   reference and the sorting: that what reaches the disk is a beginning of what was sent.
