# A TLA+ model of fastvec

fastvec is an in-memory vector index in Go: an HNSW graph that is built by one
goroutine or by several, searched by any number of them, saved to a file and
loaded again, next to an exact scan that ground truth is computed with. This
directory holds TLA+ modules translated from its source, the TLC
configurations that check them on small instances, and proofs of the main
results for every value of the constants. Paths below are relative to `src/`.

To check a run: `tlc -workers 2 -config BuildParallel.cfg MCHnswBuild.tla` (the
table under "Runs" names the module and the configuration of each). To check
the proofs of a module: `tlapm HnswBuildProofs.tla`.

## 1. The system

### Components, their state and their operations

| component | source | state | operations |
|---|---|---|---|
| Index construction | `internal/index/hnsw.go:130-444` | adjacency lists `links`, `entry`, `maxLevel`, one mutex per node, one for the top | `BuildHNSW`, `buildParallel`, `insertAt`, `setOwn`, `link`, `raiseTop`, `compactBottom` |
| Layer search | `hnsw.go:446-560` | none of its own: it works in a borrowed workspace | `descend`, `searchLayer`, `selectNeighbours` |
| Workspaces | `internal/index/workspace.go` | stamps, epoch, candidates, collector, in a `sync.Pool` | `newWorkspace`, `begin`, pool `Get` and `Put` |
| Queries | `hnsw.go:562-640` | the atomic `efSearch` | `Search`, `SetEfSearch` |
| Collector, candidate heap | `internal/topk/topk.go`, `internal/index/candidates.go` | a bounded max-heap, a min-heap | `Add`, `Worst`, `Results`, `push`, `pop` |
| Exact search | `internal/index/flat.go` | none; a `Flat` never changes | `Search`, `SearchN` |
| Index file | `internal/index/store.go` | a file | `Save`, `LoadHNSWWithOptions` |
| Cache validation | `internal/index/compatibility.go` | none | `ValidateReuse` |
| Benchmark command | `cmd/fastvec-bench/main.go` | the index cache file, the report | `validateDataset`, `loadOrBuild`, the sweep over `-ef` |
| Throughput measurement | `cmd/fastvec-bench/timing.go` | the repeat count, the clock | `measureThroughput` |
| Subset command | `cmd/fastvec-subset` | the base, query and ground-truth files | `run`, `writeFvecs`, `writeIvecs` |
| Dataset files | `internal/fvecs` | an open file, the dimension and count it promised | `ReadFloat`, `ReadInt`, `open`, `record` |
| Distance kernels | `internal/distance` | none | `L2Squared` |
| Diagnostics, environment, Python tools | `internal/index/counter_*.go`, `internal/benchenv`, `py/` | none that the index depends on | counting, reporting, plotting |

### How they interact

* `BuildHNSW` draws every node's level first, in ID order, and then inserts the
  nodes. In a parallel build goroutines take IDs from a channel and run
  `insertAt` at the same time on the shared lists. The critical sections are
  small and never nested: reading one list, storing one list, appending to one
  list and pruning it, reading the top, raising the top. Everything a goroutine
  knows between two of them may be old.
* `insertAt` and `Search` borrow a workspace from a pool and return it. A
  workspace is not cleaned when it goes back, only made unrecognisable: its
  epoch moves on when the next layer search begins.
* After the last insertion the bottom layer is packed into one slice, and from
  then on the index is immutable, so that queries read it without locks.
* `SearchN` starts goroutines that each fill a collector of their own, waits
  for them and merges.
* A load may read the graph part of its input twice: once to learn how large
  the bottom layer is, once to fill it in. Nothing keeps the input from changing
  in between.
* The benchmark keeps an index between runs in a file that it loads if it is
  there and creates if it is not.
* The subset command writes three files one after the other, which the benchmark
  reads by name. Nothing ties the three together but their sizes.

### What is hard about it

* **Interleavings of the build.** An insertion meets nodes that are in the
  middle of being inserted; two insertions append to, prune and overwrite the
  same list; the top is read once and used until the insertion ends.
* **Recycling.** Stamps of any age lie in a workspace, and the 16-bit epoch
  comes back to every value.
* **Splitting the exact scan.** Uneven chunks, fewer rows than workers,
  collectors smaller than the answer, ties.
* **Input that lies.** IDs that are negative once they are `int32`, sizes that
  do not agree with the first pass, a file that ends anywhere.
* **The cache.** Runs that fail half-way through a save, or that save at once.
* **A width that changes.** `SetEfSearch` may be called while searches run.
* **Distances that are no order.** A vector file may hold NaN, and every
  comparison with the distance to such a vector is false.
* **Files that change while they are read,** or were left by a run that died.
* **Any clock.** It may stand still or go backwards; the repeat count doubles.

### What makes each component correct

* Construction: every edge leads to a node with a list at that layer, however
  the goroutines interleave; no list outgrows its cap; no edge disappears but
  by a prune that had a reason to drop it; no slot of a list is spent twice; the
  entry is always an inserted node and the tallest; every node can be reached
  and left at the bottom; each build ends.
* Workspaces: a workspace has one user; a layer search sees only its own marks,
  candidates and results, whatever was left behind.
* Exact search: the answer is the k nearest rows, for any number of goroutines,
  and every call returns.
* Index file: a load ends; it hands out an index only if searches can walk it
  safely; the packed bottom layer and the lists agree.
* Cache: runs that race for a missing file leave a complete one unless one is
  cut short; a complete file that nobody is about to create again is never
  touched; a run that finds one uses it exactly if it is the index it would
  have built.
* Queries: an answer has the k nodes asked for if so many can be reached, is the
  best in its neighbourhood, and is exact about what can be reached if the width
  is that of the index; one search has one width, and returns.
* Heaps: each item is in its place with regard to its parent, NaN or not, and a
  search with heaps is one with sorted sets.
* Dataset: recall is measured against true answers, if one run computed them over
  at least the vectors that are read.
* Throughput: a point's rate is that of the queries that ran in its interval.

The hazards this correctness is exposed to are listed one by one, each at the
line where it bites, in `PROJECT.json`.

## 2. Modules

| module | models | role |
|---|---|---|
| `Ranking` | `topk.Before`, what a collector holds, `selectNeighbours` | shared definitions of order and choice |
| `HnswBuild` | `BuildHNSW` and everything it calls | the core |
| `Assembly` | | what the build promises, abstractly |
| `HnswBuildProofs` | | proofs about `HnswBuild` |
| `Workspace` | `workspace.go`, its users in `hnsw.go` | recycled scratch space |
| `LayerSearch` | | what a search may take for granted, abstractly |
| `WorkspaceProofs` | | proofs about `Workspace` |
| `FlatSearch` | `Flat.Search`, `Flat.SearchN` | exact search |
| `FlatSearchProofs` | | proofs about `FlatSearch` |
| `FinishedIndex` | the index that is searched, arguments and widths | what queries run on |
| `Query` | `HNSW.Search`, `SetEfSearch`, with sets | what a query promises |
| `QueryHeaps` | the same with `candidates.go` and `topk.go`, item by item, and NaN | how it is done; implements `Query` |
| `QueryProofs` | | proofs about `Query` |
| `QueryHeapsProofs` | | proofs about `QueryHeaps`, and that it implements `Query` |
| `Loader` | `LoadHNSWWithOptions` and what it calls; the graph part of `Save` | reading an index file |
| `LoaderProofs` | | proofs about `Loader` |
| `IndexCache` | `loadOrBuild`, with `Save`, the load and `ValidateReuse` as processes use them | the cache file that runs share |
| `IndexCacheProofs` | | proofs about `IndexCache` |
| `Dataset` | `cmd/fastvec-subset`, `internal/fvecs`, `validateDataset` | the dataset's files |
| `Throughput` | the sweep, `measureThroughput` | measuring |
| `Benchmark` | a run of the benchmark | composes `Dataset` and `Throughput` |
| `BenchmarkProofs` | | proofs about `Benchmark`, `Dataset` and `Throughput` |
| `MC...` | | small instances for TLC |

`HnswBuild` and `Workspace` describe the same searches from two sides.
`HnswBuild` gives each call its own seen set, candidates and results;
`Workspace` shows that the recycled ones are as good as that
(`SearchesIndependent`, proved as `Independence`), which is what entitles
`HnswBuild` to leave the pool out. `Query` leaves it out on the same ground. What
`Query` assumes of an index, that its lists can be followed, is what `HnswBuild`
(`SafeToFollow`, `TopIsTallest`) and `Loader` (`LoadedSafe`) establish.

A definition whose name is not reached from any `Next` and whose comment calls
it a mistake (`OwnListOverwritten`, `LaunchOneShort`, ...) is a plausible bug,
kept next to the right version. `PROJECT.json` pairs each checked property with
such a mistake: put in place of the right definition, it makes TLC report the
property as violated, so every property is known to have teeth.

### HnswBuild and the code

| model | code |
|---|---|
| `level` | the levels `randomLevel` draws; any assignment in `LevelDraws` |
| `allocated` | nodes whose `h.links[id]` has been made |
| `links[x][l]` | `h.links[x][l]`, as a set |
| `entry`, `maxLevel` | the fields of the same names |
| `next` | the number of the next ID on the channel, or of the sequential loop |
| `work[w]` | the locals of the `insertAt` a goroutine is in, and which critical section it comes to next |
| `ready` | `BuildHNSW` has returned |
| `Receive` | the receive from the channel, `make` of the node's lists |
| `ReadTop` | `topOfIndex`, then the choice between descending and linking |
| `DescendMove`, `DescendDrop` | one `neighbours` read in `descend`, with a move or without |
| `Expand` | one turn of `searchLayer`'s loop |
| `SetOwn` | `selectNeighbours` and `setOwn` |
| `Link` | one call of `link` |
| `Raise` | `raiseTop`, and the return of `insertAt` |
| `Finish` | `wg.Wait` (or the end of the loop), `compactBottom` |

One action is one critical section together with the private computation up to
the next one. This loses no behaviour: no mutex is taken while another is held,
and what happens between two sections touches only the goroutine's own
workspace. Publishing a node's lists (`make`) is joined with receiving its ID:
until a goroutine links to the node nothing else refers to it.

Abstractions, and why they are harmless:

* a vector is its row number, and the distance of two vectors is an arbitrary
  natural number; the code only ever compares distances. NaN is excluded here;
  `QueryHeaps` is about searches that meet it;
* a list is a set. The code could put an ID in a list twice; `NoDoubleEntry` is
  the proved fact that it never does. The order of a list decides only which
  of several neighbours `searchLayer` examines first, and `Expand` allows every
  outcome of every order;
* the cap `Ef` is at most `N`: a collector never holds more results than there
  are nodes;
* the checks of `BuildHNSW` on its parameters are assumptions on constants
  (`ParamsAssumption`); a build that is refused has no behaviour to study.

`Call` resets the fields that the rest of a call does not read, so that one
program state is one model state.

### Workspace and the code

`stamp`, `size`, `epoch`, `cand`, `res` and `cap` are the fields of `workspace`
(`size` is the length of the stamp slice, `cap` the capacity of the collector, 0
while it is nil); `pool` is the `sync.Pool`; `holder`, `nodes` and `ef` are what
a goroutine holds and the arguments of the layer search it is in. `Get` and
`New` are the two outcomes of `pool.Get`, `Begin` is `begin`, `Meet` and `Pop`
are what `searchLayer` does to the workspace for a neighbour and for a
candidate, `Put` is `pool.Put`, `Drop` is the garbage collector, which may
empty a pool at any time (external: modelled from how the code uses the pool).
Which neighbours a search meets is left open, so the results hold for any graph.
`Put` is the last step of a search: `Results` has copied the answer out of the
collector by then, and nothing after `pool.Put` touches the workspace. `Unshared`
is about the steps before; it could not show a result that is a view of it.
One workspace may see different node counts (`Sizes`): that is what `begin`'s
reallocation is for.

### FlatSearch and the code

`Launch` is one turn of the loop in `SearchN` that starts goroutines, `Scan` one
row of `scan`, `Publish` the write of a goroutine's results followed by
`wg.Done`, `Merge` one `Add` into the merging collector, `Return` the return.
`Search` is the case of one hand, which `SearchN` falls back to when there is
nothing to split. The collectors hold sets; `Before` is a total order, so the
set determines the list that `Results` sorts. That each collector keeps the best
of what it was offered is not assumed: `Takes` is one `Add`, and `IInv` states
what the `Add`s amount to.

### Loader and the code

An action reads one unit of the input: the header, the level bytes, one size
word, one ID, the vectors. What it reads is any word, independently of what was
read before, so the runs cover every input there can be, well-formed or not, and
one that changes between the passes. Words are unsigned, `MaxInt` is the largest
that is not negative once `Signed` has made it an `int32`. `twoPass` is the
decision made from `SinglePass` and from whether the input seeks; `Rewind` is the
seek back. `Pack` is one turn of `compactBottom`'s loop, which a load in one pass
ends with. A failed load keeps nothing, as the code returns nil.

Two variables are history: `owed`, the IDs that the size words read so far have
announced, less the IDs read; and `taken`, the words that the lists were made
of. `GraphWords` is what `Save` would write of those lists, node by node
(`NodeWords`), layer by layer (`LayerWords`), and `SavesBack` says that it is the
same words.

### IndexCache and the code

Each run of the benchmark is a process `r`; `want[r]` is the index its dataset
and settings determine (the benchmark builds sequentially, so they do), and
`present` and `file` are the path. `file` is a sequence of blocks. A block is
named by the index it belongs to, and stands for its own part of it: a save
writes block `i` at position `i`, at the offset of its own descriptor, whatever
has happened to the file. `Zeros` is what the system returns for a gap.

`Open` is `os.Open`, which decides once and for all between loading and
building. `Create` is the end of the build and `os.Create`, which empties a file
that is there by now, followed by the checks with which `Save` refuses settings
that do not fit in 32 bits: by then the file has been made. `Write` is the next
block of `Save`; `Stop` is a kill or any I/O error. `ReadFirst` and `ReadOn`
are the load under both policies (`Place` is where the second pass reads), and
at its end `ValidateReuse`. The ends of a run are told apart in `phase`:
`unreadable`, `mismatch`, `stopped`, `cut` (while saving, or refused by `Save`).

Left out, or assumed:

* a file put together from two indexes is unreadable. The vectors come last and
  are compared bit for bit, so that all sizes before them would have to agree;
  what a load accepts word for word is the subject of `Loader`;
* an error that only `Close` reports, which the code drops;
* somebody who removes the file meanwhile, which is what a mismatch asks for;
* `met` is a history variable: what was at the path when the run opened it.

### Query, QueryHeaps and the code

A call of `Search` is a record `search[c]`: its arguments, the width it read
(`width`), where it is above the bottom (`ep`, `lc`), and `searchLayer`'s locals
at the bottom (`seen`, `cand`, `found`). `ReadWidth` is the load of `efSearch`
and the raise to k; it is the one access to state that another goroutine
writes, which is why everything else may be an action of any size. `Descend`
(`DescendMove`, `DescendDrop`) is one walk over a list in `descend`, `Expand` one
turn of `searchLayer`'s loop, `Answer` its end, `Results` and the cut to k.
What `Search` refuses (a query of another dimension, k < 1) has no behaviour to
study and is an assumption on `Asks`.

`Query` says what may happen in terms of sets ordered by `Before`: which of the
neighbours enter the queue depends on the order of the list, and `Takes` allows
what every order leads to. `QueryHeaps` walks the lists in their order and keeps
both heaps as the code does: `Push` is `push` and the growing branch of `Add`,
`Pop` is `pop`, `Add` the replacement of the root, `Up` and `Down` the sifting,
with item i's children at 2i and 2i+1. `Less` and `Ranks` are comparisons of
which every one with NaN is false. At the end of `QueryHeaps` is the mapping
under which it implements `Query` (`Implements`); a call that may meet NaN is
mapped to one that does nothing, since there is no order for `Query` to speak
of. `Turn` in `Query` is there for that: a caller may go from a call that `Query`
sees to one that it does not. `LocallyBest` and `ExactIfWide` are stated in
`Query` and checked through the mapping; `HeapsHold`, `Enough` and `Returns` are
checked with NaN as well.

### Dataset, Throughput, Benchmark and the code

A file is a sequence of words and not of bytes. A word carries the setting of
the run that wrote it (`by`), which no guard looks at: it is there for
`RealTruth`. `WordAt` is the word that a run with some setting puts at some place.
`Begin` and `Create` are `os.Create` of the base file and of the other two, `Write`
one record, `End` the end of a run or its death, with part of a record written or
not. What a run computes before it writes the third file is `Ranked`, in terms
of `Before`: that `SearchN` is exact is `FlatSearch`'s result. `Open` is the first
half of `fvecs.open`; `ReadWord` is one word of the rest of it and of `record`,
for the three files in the order of the code. The file may change between two
words: the reader is buffered, and a read of the buffer's ends where it is full
or where the file ended just then, also within a record. `Validate` is
`validateDataset`.

`NextWidth` is the head of the sweep's loop, `Sweep` one pass over the queries
inside `measureThroughput`, `Stop` the second reading of the clock, `GiveUp` the
checks before an attempt, `Latency` the second pass over the queries, which
counts recall. `ran` counts the queries that really ran, while `timed` in a point
is computed as the code does it, in 64 bits. `Benchmark` starts measuring when
the dataset has been accepted.

## 3. Runs

| run | configuration | asks |
|---|---|---|
| `build_parallel` | `BuildParallel.cfg` | Is a parallel build safe at every interleaving when every list overflows? |
| `build_roomy` | `BuildRoomy.cfg` | If nothing overflows, is the result one piece, although layers are entered through nodes not linked there yet? |
| `build_assembles` | `BuildAssembles.cfg` | Does every build end, with duplicates and ties too, and amount to inserting the nodes one by one? |
| `build_sequential` | `BuildSequential.cfg` | Is the sequential build right where the parallel one takes a different branch? |
| `build_stale_top` | `BuildStaleTop.cfg` | Is a node linked in every layer it shares in a parallel build too? No (section 6). |
| `workspace` | `Workspace.cfg` | Do recycled workspaces behave like new ones? |
| `flat_search` | `FlatSearch.cfg` | Is the split exact scan exact? |
| `load` | `Loader.cfg` | Is whatever a load returns safe to search? |
| `cache` | `IndexCache.cfg` | Do runs that share a cache file, and may die at any time, spoil it for each other? |
| `cache_cut` | `CacheCut.cfg` | Does a run build when what it finds is no saved index? No (section 6). |
| `query` | `Query.cfg` | Do searches with heaps, on any width, return what they should, and return at all? |
| `bench` | `Benchmark.cfg` | Does a benchmark that is not refused measure recall against true answers, and real rates? |

### Bounds, and why they are enough

* `build_parallel`: five vectors in two clusters, two goroutines, two layers,
  all 32 level assignments, caps of 2. With `M = 2` (the least the code accepts)
  and `mMax0 = 2` every third link to a node prunes; the two clusters make the
  heuristic drop candidates because they are covered and not only for want of
  room. The properties concern pairs of steps on one list, or one node and the
  top; two goroutines show all of these.
* `build_roomy`: four vectors, three goroutines, three layers, caps of 3: the
  largest lists there can be just fit. Three goroutines let a node be met that
  is being linked to by a third one meanwhile.
* `build_assembles`: four vectors of which two are equal and two equidistant
  from them: the only distances at which a walk could circle.
* `build_sequential`: six vectors, three layers, nearest-M, `mMax0 > mMax`.
* `workspace`: two goroutines, two workspaces, sizes 1 and 2, widths 1 and 2,
  epochs up to 2. The epoch wraps every third search, so that a workspace is put
  back and borrowed again across wraps, also after it was used for fewer nodes.
* `flat_search`: five rows, three workers (chunks of 2, 2 and 1), k = 3, so that
  a chunk may hold fewer rows than k, and every pattern of distances up to 2, so
  that ties occur within and across chunks.
* `load`: 3-bit words, of which four are negative as signed ones, up to two
  nodes and layers, headers with every field on both sides of each check.
* `cache`: three runs, of which one loads in a single pass, so that two may race
  and a third read what they leave; three settings, with files of three and
  four blocks and with none that can be stored. Three blocks are the least with
  which the second pass differs from the first. `cache_cut` needs two runs.
* `query`: six nodes, the least with which a heap has three levels; three
  indexes: one where all is linked to all, a ring with a shortcut under a layer of
  three, and one whose lists only lead one way, so that not all is reached. Queries
  have distances in and against ID order, ties, and NaN for one node or for all.
  Widths and k lie below and above each other and the number of nodes. One caller
  is enough: calls have nothing in common but `efSearch`, which may be set between
  any two steps, and nothing they read is written.
* `bench`: a source of three vectors of dimension 1; two runs of the subset command, the second
  of which may be another setting, with fewer vectors or fewer queries and more
  answers, so that what one leaves can be read as a file of the other; answers
  that are the first vectors and answers that are not. A clock that goes back,
  stands still, or moves on; two widths, of which one is below k; up to four
  repeats, with 4-bit integers, so that the count of two queries overflows.

Deadlock is checked in all runs but the two of the cache and `bench`, where
every process may have ended.

No state variable grows without bound in any module, so no counter had to be
capped by a guard. The bounds are the constants `N`, `MaxLayer`, `LevelDraws`,
`MaxEpoch`, `Count`, `Farthest`, `MaxInt`, `MaxByte`, `MaxElements`, `Headers`,
`Indexes`, `Widths`, `Asks`, `Settings`, `Dim`, `MaxDim`, `K`, `Efs`, `MaxRepeats`, `Least`,
`Elapses`.

Worker symmetry is used in `build_parallel` and `build_roomy`, and symmetry of
workspaces and goroutines in `workspace`; none of these checks liveness.

### What each property says

Each property is stated in words above its definition. In short:

* `SafeToFollow`, `WalkInBounds`: no goroutine ever indexes a list that is not
  there, and no node is its own neighbour.
* `DegreeCap`, `NoDoubleEntry`, `NoSilentEdgeLoss`: the lists are within their
  caps, without repetitions, and lose edges only for a reason.
* `TopIsTallest`: entry and height belong together and are the greatest.
* `HasWayOut`, `OnePiece`, `EveryLayerLinked`: nodes are linked up.
* `BuildAssembles`, `BuildEnds`: the build as a whole.
* `Unshared`, `StampsPast`, `OwnWork`, `SearchesIndependent`: recycling.
* `Exact`, `Tiled`, `Answers`: the split scan.
* `LoadedSafe`, `Aligned`, `BottomAgrees`, `LoadEnds`: loading. `SavesBack`: a load
  and `Save` mean the same by a file.
* `IntactUnlessCut`, `SettledStays`, `SettledIsReused`: the cache file.
* `Enough`, `LocallyBest`, `ExactIfWide`, `Returns`: what a query returns.
  `HeapsHold`, `Implements`: that its heaps are heaps and as good as sorted sets.
* `RealTruth`, `Measured`, `Ends`: a benchmark's dataset, as far as one run computed
  its answers over at least the vectors read; its rates; its end.
* `IInv` in a run is the inductive invariant of the proofs, checked by TLC
  before it was proved.

`HasWayOut` is stated with care: until the build is over the first node may be
without a neighbour at the bottom, although other nodes are in place. They met
each other there through a taller node that is still being inserted.

`OnePiece` assumes that no cap is reached. With pruning it is not true, and the
code does not claim it (`Reachable` exists to measure it).

## 4. Fairness

* `HnswBuild`: weak fairness of each goroutine's `Insert(w)` and of `Finish`.
  No mutex is held while another one is acquired or while the goroutine blocks,
  so one that has work always gets to do it under Go's scheduler; `wg.Wait`
  returns once all are done. Workers are not assumed fair to each other in any
  stronger sense, and one may insert every node. A critical section is one action
  and the mutexes are no state: `BuildEnds` is about the walks and about work that
  is never taken up, and would not show a deadlock of locks.
* `FlatSearch`: weak fairness of the caller and of each goroutine. The only
  thing that blocks is `wg.Wait`.
* `Loader`: weak fairness of `Next`. A load waits for its input only, and a read
  returns, if only with an error.
* `Workspace`: none; it has no liveness property. A search need not end for the
  other ones to be safe.
* `QueryHeaps`: weak fairness of each call. A search waits for nothing.
  `SetEfSearch` may be called for ever and no call need be made. `Query` has none.
* `Benchmark`: weak fairness of the benchmark, a process that waits for no other
  one. Runs of the subset command may stop anywhere.
* `IndexCache`: none. A run may stop at any time, and nothing is claimed to
  happen.

## 5. Proofs

The theorems hold for every value of the constants that satisfies the named
assumptions: `SizeAssumption`, `DistAssumption`, `LayerAssumption`,
`ParamsAssumption` and `WorkerAssumption` for the build, `WorkspaceAssumption`,
`FlatAssumption`, `QueryAssumption`, `LoaderAssumption`, `CacheAssumption`,
`DatasetAssumption`, `ThroughputAssumption` and `BenchmarkAssumption` for the others. They say what the parameter checks of the
code and Go's types guarantee; `Worker` is finite, and of one element in a
sequential build.

**HnswBuildProofs.** `Invariance` proves `Spec => []IInv`, and the properties
follow from it: `TypeCorrect`, `FollowingIsSafe`, `WalksStayInBounds`,
`DegreesCapped`, `TopCorrect`.
`IInv` strengthens them by three parts:

* `WalkInBounds`, because what `setOwn` and `link` store comes from a call's
  locals, which were filled in by earlier sections of other states. Locals
  stay good because `allocated` only grows and `level` never changes;
* `Turns`: the allocated nodes are the IDs taken, and no two goroutines have the
  same one. Without it `Raise` could make another goroutine's node the entry;
* `NothingAhead`: alone, a goroutine finds no list of its node filled in before
  it stores it. Without it `setOwn`'s overwriting branch, which the sequential
  build takes, would lose edges, and `EdgesKept` (`NoSilentEdgeLoss`) would fail.

The argument for `DegreesCapped` rests on a lemma that a selection has at most as
many members as it was asked for, and on `M <= mMax, mMax0`. `EdgesKept` rests on
one that says why `selectNeighbours` leaves a candidate out.
`BuildImplementsAssembly` proves that each initial state of the build is one of
`Assembly` and each step one of its steps or a stutter: `Raise` is `Place`,
`Finish` is `HandOver`, nothing else is visible.

That nodes are linked up does not follow from `IInv`, because it depends on the
past: two nodes that have met belong together although the edges they met along
may have been pruned since, and a node that enters a layer through one that is
itself not linked there yet belongs to nothing so far. The second half of the
module therefore proves that a history exists. `Hung(up)` says of an order `up`,
one for each layer, where `up[l][a]` is the set of nodes that `a` hangs below:

* nodes that hang below the same nodes are in one piece for good; every edge
  (`EdgesJoin`) and everything a call holds (`CallsGather`) stays in one piece;
* a node about to be linked at the layer its call searches hangs below the entry
  point of that search, and the entry point does not hang below it (`Waiting`), so
  it is in a piece of its own, apart from those of all other goroutines
  (`CallsApart`); on the layers further down it hangs below nobody yet (`Settled`);
* who hangs below a node being inserted on one layer does so on the layer above
  too, if it reaches there (`HungAbove`). This is what keeps the order an order when two goroutines
  enter a layer through each other's surroundings: the next search starts from a
  node found above, and that node is not below the one that searches.

`setOwn` is the step that matters: it joins the node's piece to that of its entry
point (`JoinHung`) and hangs the node below the next one. `NextHung`
shows that it can always be extended, whatever a prune drops. The order is no
variable of the model; the proofs carry it as an existential (`Woven`). Four
theorems come out of it:

* `NoDoubleEntries`: whoever has the node in its list is in its piece, and a
  candidate of `setOwn` is not, before the step. So `link`, which comes after
  it, appends an ID to a list without it.
* `WaysOut`: a search finds somebody and `selectNeighbours` chooses somebody, a
  prune never empties a list (`FilledStays`), and every piece of the bottom layer
  has a root (`Rooted`): node 0 or a node still on its way. When none is on its
  way all is the piece of node 0, and who joined it wrote to its list.
* `LayersLinked`, for `~Building`: what is found at a layer is inserted there
  (`FoundPlaced`), so a node that was alone in the layer is the one found and is
  linked back (`LayersMet`). The hypothesis is needed: `build_stale_top` refutes
  the property in a parallel build.
* `AllOnePiece`, for `MMax0 >= N - 1`: lists of the bottom layer only grow
  (`SetOwnAdds`, `LinkAdds`), edges go both ways or are about to (`Mutual`), and a
  piece is connected (`Traced`: no set that the edges neither leave nor enter
  divides it). `Reached` is evaluated as the code's walk is, round by round:
  each round that is not the last adds a node (`WidensClose`). The hypothesis is
  what "no cap is ever reached" means, and `build_roomy` has it with equality.

**WorkspaceProofs.** `IInv` is inductive as it stands. From it follow
`TypeCorrect`, `NeverShared`, `NoFutureStamps`, `WorkIsOwn`, and `Independence`, the refinement
of `LayerSearch` under the mapping at the end of `Workspace`. The heart of it is
`StampsPast`: if no stamp is ahead of its epoch, then advancing the epoch makes
every stamp old, and the only time that it cannot advance, at the wrap, the
stamps are cleared.

**FlatSearchProofs.** `IInv` says of each collector that it holds the best of
what it has been offered (`IsBest`), and of the chunks that they follow each
other (`Spans`). The steps: a collector keeps the best when a row is added
(`TakesKeepsBest`); chunk sizes add up to the number of rows (`Division`,
`Chunks`, the only arithmetic); the best of the parts' best are the best of all
(`Together`), where the capacity `min(k, rows)` of a part is what is needed; and
the best k by one-by-one replacement are the k nearest by definition
(`BestIsNearest`). `SearchNIsExact` and `RowsTiled` are the results.

**IndexCacheProofs.** `IInv` has two parts besides the types. `Covered`: if
every run that has created the file saves the same index and none was cut short,
each block of that index is in place or a run is still to write it. A truncation
removes all blocks, but the run that truncates is still to write all of them;
that is why `IntactAfterRaces` holds. `Steady`: a run that opened a settled file
is still reading that same file, so what it has read so far is part of one whole
index. It rests on `SettledKept`, that no step touches a settled file, which is
`SettledNeverTouched` as well. `SettledReused` also needs that indexes with
equal data and settings are equal (`CacheAssumption`).

**QueryProofs.** About `Query`, the level of sets. `IInv` adds to the three properties `Ready` (a
width of at least k, a position that has a list) and `Explored`: all that was
seen can be reached, a node is forgotten only for results no further than it, and
the neighbours of a result have been seen unless it is still queued. The last
two make the stop test right: when nothing queued can improve the results,
nobody's neighbours can. `ResultsKeep` is the lemma for one turn of the loop,
`AnswerHolds` the one for the end, from which `AnswersLocallyBest`,
`AnswersEnough` and `AnswersExact` follow, for any lists and any distances.

**QueryHeapsProofs.** About the heaps as the code keeps them, for any size,
lists and distances, NaN included. `Invariance` proves `IInv`, in which
`HeapsHold` is: no item ranks before its parent, none is there twice, and the
result list is never longer than the width (`HeapsStayOrdered`). The loops of the code are recursive functions, so the first question is whether they
return at all: `LoopHasResult` says that a loop that counts down has a result
(there is a function with its equation, namely the least relation closed under
going back a turn), and `LoopKeeps` that what each turn keeps holds at the end.
Both are inductions over numbers, which `NumbersInduct` derives from the
pigeonhole principle for finite sets. `UpOrders` and `DownOrders` then show that
sifting restores a heap of which one item is out of place, without losing or
doubling an item, and `PushAdds`, `PopTakes`, `AddTakes` that the three operations
do to the set of items what their names say, where the least item is at the top
(`HeapTop`).

`AnswersEnough` (`Enough`) holds with NaN as well. When the result list is not full
every node that is met is queued and kept, whatever comparisons say, and this
does not stop, since a list that is not full cannot make the search stop either;
so all that can be reached is found. It needs `Explored`: until the results are full
all that was seen is among them, and a result that is no longer queued has had its
neighbours seen.

`HeapsImplement` is the refinement `Spec => Implements`. The hard step is
`Expand`: the walk over a list in its order, adding items one at a time
(`MeetTakes`, `ListRead`), comes to what `Query` allows, which takes the best of
all at once. Nodes that are met and not kept are no better than any result then
or later, because replacing the worst never makes the worst worse.
`AnswersLocallyBest` and `AnswersExact` are the theorems of `QueryProofs` carried
over through the mapping: `QP` is that module instantiated with the sets that the
heaps stand for, and `SameSpec` says that it speaks of the same behaviours.

**LoaderProofs.** `IInv` says that what was checked stays checked (`Checked`:
header, levels, the position in the graph), that the list being read has room
for what is left and those after it are empty (`InTurn`), and that the bottom
lists up to there fill their places (`LaidOut`). The last needs `left` to be the
place's length in the second pass, which is what the comparison of the size
with the first pass's gives; without it `StaysAligned` and `BottomLayerAgrees`
would both fail. `LoadsAreSafe` follows from `Checked` and `InTurn`. Arithmetic on
words is for any `MaxInt`. `SavesWhatItRead` (`SavesBack`) rests on `Kept`: at every
step of the pass that stores, what was taken is the words of the nodes that are
finished, of this node's finished layers, and of the list begun, which are
announced as long as they will be and not as they are. `JoinedIs` gives the recursive function
`Joined` its equations for any number of parts, `JoinedSame` says that it depends on
those parts alone, so that reading into one list disturbs no words before it
(`WordsStay`). Here the size word counts too: `ListDone` needs the list to have
the length that was announced when it ends, and an ID to be the same unsigned,
which `v < count <= MaxInt` gives.

**BenchmarkProofs.** `TruthIsReal` (`RealTruth`) joins two arguments. One is about
places: `DataInv` says that every word in a file, or read from one, is where the
run that wrote it would put it (`InPlace`), so that it does not matter when it was
read or what became of the file since; appending keeps it because a writer is at
the end of its file (`Writes`). A row of which all words are one run's is then a
row that the run computed (`DivMod`). The other is about ranks: every rank is taken
(`EveryRank`, a pigeonhole), and the first K of a row over n vectors are the K
nearest of the first m, provided that all of the row is among the m, which is what
`validateDataset` checks (`RanksAgree`, `FirstAreNearest`). `PointsMeasured` is about
`Throughput`, for any clock, any widths and any number of queries: the invariant
`Counting` keeps that an attempt under way was found countable, and the
arithmetic is that the division in `Countable` excludes an overflow of the product
(`Fits`, `CountedAsIs`). `ReportsMeasured` carries it over to the whole benchmark.

### Only model-checked

* everything under fairness: `BuildEnds`, `Answers`, `LoadEnds`, `Returns`, `Ends`,
  the fairness part of `BuildAssembles`. Liveness is out of this prover's reach. Every invariant and every action property of a run that passes is a theorem;
* `EveryLayerLinked` of a parallel build and `ReadsOrBuilds`, which are refuted
  (section 6).

The recursive functions of `QueryHeaps`, `Loader` and `HnswBuild` (`Up`, `Down`, `Walking`,
`MeetAll`, `Joined`, `Reached`) are proved about.

## 6. What the work found

`build_stale_top`: the comment at `internal/index/hnsw.go:272` says that insertion
links a node "into every layer from there to the bottom". In a parallel build
two nodes that are both taller than the index may read its top before either
raises it. Each then starts linking at the old top, and neither is ever linked in
the layers above, although both are there. TLC's counterexample has two
goroutines and four nodes. It costs recall at most: the entry is one of the two,
the other is met at the layers below, and `SafeToFollow` and `WalkInBounds` still
hold. The sequential build has the property (`build_sequential`).
`docs/decisions.md` (116-146) describes what building in parallel costs and does
not mention this.

`cache_cut`: `loadOrBuild` "reads a saved index when one is there, otherwise
builds and saves it" (`cmd/fastvec-bench/main.go:233`). A run that is killed or
meets an error between `os.Create` and the end of `Save` leaves a partial file,
and so does one whose `-efc` does not fit in 32 bits, after the whole build.
Later runs then find a file, fail to load it and end with an error; none builds
until the file is removed. Writing to another name and renaming it at the end
would make the comment true. A partial file is never used as an index: a load
returns one only after it has read all of it (`Loader`).

## 7. Not modelled

* `internal/distance`: floating-point arithmetic and assembly. The models take any
  function `Dist` into the natural numbers, so their results hold for whatever the
  kernels return as long as it is totally ordered. `QueryHeaps` has NaN among the
  distances as well; `HnswBuild`, `FlatSearch`, `Query` and the order of vectors in
  `Dataset` exclude it, and nothing is claimed of a build, an exact search or a
  ground truth that meets it.
* Two subset commands that run at once. They write to the same files without
  a lock, and where one truncates what the other is still writing a gap of zeros
  remains, of which a reader may take some for coordinates; `RealTruth` is not
  claimed then.
* Ground truth that was computed over fewer vectors than the benchmark reads, and
  rows put together from two runs. A larger base file beside the answers of an
  older, smaller run passes validation, as it does when a run fails after it
  replaced the vectors; nothing in the code excludes it, and `RealTruth` makes no
  claim about it. The opposite case, fewer vectors than the answers were computed
  over, is within `RealTruth`: such answers are refused or still right.
* The bytes of a word, the percentiles, the counting of recall, flags and report
  formatting: sequential computations on values that do not change.
* Errors that only `Close` reports, in the cache and in the subset command.
* `nbuf`: the copy that a search makes of a list under the lock, and the alias of a
  live list when there is no lock. The models read a list when it is walked, which
  the immutability of a finished index makes the same thing.
* `Components`, `Degrees`, `LevelSizes` count; `Reachable` is what `OnePiece` is
  stated with. The distance counters exist under a build tag only.
* `internal/benchenv` and `py/`: facts about the machine and scripts around the
  benchmark, with no effect on the index.

The modules were written in this order, the most important behaviour first:
`Ranking`, `HnswBuild`, `Assembly`; `Workspace`, `LayerSearch`; `FlatSearch`;
`Loader`; `IndexCache`; `FinishedIndex`, `Query`, `QueryHeaps`; `Dataset`,
`Throughput`, `Benchmark`; each with its proofs.
