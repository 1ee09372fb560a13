# Verification of redis_agent

TLA+ models of redis_agent, an HTTP agent that runs beside one Redis node and, on
request, removes the keys of a user, estimates the memory each user's keys take, or
generates test data. The models are translated from the Go sources in `src/`; TLC
checks them on small instances and TLAPS proves the main results for every value of
the constants. `PROJECT.json` lists the source lines behind every definition.

## 1. The system

| Component | State it keeps | Operations | What makes it correct |
|---|---|---|---|
| HTTP handlers, `server/server.go` | none of their own; one goroutine per request, one more per task | `POST /task` (`createTask`, `checkParam`, `startTask`), `GET /task/{id}`, `GET /tasks`, `GET /analysisInfo` | a task acknowledged to a client exists, is run once and ends once |
| Task registry, `task/task.go` | map `tasks` from identifier to a pointer to the task, `locker`; status and log in the task itself | `CreateTask`, `HasProcessStatisticTask` (under `locker`), `Report`, `GetTaskList`, `AppendSucLog`, `AppendFailLog` (without) | an identifier is taken once and never rebound; status and log agree |
| Cleaner, `internal/cleaner` | per task: cursor, keys of the last SCAN, keys grouped by hash slot | `Clean` | on success every key of the user is gone; only keys of the user are removed if the name is plain; a batch is within one slot |
| Statistic task, `internal/memanalysis` | the published result `userAndOverhead`; per task a temporary map | `dumpRdb`, `Statistic`, `keyRehashOverhead`, `expireKeyRehashOverhead`, `GetUserAndOverhead` | the result is exact for the file, and the file as new as the task |
| RDB reader and loader, `internal/reader`, `internal/rdb` | position in the file, expiry of the next key, a channel of 1024 entries | `StartRead`, `ParseRDB`, `parseRDBEntry` | one entry per key, with its own expiry; the channel is closed |
| Memory estimates, `internal/utils/memprofiler.go`, `internal/rdb/types/*.go` | none | `MallocOverhead`, `FieldBucketOverhead`, ..., `MemOverhead` of each type | an estimate covers the content, but for the ends of lists, and does not shrink when the value grows |
| RDB decoders, `internal/rdb/structure`, loaders in `internal/rdb/types` | none | lengths, strings, LZF, ziplist, listpack, intset; streams and module values | what is decoded is what was encoded, and the reader stops at its end |
| Hash tags, `internal/utils/hashtag.go`, `crc16.go` | none | `Key`, `Slot` | slots agree with Redis Cluster |
| Redis clients, `internal/utils/redis.go` | two clients created on first use, one lock | `GetRedisClient`, `GetRedisClusterClient`, `ParseInfoProp` | one client each, closed at the end |
| Generator, `task/generate.go` | none | `GenerateData` | success means that all `count` keys were written |
| Life cycle, `main.go`, `ListenAndServe`, `Shutdown` | the error and the signal channel | start, signal, shutdown | the process and its tasks end, and no client is left open |

Interaction: a handler creates a task in the registry and starts a goroutine that
calls the cleaner, the statistic task or the generator, then writes the outcome into
the task. The statistic task starts one more goroutine, the RDB reader, and receives
from it over a bounded channel. Clean and statistic tasks share the Redis node with
clients, with each other, and with the dumps the node starts on its own.

What is hard here: the handlers use one map with and without its lock; the check for
a running statistic task and the registration are two critical sections; SCAN returns
keys twice and clients write meanwhile; a user name is used as a pattern; one dump status is shared by all tasks and
by the node; a failover ends the parsing early; the reader's goroutine is outside the
`recover` of its task; zero stands for "no expiry"; the formats of an RDB file have a
dozen widths of numbers and lengths and are not self-describing; Shutdown closes the
Redis clients under running tasks. The list, line by line, is
`hazards` in `PROJECT.json`.

## 2. Modules

| Module | Models | Instance | Proofs |
|---|---|---|---|
| `TaskService` | abstract: what the agent promises about an identifier (absent, PROGRESS, SUC or FAIL) | through `TaskServer` | through `TaskServerProofs` |
| `TaskServer` | handlers, registry, task goroutines, crash and restart | `MCTaskServer` | `TaskServerProofs` |
| `Cleaner` | clean tasks over a shared node; uses `Glob` | `MCCleaner` | `CleanerProofs`, on `DataProofs` |
| `Glob` | external: the patterns of SCAN's MATCH | `MCCleaner` | `CleanerProofs` |
| `StatisticTask` | `dumpRdb` of several tasks and the node they poll; publication | `MCStatisticTask` | `StatisticTaskProofs` |
| `RdbPipeline` | reader goroutine, channel, collection, rehash shares; uses `Overhead` | `MCRdbPipeline` | `RdbPipelineProofs`, on `DataProofs` |
| `Overhead` | the estimates as functions | `MCOverhead` | `DataProofs` and, on it, `OverheadProofs` |
| `RdbStructure` | decoders: numbers, lengths, strings, LZF, ziplist, listpack, intset | `MCDecoders` | `DataProofs` |
| `RdbTypes` | `ParseObject` and the loader of every type; uses `RdbStructure` | `MCDecoders` | `RdbFormatProofs`, on `DataProofs` |
| `RdbFormat` | the format as Redis writes it: the reference of the two above | `MCDecoders` | `DataProofs`, `RdbFormatProofs` |
| `HashKey` | `Key`, the part of a key that decides its slot, and the cluster specification's definition of it | `MCDecoders` | `RdbFormatProofs` |
| `HashTag` | `Slot`, its CRC, and the cluster specification's definition; uses `HashKey` | `MCDecoders` | |
| `Lifecycle` | `main`, server, signals, Shutdown, the Redis clients, generation tasks | itself | `LifecycleProofs` |

Each module leaves out what another models: in `TaskServer` the body of a task is one
step that returns nil or an error; `Cleaner` and `StatisticTask` are such bodies;
`RdbPipeline` is what `StatisticTask` does between `Open` and `Publish`; `Overhead`
is the cost of a key in `RdbPipeline`, where a key is one opcode; `RdbTypes` is what
becomes of the bytes of its value; `HashTag` is `slot` in `Cleaner`.

`MCRdbFormat` walks through values, streams and keys; `MCDecoders` adds to it the one
property whose operators on bits the provers cannot reason about, so that the rest of
the walk can be proved about.

Definitions whose comment says "Mutation" are deliberate errors of the kind the code
could contain. They are part of no specification. For each property a run checks,
`mutants` in `PROJECT.json` names one that makes the property fail.

### TaskServer

`tasks`, `locker`, `info` (status and log) are the variables of `task/task.go`; `pc`
says where a `POST` handler is, `worker` where the goroutine of its task is, `reader`
what a `GET` handler has read. A pointer to a task is named by the request that
allocated it. `Receive` covers decoding, `CheckTaskType` and the part of `checkParam`
that reads no shared state; `CheckStatistic` the critical section of
`HasProcessStatisticTask`; `CreateDuplicate`, `CreateFill` and `CreateStore` the one of
`CreateTask`, cut where the map assignment is under way, since `Report` and
`GetTaskList` may run then. `SetStatus` and `AppendLog` are separate steps because
nothing orders them against a reader. `MapFatal` is the runtime's "concurrent map read
and map write", `ReaderPanic` a panic in the RDB reader, `Down` any other end of the
process; `Restart` begins with an empty registry.

### Cleaner

SCAN is modelled by its guarantee: the table has `Parts` parts, a call visits one, and
returns every key in it that matches the pattern, and possibly other matching keys again.
The pattern is the user name and `:*`, as in the code, which neither escapes the name nor
checks it; `Glob` matches it as Redis does, ranges and escapes inside brackets left out.
Keys and names are sequences of characters, of which the model knows those that mean
something in a pattern and `:`. `Due`, hence `owed`, is what the pattern selects. `Owns` is
what the statistic task takes for the user of a key, and `PlainName` what a name must be
for the two to be the same.
`Group` is one round of the loop over the keys, `Unlink` the flush of a full group,
`UnlinkFinal` a round of the last loop. `UnlinkError` and `UnlinkResent` are the ways a
command can go wrong. `owed` is a history variable: the keys found at the start that
no client has written since.

### StatisticTask

A dump is named by the number of writes it has seen. Redis runs one dump at a time and
refuses BGSAVE meanwhile; when a dump ends well the file is replaced, otherwise the
status becomes `err`; a restart forgets the dump and sets the status to `ok`. `Poll` is
the INFO that ends the loop; its reply also answers the status, as in the code.
`since`, `before` and `voided` are history variables.

### RdbPipeline

A file is a sequence of opcodes; "bad" is anything the parser panics on and a file
without "eof" is truncated. A key costs 50 or 70 bytes. `Reference` computes the sums
from the file alone: positions of keys, and for each the last expiry opcode before it.
`RehashShare` divides natural numbers and rounds down where the code multiplies by a
quotient of `float64`; the two are the same for every count of keys a node can hold, since
a share that is no whole number is too far from one for the rounding of `float64` to matter. `NaNToUint64` is what `uint64(NaN)` may be, which Go leaves to the platform: 0 on arm64,
2^63 on amd64, in the model a million.

### Overhead

Strings stand for their lengths. `jemallocSizeClasses` is written as a formula that
gives the table of the source, entry by entry, with the four classes that the source
lists twice. `ListLoop` is the loop over the elements of a list; of what it has at the end the
code charges the closed ziplists only.

### RdbStructure, RdbTypes, RdbFormat, HashKey, HashTag

A reader is the sequence of the bytes left in it. A decoder returns a value and the
reader after it, or panics; `Bind` is "read this, then that". The recursion of the
decoders is that of the source's loops. A floating-point number is the text that `%f`
prints of it, as the sorted sets keep it; fractions are left out, and so are numbers
past 2^31, which TLC cannot count. `readStream` yields the commands that rebuild the
stream, as the code does. `RdbFormat` is external: it writes values the way Redis does,
from the narrowest encoding to wider ones (`slack`). It compresses a string as
repetitions of its beginning, from at most 8192 bytes back, which is all that the 13 bits
of a reference can say, or as literals. `Unknown` is the count, 65535, from
which a two-byte counter cannot tell the length; all the proofs assume of it is that two
bytes can hold it (`UnknownAssumption`) and that it is more than 2 (`NodesAssumption`: the
nodes of a quicklist hold up to two elements in the model, and each is counted). Recursion is written with
recursive functions and folds: the provers cannot work with a module that declares a
RECURSIVE operator. `lpEncodeBacklen` keeps the
comparisons of the source, and `BacklenBytes` is what Redis puts at that place.

### Lifecycle

`main` is where the main goroutine is, `serve` the goroutine of the HTTP server,
`getter` where a caller of the two getters is: the pointer is read without the lock, so
`MissClient` may see nil after another goroutine has assigned it. Clients are numbered
as they are created. Shutdown calls the getters too, hence creates a client only to
close it when there was none. `DrainTimeout` is the end of the five seconds, which may
come at any time. A request is one that creates a generation task.

## 3. Runs

| Run | Checks | Bounds |
|---|---|---|
| `server` | registry and lock: `MapWritesExclusive`, `AckIsBacked`, `OneRunPerTaskId`, `StatisticOverlapExplained`, `LogClosesOnce`, `NoRebinding` | 3 POSTs, 1 GET, 2 identifiers, 6 bodies, symmetry |
| `server_live` | `ServiceSpec` (refinement), `ReportsNeverRetract`, `PostsAnswered`, `CreatedEnds` | 2 POSTs, 2 GETs, 2 bodies, fair |
| `cleaner` | `CleanIsComplete`, `NothingForgotten`, `BatchesAreLegal`, `RemovesOwnKeysOnly`, `TasksEnd` | 2 tasks, one for `a` and one for the pattern `a?`, 4 keys of the users `a` and `ab`, 2 slots, 2 SCAN calls, a flush at 2, fair |
| `statistic` | `FreshUnlessVoided`, `ResultGoesBackByOverlapOnly`, `TasksEnd` | 2 tasks, 2 writes, 2 dumps of the node, any restarts and failovers, fair |
| `pipeline` | `NothingLostInFlight`, `ResultIsExact`, `SharesAddUp`, `PipelineEnds` | every file of up to 3 opcodes from 6 and an end, a channel of 2, 2 users, fair |
| `overhead` | `MallocFindsLeastClass`, `TablesHoldAll`, `AddingNeverShrinks`, `ContentIsCovered` | sizes to 600, 3 elements with 6 lengths |
| `decoders` | `ValuesLoad`, `UncountedListsLoad`, `StreamsLoad`, `ModulesPassedOver`, `SlotsAgree` | lists of up to 5 elements out of 39 numbers and strings at the limits of the encodings, up to 9 encodings each, a count of 4 as the unknown one; streams of 3 entries in nodes of 2, one group; keys of all bytes, and of up to 6 bytes out of 3 |
| `lifecycle` | `ShutdownClosesEveryClient`, `GenerationEnds`, `SucMeansAllWritten`, `ProcessExits` | 2 requests, 2 keys each, fair |
| `v_*` | deviations, one each (section 6) | the smallest that shows them |

Each but `overhead`, `decoders` and the deviations also checks the module's `TypeOK`;
`server_live` leaves it to `server`.

Why the bounds are enough. Conflicts in the registry are between two requests; the
third POST adds a waiter for the lock and a second pair. In the cleaner, a group is
filled from two pages, left over at the end, and shared by slot with a key of another
user, which the second task's pattern selects; a start cursor past 0 is the second task's. Two tasks and two dumps of the node's
own give every order of "own dump failed, other dump succeeded, and the reverse". Three
opcodes put an expiry before, between and after keys; a channel of 2 fills up. The sizes
up to 600 pass the repeated classes (80 to 128) and the first change of header (256);
the lengths are those where an encoding changes and where a ziplist of 8 KiB overflows.
The decoders meet each number, length and repetition alone, after each other one, and
some of them in lists past the unknown count; the encodings of different elements do not
interact otherwise. Two tasks and `main` are the three that can contend for a client:
one that creates, one that waits, one that closes.
The proofs of section 5 have no bounds.

## 4. Fairness

`TaskServer`: weak fairness of each handler and of each task goroutine, as the Go
scheduler and the fair `sync.RWMutex` give; none for clients, crashes and restarts.
That a body returns is an assumption there; `Cleaner`, `StatisticTask`, `RdbPipeline` and,
for generation tasks, `Lifecycle` (`GenerationEnds`) say when it does. `Cleaner`: a running task takes steps and its commands are answered,
well or not. `StatisticTask`: tasks take steps and a dump ends, well or badly; that a
command fails is not assumed, so the polling loop cannot be left that way only. The
node starts boundedly many dumps of its own: with endless ones a poll each second might
always meet one, and the code has no bound. `RdbPipeline`: both goroutines take steps. `Lifecycle`: the main goroutine and those of
the tasks take steps, and Go's mutex is passed on; nothing is assumed of handlers,
clients, signals and the server. Deadlock is not checked there, since the process ends.

## 5. What is proved

For any number of requests, identifiers, tasks, keys, users, slots, writes, strings and
elements and any batch size; the assumptions are the named ASSUMEs of the modules.

- `TaskServerProofs`: types, `MapWritesExclusive`, `AckIsBacked`, `OneRunPerTaskId`,
  `StatisticOverlapExplained`, `LogClosesOnce`, `NoRebinding`, `ReportsNeverRetract`, and
  `ImplementsService`, the refinement of `TaskService`. None is inductive alone. The
  invariant adds what each position of a handler says about the lock, the registry and
  the goroutine (the lock is held exactly while writing; a request past the store is
  registered under its identifier; a goroutine exists only then), and for the overlap,
  that a statistic task that passed its check was not registered when a later one ran
  its own.
- `CleanerProofs`: types, `CleanIsComplete`, `NothingForgotten`, `BatchesAreLegal`,
  `RemovesOwnKeysOnly`. The invariant says where an owed key can be (`Ahead`), what a
  phase says about page, cursor and groups, and that pages and groups hold keys that match
  the pattern. Success leaves no place for an owed key. `PlainNamesSelectTheirKeys`: the
  pattern of a plain name matches the keys of that user and no others, for every name and
  key, by an induction over the pattern; `RemovesOwnKeysOnly` rests on it.
- `StatisticTaskProofs`: types, `FreshUnlessVoided`, `ResultGoesBackByOverlapOnly`. While a
  task polls, its snapshot is in the dump in progress, in the file, or lost with an
  error that is still the last status; the file never gets older.

- `LifecycleProofs`: types, `ShutdownClosesEveryClient` and `SucMeansAllWritten`, for any number of requests and keys. The invariant says who holds
  the lock (`LockOK`), that a kind has at most one client and every handle is to it
  (`ClientOK`), what each position of `main` has closed (`ShutdownOK`), and that a task
  has written exactly the keys before its next one (`TaskOK`).

- `RdbPipelineProofs`: types, `NothingLostInFlight`, `ResultIsExact`, `SharesAddUp`, for
  any finite set of users, any files of opcodes, any capacity. `NothingLostInFlight` names
  how far the task has counted and where in the file each entry of the channel comes from;
  the invariant adds that `expireMs` is the expiry of the next key, that the parser leaves
  its loop at the end of the file or cut short only, and that the channel is closed after
  that. A closed and empty channel then leaves nothing uncounted. `SharesAddUp` rests on
  `SharesOfWhole`: rounding a division by counts down loses less than one for each part.
- `DataProofs`, on the operators without state that the other proofs use. Of the
  estimates: for every size, `MallocOverhead` finds the least class of the table
  that holds what was asked for, or the size itself when there is none
  (`AllocationHolds`, `AllocationIsLeast`, `LeastClassFound`), although the table it
  bisects lists four classes twice and is not sorted; the larger table of a dictionary
  with n elements has more than n and at most 2n + 1 buckets, and both are counted
  (`BucketsHoldAny`). The bisection is shown to end
  among the first seven classes or past the repeated ones (`SearchSkipsRepeats`), and from
  there on the table ascends.
  Of the decoders: what they make of what Redis writes, for every string, list,
  encoding and count, and whatever follows in the file. An integer is what its decimal
  text parses as (`FormatIntParses`). Lengths of 32 bits
  (`LengthsLoad`), strings as plain bytes (`BlobsLoad`), as integers and compressed
  (`StringsLoad`), the entries of listpacks and ziplists in all of
  their encodings (`ListpackEntriesLoad`, `ZipListEntriesLoad`) and the lists themselves
  (`ListpacksLoad`, `ZipListsLoad`) are read back to the last byte and not a byte further,
  while the count can tell them; with a count that cannot, a listpack of more elements
  panics and a ziplist panics or loses elements. The last case takes most work: the code
  reads on until a byte 0xFE, which may be anything, so that the lemmas on `Returns` and
  `StopsShort` bound what any decoder makes of any bytes. For LZF, `Inflates` says that
  compressed bytes become a string when what is behind them is taken to be the
  beginning of what follows; literals and references have it, and it composes.
  `ListpacksLoad` and `ZipListsLoad`
  assume no more than that the headers can tell the length (`Packable`, `Zippable`).
  The module begins with what all proofs about data rest on. Induction on numbers and on
  finite sets is stated for the set of what has the property, and derived from `WFMin`;
  from it follow that recursive functions exist (`RecursionByRank`) and the laws of
  `SumFunction`.
- `OverheadProofs`: sets, hashes, sorted sets and texts are estimated at no less than their
  content, and lists at no less than theirs up to the ziplist that is not closed and one
  element for each that is (`ContentCovered`), and one element or one byte of the key more never makes an
  estimate less (`EstimatesNeverShrink`), for any lengths and any number of elements. For
  the lists both are inductions over the loop that fills ziplists: what it has charged is
  compared with the elements it has seen, and its accumulator after one element more with
  the one before. The invariants of the run, all four,
  follow for any bound and any set of lengths.
- `RdbFormatProofs`, on the walk of `MCRdbFormat` and the tag of a key. `ValuesAreLoaded`:
  in every state of the walk, whatever its bounds, strings, lists, sets, hashes and sorted
  sets are read back from each of their type bytes and encodings, and a map with an odd
  number of entries panics. `ModulesArePassedOver` is the same for `ModulesPassedOver`: what
  is passed over, what panics, and what ends early. `UncountedLists` says what becomes of
  lists past the unknown count. The invariant is `Walked`: the values of the walk are at
  most a thousand strings of at most a million bytes, which fit the 32-bit lengths in the
  headers; the assumptions on
  `Lengths` and `MaxElements` in `MCRdbFormat` are there for this alone, and far above the
  8 KiB at which Redis starts the next node of a list. The argument goes up from the
  decoders of `DataProofs`: something that is read as often as a count says (`ReadTimes`),
  whole intsets (`IntsetsLoad`), quicklists of nodes, pairs, the two texts of a score (a
  double in binary or decimal) and the operands of a module. The double is the
  longest part: the 64 bits that `DoubleBytes` sets are shown to be read as the
  number they came from, for every integer below 2^31.
  `TagIsTheClusters` and `TagDecidesKey`: for every
  key, `Key` cuts out what the cluster specification hashes, and a tag decides alone,
  whatever surrounds its braces.

The proofs found one error of the model: `RdbFormat` used to compress any string with a
repetition, however far back, while a reference reaches back 8192 bytes. The strings of
the run repeat over shorter distances, so that only the attempt to prove `StringsLoad` for
all strings showed it.

Only model-checked, and why: liveness (out of reach of the provers); `StreamsLoad`, whose
parts (lengths, strings, listpacks, `ReadTimes`) are proved about, but not the loops of
`readStream` over nodes, entries that share fields, groups and consumers, nor the
invariant of XADD, XDEL and XREADGROUP it needs; `SlotsAgree`, whose CRC is computed
with operators on bits that no prover here supports (its part about the tag is proved).

## 6. Deviations from comments and intent

Shown by a run:

- two statistic tasks in progress at once (`v_one_statistic`, `server.go:177`);
- a restart of the node lets an old dump pass for the new one (`v_snapshot_fresh`,
  `memstatistics.go:161`);
- a failover publishes the sums over part of a file (`v_partial_result`, `rdb.go:201`);
- with no key that expires, users are charged `uint64(NaN)` (`v_share`,
  `memstatistics.go:123`).

Modelled as the code behaves, without a run of their own:

- `GET /tasks` writes into a nil map and is dropped once a task exists (`task.go:165`;
  action `GetTaskList`);
- a count out of range is accepted, since a nil error is returned (`server.go:173`;
  `Rejected`);
- `Report` and `GetTaskList` read the map without `locker` (`MapFatal`);
- a panic in the RDB reader ends the process (`rdb_reader.go:27`; `ReaderPanic`, `Panic`);
- BGSAVE may reach a node that was promoted after the role check (`Failover`);
- a remaining time of exactly 0 ms counts as no expiry (`rdb.go:150`; `ReadExpire`, and
  `Reference` takes the same view, so that no property tells the two apart);
- a user name goes into the pattern of SCAN as it is, and `checkParam` (`server.go:161`) does
  not look at it: `*` or `a?` removes keys of other users, `a[` or `[ab]` misses the keys of
  the users so called, a name with a backslash may be read as another, and a name with a
  `:` is no user name (`cleaner.go:48`; `Pattern`, `Match`). The properties on
  completeness are about what the pattern selects, the one on other users' keys about
  plain names;
- the last ziplist of a list and the element that overflows one are not charged, so that
  the estimate of a list may be less than its content, while the comment at `list.go:103`
  counts 8192 bytes for each node of the quicklist (`list.go:109`; `ListStep`,
  `ListMemOverhead`), and the buckets of a sorted set are charged twice
  (`zset.go:121`; `ZsetMemOverhead`);
- a ziplist of 65535 entries or more is read up to 0xFE, not 0xFF (`ziplist.go:38`), and
  a listpack of more elements than its count says is not read past the count
  (`listpack.go:47`): the loader panics or reads the beginning of the list only
  (`UncountedListsLoad`);
- the signed integer of a module value is not read, so that what follows is taken for
  opcodes, and a float, which Redis saves in four bytes, is read as the text of a score
  (`module2.go:21`, `module2.go:25`; `ModuleOperand`);
- `stream.go` names the command of a group "CREATE" without XGROUP, and both streams and
  modules report no memory at all; `Rewrite`, which would send the commands, is never called;
- Shutdown closes the Redis clients before the HTTP server has drained its handlers, and
  waits for no task: their next command fails (`server.go:67`; `CloseRedis`, `WriteError`);
- a signal that comes before `Notify` kills the process without Shutdown, and one that
  comes together with an error of the server may hide it (`main.go:56`; `Signal`,
  `SelectSignal`);
- generation tasks of lists, hashes, sets and sorted sets succeed without writing
  anything (`generate.go:76`);
- the error of INFO is dropped while a file is parsed (`rdb.go:198`), so that a node that
  does not answer counts as a slave (`Tick`).

Not modelled: the cursor of a clean task is recorded in a local copy only
(`cleaner.go:81`); `ZslRandomLevel` does not end for some draws, but nothing calls it.

## 7. Not modelled, and the plan

Left out for good: logging, configuration, the metrics of `internal/statistics` (their
handler is never started), the middleware (no state), the type declarations of
`internal/rax`, CRC64 and `createValueDump` (never called), `crc16.go` (used by a test
only), `Rewrite` of the objects (never called), `ParseInfoProp` (it cuts a line out of a
text; what its callers make of the line is modelled), the unused methods of
`MemProfiler`, Docker and cluster files. Fractions of scores and numbers from 2^31 on are
beyond TLC's numbers. The slices of `stream.go:84` are bounded by their capacity in Go
and by their length in the model; a stream that Redis writes meets neither bound.

What is left: `StreamsLoad` for all streams, on the lemmas of `RdbFormatProofs` on what
is read many times and on listpacks of numbers.
