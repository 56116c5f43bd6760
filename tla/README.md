# Verification of audit_logging

TLA+ models of `src/audit_logging`, an ASGI middleware that writes one audit
document per request to a local JSONL file and, optionally, ships that file to
Elasticsearch. The package promises that auditing cannot hurt the API (bounded
memory, bounded shutdown, no exception, no blocking), that nothing a deny-list
names is recorded, and that what is lost is counted. The promises are hard where
several actors share state: the request and the tasks it leaves behind, the sink's
queue and its file, the hooks of the writer thread, the shippers that tail the files
of all workers of a service, and the cluster these set up together.

## Inventory

| Component | Source | State | Operations | Hard part |
|---|---|---|---|---|
| AuditMiddleware, requests | `middleware.py` | the capture of one request | wrap `receive`/`send`, build, emit once | exceptions, cancellation, disconnect, caps |
| Request context | `semantic/context.py`, `semantic/emit.py` | a bag per context | open, annotate, close, `@audited_task` | contexts are copied by tasks and threads and outlive the request |
| Redaction | `redact.py` | process-wide key cache, a memo and budgets per call | decide a key, walk a value | two threads in one cache; budgets; names that collide |
| Document building and enrichment | `document.py`, `semantic/enrich.py`, `semantic/proxies.py` | none between calls | body kinds, query, user, bag, client address | limits reached in the middle; two views of one datum |
| AuditMiddleware, lifecycle | `middleware.py`, `semantic/runtime.py`, `semantic/emit.py` | `_sink_started`, `_sink_closed`, `_shipper`, the active sink | lifespan startup and shutdown, lazy start, `emit` | several middlewares, requests outside the lifespan |
| FileSink, queue side | `sinks/file_sink.py` | `_queue`, byte counts, `_inflight_bytes`, `_retry`, the asyncio lock, `_closed`, `_terminated` | `submit` (loop or foreign thread), `start`, `flush`, `close`, the background task, the write in an executor thread | a cancelled coroutine does not stop its thread; retry; shutdown deadline |
| FileSink, file side | same | `_fd`, `_writers`, `_orphan_fds`, `_file_bytes`, `_claimed`, `path`, the process-wide set of claimed paths | open, claim, rotate, write a segment, tear down | loop and threads in the same descriptor; descriptor numbers are reused |
| Enricher | `semantic/enricher.py` | pool, busy count, cache | `apply`, `close` | stuck lookups, a deadline per batch |
| Integrity chain | `semantic/integrity.py` | chain id, seq, previous hash | `stamp`, `verify` | fork, retry, lost batches |
| ElasticsearchShipper, tailing | `shipper.py` | `_state` (offset per inode), a state file per pid, flocks on orphans, `_stopping` | tick, claim, ship a file, POST, prune, save, close | rotation under its feet, lost replies, dead workers and their heirs |
| ElasticsearchShipper, cluster set-up | `shipper.py`, `infra/elasticsearch/bootstrap.py` | `_bootstrapped`; the cluster's template and data stream | read, compare, put policy, template and mapping | workers of several releases at once |
| Wording, catalogues, reading tools, configuration, checks, metrics | the rest | counters | pure functions and I/O | data, not control |

How they interact. A request opens a bag in its context, the handler and its tasks
note things in it, and at its end the middleware builds one document from the
capture and the bag (redaction happens here) and calls `sink.submit(document)`, which
serialises it and enqueues a line. `audit.emit()` reaches the same sink through the
process-wide registry. The background task takes the queue as a batch and hands it to
an executor thread, which first runs the hooks (enricher, then chain) and then writes
the lines in segments, opening and rotating the file. The shipper reads the files by
name; it shares nothing else with the sink. Shippers of different workers meet only
in the directory (flocks and each other's state files) and in the cluster.

What makes each correct, beyond its types:

- requests: one document per audited request, true about bodies, outcome and
  context, whatever fails on the way;
- redaction and building: nothing denied is shown in any view of the request, two
  keys never become one, what is left out is said and counted, and Elasticsearch can
  take the document;
- lifecycle: whatever the order of startup, first request and shutdown, `emit` finds
  a live sink, and everything is closed once, after what uses it;
- queue side: what is held in memory is bounded; every line taken is written once, in
  order, or counted as lost once; one retry; `close` returns in time;
- file side: no byte goes to a descriptor that is not the sink's file, no descriptor
  stays open, lines go to the active file, the size bound holds, a sink writes to no path
  another one has, unless it finds no free name;
- enricher: a batch waits no longer than its deadline and leaves no task behind; a
  patch goes to the document it was looked up for; chain: `verify` reports a gap
  exactly where lines are missing, and a change anywhere;
- shipper: an offset never passes over an undelivered line; a line is sent again only
  when its first delivery was in doubt; every line gets through in the end;
- set-up: whoever installs a template makes no data stream before it, and no field is
  silently unsearchable.

## Modules

Each module's state variables and actions carry the names of the code's attributes
and functions where TLA+ allows it.

`SinkContract` is the abstract specification of a sink: a lossy log that takes
documents, writes them in order and at most once, or writes them off.

`FileSink` is the queue side. Actors are the background task (`"run"`), `close`
and callers of `flush()`; `pc` holds where each is in `_flush_all`/`_flush_once`:
outside, at the asyncio lock, or awaiting its write. `Workers` are executor
threads, and `thread[w]` outlives the coroutine that started it. A Python list is
an object shared by reference: `content[b]` is list `b`, and the parked retry, the
awaiting coroutine and the thread name it. That sharing is what a cancelled flush
breaks. One action stands for each stretch of code between two awaits, and, in the
thread, between two accesses to the list. A line is a model value of size 1, and
`Growth` is what the hooks may add to it.

`SinkFile` is the file side. One action is one access to state that the loop and
the threads share, so `_ensure_open`, `_open_locked`, `_close_fd` and
`_release_path` each fall into several. Descriptors are numbers the environment
may take as soon as they are closed (`ForeignOpen`). Lines are sizes. `_claim_path` is a
look at the registry, a probe with `flock`, and a fallback that shares the path
(`TryName`, `ProbeName`, `AbandonName`, `TakeAnother`); another sink of the process does
the same for FR-26's name (`RivalClaims`, `RivalShares`), and another process is the
refusal of a probe. `shared` records that a sink fell back. `_release_path` is three steps,
its test, `Unclaim` and `Discard`, because nothing holds a lock across them.

`RedactKeys` is the decision about one key: the memo of a call, the process cache, the
budget for decisions that are not cached, and what a key is rewritten to.
`KeyDecisions` runs it in several threads step by step, with the cache emptied by
whichever finds it full. `Redact` walks nested values with the decisions taken as
functions. `Document` builds a document from a request (query string, body kinds,
multipart parts, scrubbed text, user) with the limits as small constants and a record
of what was skipped; `Enrich` adds what the bag and the proxies contribute, the values
the sentence names and the fallback document. A request says what its client wrote into
the headers (`wrote`, `real`) and which addresses it came through (`route`), and the header
and the peer follow from both (`Forwarded`, `Peer`). A key, value or body is a small record that says what the code
tells apart about it (denied or not, what it normalises to, how it was written).

`Request` runs requests, audited tasks and the tasks they start, each in a context that
may hold a bag, one action per await: `Receive`, `Send` and their refusals, the end by
return, exception or cancellation, and `_emit` with each of its failures: the resolver, the
build, the enrichment, the marker that stands in for a document that could not be built, the
sink that raises and the sink that could not be made.

`Lifecycle` runs the lifespans of a stack of middlewares and of a mounted one, their
sinks and shippers, and `emit` from the loop and from threads. A sink is reduced to
`SinkContract`'s shape, a shipper to what it has passed on.

`Enricher` is `apply()` beside its pool and `close()`, one action per turn of its loops:
each document looked up in the cache, handed to the queue or tagged, the wait for the
deadline, each lookup cancelled or counted, each result collected and remembered; and
`close()` as the flag, each job taken off the queue, and the markers that end the threads.
`Chain` is `stamp` and `verify`, the latter a fold over the documents of a chain in order
of their numbers. `Batch` composes both with a file and the sink's treatment of a batch
that failed: taken, enriched, stamped one document at a time, written in part, retried,
across a fork and restarts; a document that cannot be hashed, and a batch whose flush is
cancelled before its thread begins, are written unstamped (`Unstamped`). `Shipment` is what
the shipper changes in a document and what `check verify-chain` undoes; `Batch` asks
`verify` about the lines as they are in the file and as they come back.

`Shipper` is any number of worker processes with their sinks reduced to appending
and rotating. A file is the sequence of its complete lines. Steps lie at each
`await` and between the `stat` and the `open` of a file; claiming, pruning and
saving run without an await and are one step each. Elasticsearch is external:
`create` with an `_id` it has answers 409, a line without one is stored each time,
a document that does not fit is refused alone, and any request may be carried out
without its answer arriving.

`ClusterSetup` is `_bootstrap` of every worker, a step per request, beside the
operator's `bootstrap.py`; a worker with `elasticsearch_setup` off (`Manual`) ships at
once, whether or not there is a template. A schema version stands for its fields, since versions only
add some: the template and the write index are each described by the version whose
fields they have. `maker` records who made the data stream, `overtaken` that a template
was replaced behind the back of the worker that had read another one.

`MC*` modules extend these for TLC; their `.cfg` files give the instances. `*Proofs`
modules hold the theorems.

## Runs

| Run | Instance | Shows |
|---|---|---|
| `filesink` | 3 lines, one of them submitted by a thread, bound of 2, growth 1, 2 threads, 2 lists, 3 rounds of drain, failing writes, a `close` that may time out | memory bound, no line vanishes, a clean close settles all, refinement of `SinkContract` (`KeepsContract`), every line settles |
| `filesink_flush` | a `flush()` caller that may be cancelled, a line that cannot be serialised, a disk that may never answer | a line is lost to a failed write only on its second attempt; `close` returns without the disk |
| `filesink_torn` (violation) | 2 lines, an `os.write` that may stop inside one | the retried line is glued to its own fragment |
| `sinkfile` | one writer, a rival sink on the same path, `flock`, 2 descriptors, 3 inodes, 1 backup, 2 calls of `_write_batch`, failing system calls | size bound, cached size exact, no misdirected write, lines go to the active file, the path is its own, no write into a file another sink took over, every descriptor let go |
| `shipper` | 2 workers, 3 lines in 3 files with one backup, batches of 2, one death or close, a refused, an anonymous and an identified line | offsets never pass over an undelivered line; what is counted lost is not in the index |
| `shipper_heirs` | 3 workers, 2 lines in one file, batches of 1, one death or close | one heir, which starts where the dead worker stopped; every line gets through, though the dead worker need not come back |
| `cluster` | 4 workers of two releases, two of them upgrading and one that leaves set-up to others; any cluster past, an operator's script, rollover | no worker that does its set-up makes a dynamic mapping; a worker that ships has its fields mapped or has warned |
| `keys` | 2 threads, 5 keys (a denied name, one over `MAX_KEY_BYTES`, two that spell what redaction would write), a cache of 2, a cold budget of 1, two calls | the keys of one structure stay apart; a structure is refused only past its budget |
| `document` | 2 documents in a row; requests, bags and proxy chains that each differ in one respect; limits of 2 to 8 nodes, keys, parts and levels that the inputs reach | nothing denied shows (but for a rewritten name in `url.query`), the rebuilt query agrees with the mapping, losses are flagged and counted, the document fits the mapping, the client is the address that called, not what it claims |
| `request` | 2 concurrent requests and one audited task, a cap of 2, the client leaving, sends refused, failing builds and markers, no sink | one document, a true capture and outcome, its own annotations |
| `lifecycle` | two stacked middlewares (the outer ships) and a mounted one, 3 documents, one fault | each document counted once, `emit` finds a live sink, torn down in order |
| `batch` | 6 documents in batches of 3 (two with one target and one without, which cannot be hashed; then two with another target around one with the first again), 1 worker thread, a cache of 2 whose entries expire, 2 rounds, 2 lives of the process (the first one forked, the second with another data stream); lookups that raise or hang, `close()` at any moment, failing and partial writes, flushes cancelled before their thread begins | no lookup left behind, the cache in order, patches go to their own documents, `verify` tells the losses, of the file and of what was shipped, wherever the file begins, and shows tampering, `apply` returns |

The bounds are small because the mechanisms are: a batch in flight, one parked and
one queued need three lines; a rotation that drops a file needs three files and one
backup; a claim contested needs a dead worker and two heirs; a descriptor number
handed to somebody else needs two numbers beside it; an annotation that lands in the
wrong document needs two contexts and one task that outlives its request; a cache that
loses an entry needs one more key than it holds; a template that leaves somebody behind
needs two releases; a line lost between two that are kept needs two batches, the end of
the first one lost on its retry, and a chain of another life beside it. `Rounds` stands
for `_MAX_FLUSH_ROUNDS` (64) and the limits of
`Document` for settings in the thousands; all are reached in the runs.
`CHECK_DEADLOCK FALSE` is stated where the system really stops: a closed sink with all
lines settled, requests that are all over, a finished lifespan, a document that is
built. The shippers and the cluster never do, so deadlock is checked there. Symmetry
is used only in runs without liveness.

### Fairness

`LoopFairness`: the event loop runs ready callbacks and timers, so each step of the
task, `close` and its deadline is weakly fair; nobody is obliged to submit, flush or
close. `DiskAnswers` (a thread's system calls return) is assumed only by `filesink` and
by `ThreadFairness` of `SinkFile`; `CloseReturns` is checked without it. In `Shipper`
the steps of a task are weakly fair, a stopped process exits, and a shipper that keeps posting is answered now and then (strong fairness of
`Answered`); deaths, restarts, lost replies and rotations are never fair, so the lines of a worker
that is gone for good reach the index only through an heir, and `EveryLineShips` allows for
a line that rotation removed first. (With two deaths, `Stops = 2`, the run takes three
minutes and shows the same.) That last assumption excludes a cluster
that refuses a whole request body for ever, which would hold the file back until
rotation removes it. `Batch` assumes only that `apply` itself goes on when it can
(`ApplyNext`): its workers may hang for ever, and it must return all the same.

`SentOnce` leaves out, by the flag `disturbed`, exactly the events after which
sending again is the design: a request carried out without its answer, a state file
that could not be written, the death of an heir whose progress is in no file a
second heir reads, and a pid that comes back after an heir had its files. Lines
with an `event.id` are stored once even then.

## Findings

`filesink_torn`: after a short `os.write` followed by an error the retry appends the
whole line behind the fragment without a newline in between, so a line counted as
written cannot be read.

The following were met while modelling. Each has a configuration whose property TLC
shows violated (`tlc -config <cfg> <module>`); none is part of the runs above.

- `MCFileSinkLoss.cfg` (`MCFileSink`, `EveryLossCounted`): a `close()` that times out
  discards queued and parked lines without counting them; README.md:580 promises one
  counter that sums every drop path.
- `MCFileSinkTwice.cfg` (`MCFileSink`, `NoLineTwice`): cancelling `flush()` parks the
  list its thread still writes, and the next flush hands it to a second thread
  (compare `file_sink.py:908`). Only callers outside the package can cancel `flush()`.
  Two threads on one list may also trim each other's lines, so `NothingVanishes` is
  checked and proved without callers of `flush()`. With a chain the second thread stamps
  the list again, and `verify` reports a number that repeats; `Batch` cancels a flush only
  before its thread begins (`file_sink.py:777-781` parks the list either way), and its
  properties of `verify` say nothing of the other case.
- `MCSinkFileClaim.cfg` (`MCSinkFile`, `ClaimReleasedOnce`): `_release_path` tests and
  clears `_claimed` unlocked, and may take the claim of the sink that has the path by
  then (compare `file_sink.py:1053`). A claim made between the two accesses of a release
  loses its flag to the first and keeps its name to the second, or a token takes the place
  of FR-26's name, which then stays in the registry as long as the process runs.
- `MCSinkFileLate.cfg` (`MCSinkFile`, `NoLateWriter`): `_claim_path` is to "Settle on a
  file no other live sink is writing" (file_sink.py:1060). With two writes at a time, as
  after a cancelled flush, a worker that is past its claim opens the file again after
  `close()` has given the path up and another sink has taken it, and the other worker
  writes through that descriptor. With `FlockHolds = FALSE` and one worker a write in
  flight during `close()` is enough: the descriptor that is left to it has no lock on the
  file, and the registry has no name any more. `NoLateWriter` is checked with `flock` and
  one write at a time.
- `MCShipperDrain.cfg` (`MCShipper`, `DrainedOnClose`): the shipper's final drain ships
  nothing, because its inner loop stops on the flag that asks for the drain
  (`shipper.py:240`, `457`). The lines are shipped by the next process with that pid or
  by an heir.
- `MCShipperStale.cfg` (`MCShipper`, `ClaimContinues`): `_adopt_offset` keeps an offset
  the process has of its own (`shipper.py:352`), although it may be older than the dead
  worker's: an heir that held the file before, or a pid that comes back, starts where it
  was then and sends what was shipped in between once more, where shipper.py:342 says
  "Continue the dead worker's progress through the file it left". Lines without an
  `event.id` are then stored twice.
- `MCLifecycleStrand.cfg` (`MCLifecycle`, `GracefulShutdownShipsAll`): even with a
  working drain, the shipper's last pass comes before the sink's final flush
  (`middleware.py:355-357`).
- `MCShipperReuse.cfg` (`MCShipper`, `NothingNewBelowOffset`): offsets keyed by inode
  outlive the file when the number is reused; new lines are passed over until the file
  outgrows the offset.
- `MCBatchMoved.cfg` (`MCBatch`, `UnshipUndoes`): the shipper sets `data_stream` to what
  the process is configured with now (`shipper.py:167-169`); `canonical` hashes the
  field and `_unship` leaves it, though check.py:376 says "Undo what the shipper adds at
  ship time (FR-41 skew) so the hash matches the document as it was written". Lines
  written before `AUDIT_DATASET` changed and shipped after it are reported as "hash
  mismatch". For a stream that stays, `VerifyTellsTheLosses` shows that the report is
  the file's.
- `MCClusterSetupRace.cfg` (`MCClusterSetup`, `OneSchemaPerDataset`): reading the
  template and putting it are two requests, so two workers of different releases that
  start together both find none, and the second replaces the first one's version
  without `schema_upgrade`; README.md:589 says "The shipper will not overwrite a
  template of another version".
- `MCClusterSetupBare.cfg` (`MCClusterSetup`, `RefusesWithoutTemplate`): config.py:133-135
  says to leave `elasticsearch_setup` on unless an operator manages the mapping, since "the
  shipper refuses to send anything until the template exists, because the first document
  would otherwise create a data stream with a dynamic mapping". With the setting off,
  `_bootstrap` looks at nothing and marks itself done (`shipper.py:597-599`), so a service
  that starts before its operator makes just that data stream. `NeverDynamic` is about
  everybody else.
- `MCEnrichQuery.cfg` (`MCEnrich`, `UrlShowsNothingDenied`): document.py:428 says
  "`url.query` is where FR-14 replaces denylisted values in the *raw* string". The string
  is rebuilt with `reduced.get(key, value)` (`document.py:549`), the names of the request
  looked up in the redacted mapping. A denied name that `redact()` writes in another
  spelling, as it does with one longer than `MAX_KEY_BYTES` (1024, where
  `max_query_bytes` allows 8192), is not found there, and the value the client sent stays.
  `NothingDeniedShows` and `QueryViewsAgree` except exactly those names in `url.query`.

Also seen. With hooks the parked batch is counted with its rewritten size, so memory
may reach `queue_max_bytes * (1 + Growth)`; that is the bound checked and proved. With
two writers, after a cancelled flush, `_file_bytes` and the size bound no longer hold,
and they are checked with one (`MCSinkFileTwo.cfg` checks with two writers what holds
for any number). A rename that keeps failing at the last step shifts the older backups
each time it is tried. With `OpenRaces = TRUE` a rotation between `stat` and `open`
makes `NothingSkipped` fail; the window is two adjacent system calls, and the passing
runs leave it out. A lookup error raised between the enricher's cancelling and
collecting (`enricher.py:263`) is neither tagged nor counted. A
proxy that appends something other than an address (`unknown`, say) is passed over
(`proxies.py:76-79`), and the hop before it, which may be the client's own entry, is taken
for what the proxy appended: `ClientIsNotClaimed` is about routes of addresses, behind
which a client may still write any junk. A second sink's file is
named with a token (`file_sink.py:1107`) that the shipper's pattern does not match.

## Proofs

For every value of the constants, from the named assumption of each module
(`SinkAssumption`, `FileAssumption`, `ShipperAssumption`, `StackAssumption`,
`FiniteAssumption`, `CapIsPositive`, `RequestAssumption`, `SetupAssumption`,
`BudgetAssumption`, `KeyAssumption`, `EnricherAssumption`, `BatchAssumption`: types, finite
sets, bounds that are not negative).
One assumption says more: `KeysAreTheirText` takes a digest to be the key's own (the code
has 64 bits of a hash) and only keys that get rewritten to spell what redaction writes,
which is what the code's test for its marker finds out.

The library states induction with an operator as parameter, which no prover here can
instantiate. Where a proof needs it (`SinkFileProofs`, `BatchProofs`), it is stated over the
set of the values for which a claim holds, and follows from the well-foundedness of the
naturals. That covers sums over finite sets and sequences and folds over sets.

`FileSinkProofs`, the bound
- `TypeCorrect`: `Spec => []TypeOK`. Inductive invariant `TInv` adds two facts about
  control: a thread at work has a list (`ThreadHasList`) and a coroutine inside a
  flush has rounds left (`RoundsLeft`).
- `BoundHolds`: `Spec => []HeldWithinBound`, the memory bound. What is held is a sum
  of three terms that move between queue, flight and retry, so the bound alone is
  not inductive. `HInv` adds that the queue's count is the queue's length
  (`Counted`), that only one coroutine is between taking a batch and settling it
  (`Alone`, from the lock), that the list in flight belongs to it (`Owned`), that
  nothing is in flight beside a parked batch, and that both fit (`RetryFits`,
  `BatchFits`) with the growth the hooks may add once.
- `BoundIsExactWithoutHooks`: for `Growth = 0` the bound is `queue_max_bytes`.
- `OneWriteAtATime`: at most one coroutine awaits a write.

`FileSinkProofs`, the ledger
- `NothingIsLostUnseen`: without callers of `flush()`, every line that was taken is
  written, counted or in a place from which it will be written. `VInv` adds to `HInv`
  that one thread works at most (`Single`) and, for the list it holds, which lines are
  on the disk already (`Behind`) and which are not (`InFront`).
- `ExactlyOneRetry`: `LostOnSecondAttempt` in every configuration, cancelled flushes
  included. `AInv` says that the number of attempts of a line tells where it is.

`FileSinkProofs`, the contract, without callers of `flush()`:
- `SinkKeepsContract`: the sink implements `SinkContract` (`KeepsContract`). `OInv` adds
  to the two invariants above that what the sink holds is in the order it was taken,
  place by place: the log, then what a thread has in front of it or what is parked, then
  the queue; and that nothing still to be written was written off, until `close` runs out
  of time. Each step then takes, writes, writes off, gives up, stops or stutters.
- `CleanCloseLeavesNothing`: `CleanCloseSettlesAll` for `Rounds >= 3` (the code has 64).
  `SInv` says that the rounds used and those that what is held can still take are four
  at most (`RoundsEnough`), because the queue no longer grows and each list fails
  twice at most; so the drain ends because nothing is left, never because it gave up.

`SinkFileProofs`: `NoWriteGoesAstray`, `NothingStaysOpen`, `ActiveFileHolds`,
`PathsStayDisjoint`, for any number of writers, descriptors and inodes. The invariant
says that each descriptor open on a file of the sink has one owner (`OneOwner`), that
the current one is open on the file with the active name, which changes only while there
is none (`Current`), that a borrowed one is current or an orphan and still open on the
file it was borrowed for (`Borrowed`), and that one which shows up after the teardown is
about to be undone (`LateOpen`). `PInv` is about the claim of the path: until `close`
begins, and as long as neither sink shares, whichever of the two has the name has it in the
registry, this one from the probe until its last write (`PathsKept`).
`BytesAreCounted` (`CountsItsBytes`) and `FilesStayBounded` (`FilesBounded`) have the
hypothesis `OneWriter`: one call of `_write_batch` at a time, beside the loop that opens
and closes. `OneWriteAtATime` gives it for a `FileSink` whose flushes are not cancelled;
with two writers both are false, as the findings say. `CInv` says that a batch under way
has a file unless `close` took it away (`HasFile`), that a borrowed descriptor is the
current one but for that (`LastOpen`), and that the cached size is that of the current
file, or of the one about to become it (`Counted`); `BInv` that a segment about to be
written fits into the file it goes to, or is a single long line for an empty one (`Fit`).

`LifecycleProofs`: `EmitFindsASinkHolds` and `TornDownInOrderHolds` from one invariant:
the stage of the lifespan bounds how far a middleware's turn can be (`StepOfStage`), the
turn tells who is up, half down and down (`StartedInTurn`, `ClosedInTurn`), and the
registered sink is live (`ActiveIsLive`). `CountedOnceHolds`: `MInv` says that
a document is in a queue or stored only for a submitter that was told so (`CallsKnown`),
and, for each middleware, that the documents gone at its sink are as many as its counters
sum up to, so a step that loses a document must count it where it was lost and no other
step may.

`RequestProofs`: `CaptureIsTrueHolds` from `CInv` (the pieces kept, their count, the flag
and the bytes seen agree after every chunk), `OneDocumentHolds` from `SInv` (every request
that ended without a document cost an error of its own), `OwnAnnotationsHold` from `NInv`
(the bag of a context is that of the unit it is at work for, and closing it restores
that of the unit around it), `OutcomeTellsWhatHappenedHolds` from `AInv` (what a
document says of the end is decided by the context it ended with, `Decided`, and the
server was told no status but the captured one and no end the capture has not seen,
`Captures`, because both are captured before the send).

`KeyDecisionsProofs`: `TInv` says that an entry of the shared cache has the key's own text,
whoever put it there (`CacheTrue`), so emptying it at any moment makes no two keys one.
`KeysStayApartHolds` follows with `AInv`, which tells the stand-ins of a call
apart by their numbers and everything else by its text. `RefusedOnlyPastBudgetHolds` needs
`CInv` (`Charges`): what is left of a budget and the distinct keys met add up to it while
the memo has had room for each; once it is full, a key may be charged twice.

`ShipperProofs`: `TypesHold`, `NothingIsSkipped`, `LostIsNeverStored` and
`LinesAreSentOnce`. `DInv` says of
every offset, in memory and in a state file, that the lines below it are delivered
(`Sound`), that an inode number not given out yet has no lines (`Unspent`), and that a
shipper in the middle of a file is at the one it looked at, with the lines behind its
offset (`InHand`). Files and deliveries only grow, which keeps all of it true.
`NothingIsSkipped` assumes `~ReuseInodes /\ ~OpenRaces`, the two cases above in which
TLC shows it to fail.

`LinesAreSentOnce` (`SentOnce`, from the same two assumptions) is the converse: no offset is
so far behind that a stored line is sent again. Its invariant has a part that always holds,
`UInv`: a line is in one place of one file (`Distinct`), a file has one name (`Apart`) and
one holder (`OneHolder`), and neither a lock nor a shipper is on an inode number still to
be given out (`Past`). The other part, `Quiet`, holds until something is `disturbed`. A
file of a living process is known to nobody else, and both its offset in memory and the
one in its state file pass over every stored line (`Private`); what a dead process left is
passed over by its state file or by a holder that knows better, and nobody else knows it at
an older place (`Left`). A lock is on a dead process's file (`Orphan`), two shippers never
have the same file in hand (`OneReader`), and what is in hand is read from behind what is
stored (`AtHand`). Death turns `Private` into `Left`, a claim hands `Left` on to the
holder, and a restart turns it back; `Undisturbed` keeps the flag once it is set.

`ClusterSetupProofs`: `DynamicNever`, about every worker that sets the cluster up and the
operator's script, because each has put or found a template before it makes a stream; and
`MappedOrSaidHolds` from `MInv`: while nobody was overtaken, the template has the fields of
every worker that has put one (`Covered`), because whoever puts one read a template it may replace (`Asked`).

`BatchProofs`, the enricher
- `NothingIsLeftBehind` (`NothingLeftBehind`) and `PatchesAreTheirOwn` (`PatchIsItsOwn`),
  for any number of workers, any budget and any cache. Neither is inductive: a patch on a
  document comes from a lookup or from the cache, where an earlier batch put it. `EInv` says
  that each lookup and each key it is kept under is for the document that asked (`Asked`),
  that the cache has unique keys, the oldest first, each with a patch for its key made
  `TTL` before it expires (`Kept`), that what a document has been given so far is its own
  (`Answered`), and that a lookup nobody has begun is still among those the loop has to
  settle (`Settling`). Whatever workers and `close()` do changes only how far a lookup
  is (`LookupsGoOn`).

`BatchProofs`, what `verify` computes
- `VerifiesExactly`, for every sequence of documents with numbers above 0: `verify`
  reports nothing exactly when the documents are `Whole`, which is said without an order
  and without a walk. Each stamped one is intact and alone with its number, the first that
  is left of its chain or right behind another, by number and by `prev_hash`; number 1 has
  the genesis hash. The walk is a fold, so what it has found after any of the entries is
  shown by induction over the subsets of a chain (`WalkExactly`).

`BatchProofs`, the chain
- `TamperingIsShown` (`TamperingShows`) and `VerifyTells` (`VerifyTellsTheLosses`), for any
  documents, failures and number of restarts, from `ChainInv`. It is about the lines in
  the file followed by those in hand and those parked, `disk \o Held`: they are lines as
  `stamp` makes them, with the hash of their content (`AreLines`); those of a chain come in
  order of their numbers, and the next number follows by hash (`InSequence`); a number
  between two that are there and is not there is `missing` (`Accounted`); and the chain object
  is ahead of its lines by what is missing at their end (`Current`). Stamping puts a line at the
  end, a write moves it from hand to file, a failed retry or a death removes the end of
  the row and puts it into `missing`, and a new life begins a chain that no line has.
- `VerifyTells` then needs both directions (`PartTells`). A part of the file that is not
  whole has a document that neither is the first one left of its chain nor follows another,
  so the number before its own is missing, between two that are there; and a part that is whole
  has every number between two of its own (`NoneBetween`, from the least of the numbers
  above the one in question). `ReadBack` says that what was shipped to the stream it was written for, late or
  not, comes back as it was.

Only model-checked: all liveness (`EveryLineSettles`, `CloseReturns`, `EveryLineShips`,
`ApplyReturns`), which is out of the prover's reach, `NoLateWriter`, and the five
properties of `Enrich`.
`Redact` recurses over nested values with a RECURSIVE operator, which takes the SMT backend
from every module that reaches it, so it and what builds on it (`Document`, `Enrich`) are
checked over bounded inputs.

## Not modelled

- Wording, JSON, timestamps; `flush_max` and the wake-up event, which only decide when a
  batch is taken (`Wake` may happen at any time); metrics, other than what counts as
  lost. `InMemoryMetrics.inc` is a read and a write without a lock.
- `FileSink`: two threads inside one segment; two overlapping additions to
  `_queue_bytes` before `start()`; a parked list that a thread has emptied since is handed
  to a thread all the same, where the code returns at once (`file_sink.py:764-767`).
  `SinkFile`: what a sink that shares the path does to the file, `fstat` failures,
  directory creation, tokens tried before the last one.
- `Redact`, `Document`, `Enrich`: `normalize_key` and the digest over characters; text
  capture switched off; session and trace headers, identifiers, the clock's fields.
  Duplicate JSON keys are resolved by the parser before the code sees them.
- `Request`: the trace header, the copy of the response headers, a sync wrapper over an
  awaitable (`emit.py:356-374`), generator dependencies, two middlewares around one
  request. After a refused send the application sends no more; an excluded request
  starts in a context without a bag.
- `Lifecycle`: what a sink and a shipper do inside, which is `FileSink`'s and
  `Shipper`'s. `EmitFindsASink` does not promise a sink to a request served while
  startup is still going on. A request before startup leaves the shipper unstarted, as
  the code does.
- `Chain`, `Batch`: the hash is injective; malformed integrity blocks,
  `require_genesis`, two chains with one id made in the same millisecond; torn lines are
  `FileSink`'s. `Enricher`: what a patch does to the sentence; a mutable patch shared by
  two documents; `close()` between two threads that are being created. `Shipment`: a
  line that is not a JSON object, tags that are not a list, the paging of the search.
- `Shipper`: the single state file of older releases (`shipper.py:410-426`).
- `ClusterSetup`: a PUT carried out long after its client gave up, two services' ILM
  policies overwriting each other, the deletion of templates.
- Components without a module (`PROJECT.json` gives the reason for each): derivation,
  description and catalogues, the reading tools, configuration, the other check commands,
  template data, `NullSink`, demo and scripts. They have no state between calls and no
  second actor; a model would repeat their tables.

## What could follow

The contract and the clean close with callers of `flush()` that are not cancelled; the
redaction of nested values with recursive functions in place of operators, so that its
budget and depth can be argued about; the shared state file of older releases in `Shipper`.
