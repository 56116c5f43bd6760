------------------------------ MODULE FileSink ------------------------------
(***************************************************************************)
(* The queue side of FileSink: a byte-bounded queue that one background    *)
(* task drains, batch by batch, into a file, with one retry per batch and  *)
(* a close() bounded by a timeout.                                         *)
(*                                                                         *)
(* Everything the event loop does between two awaits is one action.  A     *)
(* batch is a Python list that the loop and a worker thread share by       *)
(* reference: the thread deletes from it the lines that landed, the loop   *)
(* parks the same list for its retry.  So lists are objects with an        *)
(* identity (Batches) and a content, and the thread's steps interleave     *)
(* with the loop's.  Cancelling the coroutine that awaits the thread does  *)
(* not stop the thread.                                                    *)
(*                                                                         *)
(* Every line counts one byte while it is queued and 1 + Growth bytes once *)
(* the chain and the enricher have rewritten it (Growth = 0: no hooks).    *)
(* Which file a line lands in, and through which descriptor, is SinkFile.  *)
(***************************************************************************)
EXTENDS Integers, Sequences, FiniteSets

CONSTANTS
  Lines,           \* the documents, each submitted at most once
  Unserialisable,  \* those no encoder takes
  ThreadLines,     \* those submitted by another thread than the loop's
  QueueMax,        \* queue_max_bytes
  Growth,          \* bytes a line gains when it is enriched and stamped
  Rounds,          \* _MAX_FLUSH_ROUNDS
  Flushers,        \* callers of the public flush(), once each
  MayCancelFlush,  \* whether such a caller can be cancelled
  MayTear,         \* whether os.write can stop inside a line
  Workers,         \* executor threads: bounds the writes at one time
  Batches          \* list objects: bounds the lists alive at one time

ASSUME SinkAssumption ==
  /\ Unserialisable \subseteq Lines
  /\ ThreadLines \subseteq Lines
  /\ QueueMax \in Nat \ {0}
  /\ Growth \in Nat
  /\ Rounds \in Nat \ {0}
  /\ MayCancelFlush \in BOOLEAN /\ MayTear \in BOOLEAN
  /\ Flushers \cap {"run", "close", "nobody"} = {}
  /\ "none" \notin Batches

VARIABLES
  queue,          \* _queue, oldest first
  queueBytes,     \* _queue_bytes
  inflightBytes,  \* _inflight_bytes
  retry,          \* _retry: the list parked for its one retry, or NoBatch
  content,        \* the lines in each list object
  stamped,        \* the lists _prepare_batch has rewritten
  pc,             \* where each coroutine is
  rounds,         \* rounds of _flush_all begun; 0 outside _flush_all
  thread,         \* what each executor thread is doing
  closed,         \* _closed (and _stopping: close() sets both at once)
  terminated,     \* _terminated
  started,        \* whether _loop is known
  starting,       \* _starting: start() is scheduled on the loop
  loopDone,       \* the event loop is closed
  handed,         \* call_soon_threadsafe(_enqueue) callbacks not run yet
  accepted,       \* history: lines submit() took, in order
  landed,         \* history: lines whose bytes are all in the files, in order
  torn,           \* the active file ends inside a line
  glued,          \* history: lines that landed behind the piece of another
  dropped,        \* counted audit_documents_dropped_total
  late,           \* counted audit_documents_dropped_after_close_total
  failed,         \* counted audit_documents_failed_total
  attempts,       \* history: times a line was handed to a thread
  timedOut        \* history: close() gave up on the drain

memory  == <<queue, queueBytes, inflightBytes, retry>>
lists   == <<content, stamped>>
flow    == <<pc, rounds>>
life    == <<closed, terminated, started, starting, loopDone, timedOut>>
refused == <<dropped, late>>
logfile == <<landed, torn, glued>>
vars    == <<memory, lists, flow, thread, life, handed,
             accepted, logfile, refused, failed, attempts>>

Actors  == {"run", "close"} \cup Flushers
NoBatch == "none"
Detached == "nobody"   \* the coroutine that awaited this thread is gone

PCs == {"off", "sleep", "round", "lock", "write", "await", "cancelled", "done"}
ThreadStates == {"idle", "queued", "running", "writing", "ok", "failed"}

ThreadRecord ==
  [st : ThreadStates, batch : Batches \cup {NoBatch}, owner : Actors \cup {Detached},
   again : BOOLEAN, placed : Nat, total : Nat, segment : Seq(Lines)]
IdleThread ==
  [st |-> "idle", batch |-> NoBatch, owner |-> Detached, again |-> FALSE,
   placed |-> 0, total |-> 0, segment |-> <<>>]
Queued(a, b, again) ==
  [st |-> "queued", batch |-> b, owner |-> a, again |-> again,
   placed |-> 0, total |-> 0, segment |-> <<>>]

TypeOK ==
  /\ queue \in Seq(Lines)
  /\ queueBytes \in Nat
  /\ inflightBytes \in Nat
  /\ retry \in Batches \cup {NoBatch}
  /\ content \in [Batches -> Seq(Lines)]
  /\ stamped \in [Batches -> BOOLEAN]
  /\ pc \in [Actors -> PCs]
  /\ rounds \in [Actors -> 0..(Rounds + 1)]
  /\ thread \in [Workers -> ThreadRecord]
  /\ closed \in BOOLEAN /\ terminated \in BOOLEAN /\ started \in BOOLEAN
  /\ starting \in BOOLEAN /\ loopDone \in BOOLEAN /\ timedOut \in BOOLEAN
  /\ handed \in Seq(Lines)
  /\ accepted \in Seq(Lines)
  /\ landed \in Seq(Lines)
  /\ torn \in BOOLEAN /\ glued \subseteq Lines
  /\ dropped \subseteq Lines /\ late \subseteq Lines /\ failed \subseteq Lines
  /\ attempts \in [Lines -> Nat]

Members(s) == {s[i] : i \in DOMAIN s}

Init ==
  /\ queue = <<>> /\ queueBytes = 0 /\ inflightBytes = 0 /\ retry = NoBatch
  /\ content = [b \in Batches |-> <<>>]
  /\ stamped = [b \in Batches |-> FALSE]
  /\ pc = [a \in Actors |-> "off"]
  /\ rounds = [a \in Actors |-> 0]
  /\ thread = [w \in Workers |-> IdleThread]
  /\ closed = FALSE /\ terminated = FALSE /\ started = FALSE
  /\ starting = FALSE /\ loopDone = FALSE /\ timedOut = FALSE
  /\ handed = <<>> /\ accepted = <<>> /\ landed = <<>>
  /\ torn = FALSE /\ glued = {}
  /\ dropped = {} /\ late = {} /\ failed = {}
  /\ attempts = [l \in Lines |-> 0]

-----------------------------------------------------------------------------
(* The request path.                                                       *)

\* held_bytes: what the audit_queue_bytes gauge reports.
Held == queueBytes + inflightBytes

\* The bound that forgets the batch in flight.
HasRoom_QueueOnly == queueBytes + 1 <= QueueMax
\* The admission test of _enqueue.
HasRoom == Held + 1 <= QueueMax

DropAfterClose(l) ==
  /\ late' = late \cup {l}
  /\ UNCHANGED <<queue, queueBytes, accepted, dropped, starting>>

\* Runs on the loop, or on the submitting thread before there is a loop.  Only
\* the loop can start the flusher lazily.
Enqueue(l, onLoop) ==
  \/ /\ closed
     /\ DropAfterClose(l)
  \/ /\ ~closed /\ ~HasRoom
     /\ dropped' = dropped \cup {l}
     /\ UNCHANGED <<queue, queueBytes, accepted, late, starting>>
  \/ /\ ~closed /\ HasRoom
     /\ queue' = Append(queue, l)
     /\ queueBytes' = queueBytes + 1
     /\ accepted' = Append(accepted, l)
     /\ starting' = (starting \/ (onLoop /\ pc["run"] = "off"))
     /\ UNCHANGED refused

Unseen(l) ==
  /\ l \notin Members(accepted) \cup Members(handed)
  /\ l \notin dropped \cup late \cup failed

DropUnserialisable(l) ==
  /\ ~closed /\ l \in Unserialisable
  /\ failed' = failed \cup {l}
  /\ UNCHANGED <<memory, lists, flow, thread, life, handed, accepted, logfile,
                 refused, attempts>>

\* submit() on the event loop: every request handled by a coroutine.
SubmitOnLoop(l) ==
  /\ l \notin ThreadLines /\ Unseen(l) /\ ~loopDone
  /\ \/ DropUnserialisable(l)
     \/ /\ closed \/ l \notin Unserialisable
        /\ Enqueue(l, TRUE)
        /\ UNCHANGED <<inflightBytes, retry, lists, flow, thread, handed, logfile,
                       failed, attempts, closed, terminated, started, loopDone,
                       timedOut>>

\* submit() from any other thread: refused after close, handed to the loop when
\* there is one, appended directly before start() has run.
SubmitOffLoop(l) ==
  /\ l \in ThreadLines /\ Unseen(l)
  /\ \/ DropUnserialisable(l)
     \/ /\ closed \/ l \notin Unserialisable
        /\ \/ /\ started /\ ~closed
              /\ handed' = Append(handed, l)
              /\ UNCHANGED <<queue, queueBytes, accepted, refused, starting>>
           \/ /\ ~started \/ closed
              /\ Enqueue(l, FALSE)
              /\ UNCHANGED handed
        /\ UNCHANGED <<inflightBytes, retry, lists, flow, thread, logfile, failed,
                       attempts, closed, terminated, started, loopDone, timedOut>>

\* The loop runs the oldest handed-over _enqueue.
DeliverHanded ==
  /\ handed # <<>> /\ ~loopDone
  /\ handed' = Tail(handed)
  /\ Enqueue(Head(handed), TRUE)
  /\ UNCHANGED <<inflightBytes, retry, lists, flow, thread, logfile, failed,
                 attempts, closed, terminated, started, loopDone, timedOut>>

\* start(): idempotent, and a no-op once closed.
Start ==
  /\ ~loopDone
  /\ \/ /\ ~closed /\ pc["run"] = "off"
        /\ pc' = [pc EXCEPT !["run"] = "sleep"]
        /\ started' = TRUE
     \/ /\ starting /\ (closed \/ pc["run"] # "off")
        /\ UNCHANGED <<pc, started>>
  /\ starting' = FALSE
  /\ UNCHANGED <<memory, lists, rounds, thread, closed, terminated, loopDone,
                 timedOut, handed, accepted, logfile, refused, failed, attempts>>

-----------------------------------------------------------------------------
(* The flusher: _run, flush() and close() all reach _flush_once.           *)

Bytes(b) == Len(content[b]) * (IF stamped[b] THEN 1 + Growth ELSE 1)

\* The asyncio lock is held exactly while a coroutine awaits its thread.
LockFree == \A a \in Actors : pc[a] # "write"

FreeBatches == {b \in Batches : b # retry /\ \A w \in Workers : thread[w].batch # b}
IdleWorkers == {w \in Workers : thread[w].st = "idle"}

\* _run wakes on its interval or on _wake.  rounds = 0 marks a single
\* _flush_once; once stopping it goes to the final _flush_all instead.
Wake ==
  /\ pc["run"] = "sleep"
  /\ pc' = [pc EXCEPT !["run"] = IF closed THEN "round" ELSE "lock"]
  /\ rounds' = [rounds EXCEPT !["run"] = IF closed THEN 1 ELSE 0]
  /\ UNCHANGED <<memory, lists, thread, life, handed, accepted, logfile, refused,
                 failed, attempts>>

\* A caller enters the public flush().
FlushCall(f) ==
  /\ pc[f] = "off" /\ ~loopDone
  /\ pc' = [pc EXCEPT ![f] = "round"]
  /\ rounds' = [rounds EXCEPT ![f] = 1]
  /\ UNCHANGED <<memory, lists, thread, life, handed, accepted, logfile, refused,
                 failed, attempts>>

\* A drain that does not look at the parked retry.
NothingHeld_IgnoresRetry == queue = <<>>
\* What ends _flush_all before its rounds are used up.
NothingHeld == queue = <<>> /\ retry = NoBatch

\* The test at the head of each round of _flush_all.
StartRound(a) ==
  /\ pc[a] = "round"
  /\ LET finished == NothingHeld \/ rounds[a] > Rounds
     IN  /\ pc' = [pc EXCEPT ![a] = IF finished THEN "done" ELSE "lock"]
         /\ rounds' = [rounds EXCEPT ![a] = IF finished THEN 0 ELSE @]
  /\ UNCHANGED <<memory, lists, thread, life, handed, accepted, logfile, refused,
                 failed, attempts>>

\* An error in the background flush ends the task.
AfterRound_TaskDies(a) ==
  LET again == rounds[a] > 0 \/ closed
  IN  /\ pc' = [pc EXCEPT ![a] = IF again THEN "round" ELSE "done"]
      /\ rounds' = [rounds EXCEPT ![a] = IF again THEN @ + 1 ELSE 0]

\* A count of rounds that survives the end of the background flush.
AfterRound_Counts(a) ==
  /\ pc' = [pc EXCEPT ![a] = IF rounds[a] > 0 \/ closed THEN "round" ELSE "sleep"]
  /\ rounds' = [rounds EXCEPT ![a] = @ + 2]

\* _flush_once has returned to its caller.
AfterRound(a) ==
  LET again == rounds[a] > 0 \/ closed
  IN  /\ pc' = [pc EXCEPT ![a] = IF again THEN "round" ELSE "sleep"]
      /\ rounds' = [rounds EXCEPT ![a] = IF again THEN @ + 1 ELSE 0]

\* asyncio.to_thread: the executor will run the write of list b.
HandToThread(a, b, again) ==
  /\ IdleWorkers # {}
  /\ LET w == CHOOSE w \in IdleWorkers : TRUE
     IN  thread' = [thread EXCEPT ![w] = Queued(a, b, again)]
  /\ pc' = [pc EXCEPT ![a] = "write"]

CountAttempt(b) ==
  attempts' = [l \in Lines |-> attempts[l] + (IF l \in Members(content'[b]) THEN 1 ELSE 0)]

\* A retry that is handed over as if it were a first attempt.
TakeRetry_AsFirst(a) ==
  /\ retry # NoBatch
  /\ HandToThread(a, retry, FALSE)
  /\ retry' = NoBatch
  /\ UNCHANGED <<queue, queueBytes, inflightBytes, lists, rounds>>
  /\ CountAttempt(retry)

\* The parked list goes first, and leaves _retry.  One that a thread has emptied
\* since is handed over all the same, where the code returns at once: nothing is
\* written either way and the bytes held come to 0.
TakeRetry(a) ==
  /\ retry # NoBatch
  /\ HandToThread(a, retry, TRUE)
  /\ retry' = NoBatch
  /\ UNCHANGED <<queue, queueBytes, inflightBytes, lists, rounds>>
  /\ CountAttempt(retry)

\* _drain: the whole queue becomes list b; its bytes stay accounted for.
Drain(b) ==
  /\ content' = [content EXCEPT ![b] = queue]
  /\ stamped' = [stamped EXCEPT ![b] = FALSE]
  /\ queue' = <<>> /\ queueBytes' = 0 /\ inflightBytes' = queueBytes

\* New lines overtake the parked retry.
TakeQueue_Overtakes(a) ==
  /\ queue # <<>>
  /\ \E b \in FreeBatches : HandToThread(a, b, FALSE) /\ Drain(b) /\ CountAttempt(b)
  /\ UNCHANGED <<retry, rounds>>

\* Without a parked list, the queue is the next batch.
TakeQueue(a) ==
  /\ retry = NoBatch /\ queue # <<>>
  /\ \E b \in FreeBatches :
       /\ HandToThread(a, b, FALSE)
       /\ Drain(b)
       /\ CountAttempt(b)
  /\ UNCHANGED <<retry, rounds>>

NothingToTake(a) ==
  /\ retry = NoBatch /\ queue = <<>>
  /\ inflightBytes' = 0
  /\ AfterRound(a)
  /\ UNCHANGED <<queue, queueBytes, retry, lists, thread, attempts>>

TakeBatch(a) ==
  /\ pc[a] = "lock" /\ LockFree
  /\ TakeRetry(a) \/ TakeQueue(a) \/ NothingToTake(a)
  /\ UNCHANGED <<life, handed, accepted, logfile, refused, failed>>

\* A first failure is counted at once and still parked.
KeepOrLose_CountsTwice(b, again) ==
  /\ failed' = failed \cup Members(content[b])
  /\ retry' = IF again \/ content[b] = <<>> THEN retry ELSE b
  /\ inflightBytes' = IF again \/ content[b] = <<>> THEN 0 ELSE Bytes(b)

\* _keep_or_lose: what is left in the list after a failed or cancelled write.
KeepOrLose(b, again) ==
  \/ /\ again
     /\ failed' = failed \cup Members(content[b])
     /\ inflightBytes' = 0
     /\ UNCHANGED retry
  \/ /\ ~again /\ content[b] = <<>>
     /\ inflightBytes' = 0
     /\ UNCHANGED <<retry, failed>>
  \/ /\ ~again /\ content[b] # <<>>
     /\ retry' = b
     /\ inflightBytes' = Bytes(b)
     /\ UNCHANGED failed

\* The thread's result reaches the awaiting coroutine, which releases the lock.
ResumeWrite(a) ==
  /\ pc[a] = "write"
  /\ \E w \in Workers :
       /\ thread[w].owner = a
       /\ \/ /\ thread[w].st = "ok"
             /\ inflightBytes' = 0
             /\ UNCHANGED <<retry, failed>>
          \/ /\ thread[w].st = "failed"
             /\ KeepOrLose(thread[w].batch, thread[w].again)
       /\ thread' = [thread EXCEPT ![w] = IdleThread]
  /\ AfterRound(a)
  /\ UNCHANGED <<queue, queueBytes, lists, life, handed, accepted, logfile,
                 refused, attempts>>

\* CancelledError at the await.  A write the executor had not begun never runs;
\* one that has begun goes on alone, with the list the coroutine still parks.
Unwind(a) ==
  IF pc[a] = "write"
  THEN \E w \in Workers :
         /\ thread[w].owner = a
         /\ KeepOrLose(thread[w].batch, thread[w].again)
         /\ thread' = [thread EXCEPT ![w] =
                         IF @.st \in {"running", "writing"}
                         THEN [@ EXCEPT !.owner = Detached] ELSE IdleThread]
  ELSE UNCHANGED <<inflightBytes, retry, failed, thread>>

CancelFlush(f) ==
  /\ MayCancelFlush /\ pc[f] \in {"lock", "write"}
  /\ Unwind(f)
  /\ pc' = [pc EXCEPT ![f] = "done"]
  /\ rounds' = [rounds EXCEPT ![f] = 0]
  /\ UNCHANGED <<queue, queueBytes, lists, life, handed, accepted, logfile,
                 refused, attempts>>

-----------------------------------------------------------------------------
(* The worker thread: _prepare_batch, then _write_batch.                   *)

Step(w, from, update) ==
  /\ thread[w].st = from
  /\ thread' = [thread EXCEPT ![w] = update]

\* The executor picks the call up: a first attempt is rewritten in place by the
\* hooks, and a closed sink or a file that will not open fails the batch.
ThreadStarts(w) ==
  LET b == thread[w].batch
  IN  /\ Step(w, "queued", [thread[w] EXCEPT !.st = "running", !.total = Len(content[b])])
      /\ stamped' = [stamped EXCEPT ![b] = @ \/ ~thread[w].again]
      /\ UNCHANGED <<memory, content, flow, life, handed, accepted, logfile,
                     refused, failed, attempts>>

\* The next n lines of the shared list are copied into a segment and the
\* descriptor is borrowed, which a terminated sink no longer grants.  A rotation
\* may have put an empty file in place.
BorrowForSegment(w) ==
  LET t == thread[w]
  IN  /\ ~terminated
      /\ \E n \in 1..(t.total - t.placed) :
           /\ t.placed + n <= Len(content[t.batch])
           /\ Step(w, "running", [t EXCEPT !.st = "writing",
                !.segment = SubSeq(content[t.batch], t.placed + 1, t.placed + n)])
      /\ torn' \in {torn, FALSE}
      /\ UNCHANGED <<memory, lists, flow, life, handed, accepted, landed, glued,
                     refused, failed, attempts>>

\* `del batch[:placed]` and the return, or raise, of the thread.  Nobody is told
\* when the coroutine is gone.
Leave(w, placed, result) ==
  LET t == thread[w]
      b == t.batch
  IN  /\ content' = [content EXCEPT ![b] = SubSeq(@, placed + 1, Len(@))]
      /\ thread' = [thread EXCEPT ![w] =
                      IF t.owner = Detached THEN IdleThread
                      ELSE [t EXCEPT !.st = result, !.placed = placed,
                                     !.segment = <<>>]]

\* k lines of the segment reach the file, which then ends in a piece of the next
\* one or not.  The first goes right behind whatever the file ended in.
LandLines(w, k, piece) ==
  LET segment == thread[w].segment
  IN  /\ landed' = landed \o SubSeq(segment, 1, k)
      /\ glued' = glued \cup {l \in Lines : torn /\ k > 0 /\ l = segment[1]}
      /\ torn' = (piece \/ (torn /\ k = 0))

\* os.write took the whole segment.
SegmentLands(w) ==
  LET t == thread[w]
  IN  /\ Step(w, "writing", [t EXCEPT !.st = "running", !.segment = <<>>,
                                      !.placed = @ + Len(t.segment)])
      /\ LandLines(w, Len(t.segment), FALSE)
      /\ UNCHANGED <<memory, lists, flow, life, handed, accepted, refused, failed,
                     attempts>>

\* The lines a torn write leaves for the retry: none of those it began.
Placed_WholeSegment(t, k) == t.placed + Len(t.segment)
\* _whole_lines_within: of a torn segment only the k whole lines are placed.
Placed(t, k) == t.placed + k

\* os.write or fsync fails after k whole lines of the segment, and maybe a piece.
SegmentFails(w) ==
  LET t == thread[w]
  IN  /\ t.st = "writing"
      /\ \E k \in 0..Len(t.segment), piece \in BOOLEAN :
           /\ piece => MayTear /\ k < Len(t.segment)
           /\ LandLines(w, k, piece)
           /\ Leave(w, Placed(t, k), "failed")
      /\ UNCHANGED <<memory, stamped, flow, life, handed, accepted, refused,
                     failed, attempts>>

\* Every line of the list is placed.
BatchDone(w) ==
  LET t == thread[w]
  IN  /\ t.st = "running" /\ t.placed = t.total
      /\ Leave(w, t.placed, "ok")
      /\ UNCHANGED <<memory, stamped, flow, life, handed, accepted, logfile, refused,
                     failed, attempts>>

\* Outside os.write: an open, a rotation, a terminated sink, or a list another
\* thread has shortened.
BatchFails(w) ==
  LET t == thread[w]
  IN  /\ t.st = "running"
      /\ t.placed < t.total \/ t.placed = 0
      /\ Leave(w, t.placed, "failed")
      /\ UNCHANGED <<memory, stamped, flow, life, handed, accepted, logfile, refused,
                     failed, attempts>>

-----------------------------------------------------------------------------
(* close(): terminal, and bounded by shutdown_flush_timeout.               *)

\* With a task close() awaits it; without one it flushes by itself.
CloseBegin ==
  /\ ~closed
  /\ closed' = TRUE
  /\ pc' = [pc EXCEPT !["close"] = IF pc["run"] = "off" THEN "round" ELSE "await"]
  /\ rounds' = [rounds EXCEPT !["close"] = IF pc["run"] = "off" THEN 1 ELSE 0]
  /\ UNCHANGED <<memory, lists, thread, terminated, started, starting, loopDone,
                 timedOut, handed, accepted, logfile, refused, failed, attempts>>

\* The drain is held up: by its own write, or by another flush that has the lock.
HeldUp_NotByWrite(a) == pc[a] = "lock" /\ ~LockFree
HeldUp(a) == pc[a] = "write" \/ (pc[a] = "lock" /\ ~LockFree)

\* The timeout cancels whatever is draining: the task, or close()'s own flush.
CloseTimesOut ==
  /\ pc["close"] \in {"await", "lock", "write"}
  /\ LET draining == IF pc["close"] = "await" THEN "run" ELSE "close"
     IN  /\ HeldUp(draining)
         /\ Unwind(draining)
         /\ pc' = [pc EXCEPT ![draining] = "done", !["close"] = "cancelled"]
         /\ rounds' = [rounds EXCEPT ![draining] = 0]
  /\ timedOut' = TRUE
  /\ UNCHANGED <<queue, queueBytes, lists, closed, terminated, started, starting,
                 loopDone, handed, accepted, logfile, refused, attempts>>

Drained == \/ pc["close"] \in {"done", "cancelled"}
           \/ pc["close"] = "await" /\ pc["run"] = "done"

\* The finally block of close(), after the drain or its cancellation.
Terminate ==
  /\ closed /\ ~terminated /\ Drained
  /\ terminated' = TRUE
  /\ pc' = [pc EXCEPT !["close"] = "done"]
  /\ UNCHANGED <<memory, lists, rounds, thread, closed, started, starting, loopDone,
                 timedOut, handed, accepted, logfile, refused, failed, attempts>>

\* The process leaves its event loop: callbacks not run yet never run.
LoopEnds ==
  /\ terminated /\ ~loopDone
  /\ \A f \in Flushers : pc[f] \in {"off", "done"}
  /\ loopDone' = TRUE
  /\ UNCHANGED <<memory, lists, flow, thread, closed, terminated, started, starting,
                 timedOut, handed, accepted, logfile, refused, failed, attempts>>

-----------------------------------------------------------------------------
LoopStep ==
  \/ DeliverHanded \/ Start \/ Wake
  \/ \E a \in Actors : StartRound(a) \/ TakeBatch(a) \/ ResumeWrite(a)
  \/ Terminate

ThreadStep(w) ==
  \/ ThreadStarts(w) \/ BorrowForSegment(w)
  \/ SegmentLands(w) \/ SegmentFails(w)
  \/ BatchDone(w) \/ BatchFails(w)

Next ==
  \/ \E l \in Lines : SubmitOnLoop(l) \/ SubmitOffLoop(l)
  \/ LoopStep
  \/ \E f \in Flushers : FlushCall(f) \/ CancelFlush(f)
  \/ \E w \in Workers : ThreadStep(w)
  \/ CloseBegin \/ CloseTimesOut \/ LoopEnds

Spec == Init /\ [][Next]_vars

\* The event loop keeps running its callbacks and the timer of close() fires.
\* start() is owed only once it is scheduled: an application need not run the
\* lifespan that would call it.
LoopFairness ==
  /\ WF_vars(DeliverHanded) /\ WF_vars(starting /\ Start) /\ WF_vars(Wake) /\ WF_vars(Terminate)
  /\ \A a \in Actors : WF_vars(StartRound(a)) /\ WF_vars(TakeBatch(a))
                        /\ WF_vars(ResumeWrite(a))
  /\ WF_vars(CloseTimesOut)

\* The disk answers every write, with success or with an error.
DiskAnswers == \A w \in Workers : WF_vars(ThreadStep(w))

StalledDiskSpec == Spec /\ LoopFairness
FairSpec == StalledDiskSpec /\ DiskAnswers

-----------------------------------------------------------------------------
(* What the code promises.                                                 *)

\* FR-18: the bytes held in memory, queued, in flight or parked, stay within
\* queue_max_bytes; hooks that rewrite lines can stretch that by Growth per
\* line, because admission is decided on the bytes before the rewrite.
HeldWithinBound == Held <= QueueMax * (1 + Growth)

\* The lists whose lines the sink still answers for.
LiveLists == ({retry} \ {NoBatch})
             \cup {thread[w].batch : w \in {v \in Workers : thread[v].owner # Detached}}
InMemory == Members(queue) \cup UNION {Members(content[b]) : b \in LiveLists}

\* A line submit() took is never simply gone: it is in memory, whole in a file,
\* or counted as failed, whatever fails, is torn, retried or cancelled.
NothingVanishes ==
  Members(accepted) \subseteq InMemory \cup Members(landed) \cup failed

\* One line has one fate: no line is counted by two loss counters, a refused
\* line never reaches a file, and until close() times out a line counted as
\* failed has not landed.
OneFate ==
  /\ dropped \cap late = {} /\ dropped \cap failed = {} /\ late \cap failed = {}
  /\ (dropped \cup late) \cap Members(accepted) = {}
  /\ ~timedOut => failed \cap Members(landed) = {}

\* "Exactly one retry": a line that was taken is written off only on its second
\* attempt, and never gets a third.
LostOnSecondAttempt ==
  \A l \in Lines :
    /\ attempts[l] <= 2
    /\ l \in failed \cap Members(accepted) => attempts[l] = 2

\* A close() that did not time out leaves nothing behind: every line taken is
\* in a file or counted.
CleanCloseSettlesAll ==
  terminated /\ ~timedOut => Members(accepted) \subseteq Members(landed) \cup failed

\* The sink implements the contract of SinkContract: it takes lines only while
\* open, writes each at most once and in the order it took them, retries
\* included, and never writes off a line it wrote unless close() ran out of time.
Contract == INSTANCE SinkContract WITH
  Documents <- Lines, taken <- accepted, written <- landed,
  lost <- failed \cap Members(accepted), open <- ~closed, hurried <- timedOut
KeepsContract == Contract!Spec

\* close() returns even when no write ever comes back from the disk.
CloseReturns == closed ~> terminated

\* While the sink stays open and the disk answers, every line taken by a sink
\* that has a flusher, or has scheduled one, ends in a file or in the failure
\* counter.
EveryLineSettles ==
  \A l \in Lines :
    l \in Members(accepted) /\ (started \/ starting)
      ~> (l \in Members(landed) \cup failed \/ closed)

\* What the documents sinks keep say of audit_documents_lost_total: once the
\* sink is closed and no thread is writing, every line it took is on disk or in
\* a loss counter.
EveryLossCounted ==
  terminated /\ (\A w \in Workers : thread[w].st = "idle")
    => Members(accepted) \cup Members(handed) \subseteq Members(landed) \cup failed

\* What the docstring of _write_batch says: a retry neither duplicates a written
\* line nor counts it as lost.
NoLineTwice == \A i, j \in DOMAIN landed : i # j => landed[i] # landed[j]

\* What the docstring of _whole_lines_within says: the line a write stopped inside
\* is retried from its start, so that one torn line is all the file may hold; a
\* line counted as written stands on a line of its own.
WrittenOnItsOwnLine == Members(landed) \cap glued = {}

\* What the docstring of _enqueue says: the bound covers everything held.
HeldWithinQueueMax == Held <= QueueMax
=============================================================================
