------------------------------ MODULE Enricher ------------------------------
(***************************************************************************)
(* The optional enricher: Enricher.apply, called by the sink's writer      *)
(* thread with the documents of a batch, its pool of worker threads, its   *)
(* cache, and close(), called from the event loop.  A lookup calls code of *)
(* the application and may return, raise or hang.                          *)
(*                                                                         *)
(* A document is [id, key], key None without a target id.  A patch tells   *)
(* whom it was looked up for, and when.  The lookups of a batch are        *)
(* numbered; one that outlives its batch keeps its worker, which is stuck. *)
(***************************************************************************)
EXTENDS Integers, Sequences, SequencesExt, FiniteSets

CONSTANTS
  None,
  Workers,     \* the pool's threads
  Rounds,      \* lookups one worker can do within _MAX_BATCH_WAIT
  TTL,         \* cache_seconds
  MaxCache,    \* max_cache
  MaxNow       \* bound on the clock

ASSUME EnricherAssumption ==
  /\ IsFiniteSet(Workers)
  /\ Rounds \in Nat /\ TTL \in Nat /\ MaxCache \in Nat /\ MaxNow \in Nat

VARIABLES
  now,
  cache,    \* _cache, oldest first: key, expires, patch
  jobs,     \* the pool's queue: lookups and, after close, the marker 0
  lookups,  \* the futures of the batch: state, patch, and the worker that runs it
  worker,   \* absent, idle, running or exited
  apply,    \* the call of apply in progress
  errors,   \* lookups of the batch that raised and were counted
  closing   \* how far close() is: no, draining, marking or done

evars == <<now, cache, jobs, lookups, worker, apply, errors, closing>>

Idle == [phase |-> "idle", docs |-> <<>>, now |-> 0, free |-> 0, of |-> <<>>,
         keyed |-> <<>>, out |-> <<>>, left |-> {}, next |-> 1]

EnricherInit ==
  /\ now = 0 /\ cache = <<>> /\ jobs = <<>> /\ lookups = <<>>
  /\ worker = [w \in Workers |-> "absent"]
  /\ apply = Idle /\ errors = 0 /\ closing = "no"

Unpatched == [tag |-> FALSE, patch |-> None]
Tagged == [tag |-> TRUE, patch |-> None]
Patched(p) == [tag |-> FALSE, patch |-> p]

Whom(doc) == IF doc.key = None THEN doc.id ELSE doc.key
State(f) == lookups[f].state
Done(f) == State(f) \in {"returned", "raised", "cancelled"}

-----------------------------------------------------------------------------
(* The pool.                                                               *)

\* The clock is read when a batch begins only, so it moves between batches, and
\* no more once close() has begun.
Tick ==
  /\ apply.phase = "idle" /\ closing = "no" /\ now < MaxNow /\ now' = now + 1
  /\ UNCHANGED <<cache, jobs, lookups, worker, apply, errors, closing>>

\* _Pool._run: the next job; a lookup that was cancelled is passed over.
TakeJob(w) ==
  /\ worker[w] = "idle" /\ jobs # <<>>
  /\ jobs' = Tail(jobs)
  /\ LET f == Head(jobs) IN
       IF f = 0 THEN worker' = [worker EXCEPT ![w] = "exited"] /\ UNCHANGED lookups
       ELSE IF State(f) = "cancelled" THEN UNCHANGED <<worker, lookups>>
       ELSE /\ worker' = [worker EXCEPT ![w] = "running"]
            /\ lookups' = [lookups EXCEPT ![f].state = "running", ![f].by = w]
  /\ UNCHANGED <<now, cache, apply, errors, closing>>

Finish(w, how) ==
  /\ worker[w] = "running"
  /\ worker' = [worker EXCEPT ![w] = "idle"]
  /\ lookups' = [f \in DOMAIN lookups |->
       IF lookups[f].by = w /\ State(f) = "running" THEN [lookups[f] EXCEPT !.state = how]
       ELSE lookups[f]]
  /\ UNCHANGED <<now, cache, jobs, apply, errors, closing>>

Busy == Cardinality({w \in Workers : worker[w] = "running"})

-----------------------------------------------------------------------------
(* apply.                                                                  *)

\* The clock and the number of free workers are read once per batch.
Enter(docs) ==
  /\ apply.phase = "idle"
  /\ apply' = [Idle EXCEPT !.phase = IF closing = "no" THEN "planning" ELSE "returned",
                           !.docs = docs, !.now = now, !.free = Cardinality(Workers) - Busy,
                           !.of = [i \in DOMAIN docs |-> 0],
                           !.out = [i \in DOMAIN docs |-> Unpatched]]
  /\ UNCHANGED <<now, cache, jobs, lookups, worker, errors, closing>>

Hit_Expired(key) == {e \in Range(cache) : e.key = key}

Hit(key) == {e \in Range(cache) : e.key = key /\ e.expires > apply.now}

\* by_key: lookups of this batch that were asked for the key.
AskedFor(key) == {apply.keyed[k].f : k \in {j \in DOMAIN apply.keyed : apply.keyed[j].key = key}}

\* A lookup goes to the queue; the first one ever starts the threads.
Submit(i) ==
  LET d == apply.docs[i]
      f == Len(lookups) + 1
      asked == [state |-> "pending", by |-> None, patch |-> [for |-> Whom(d), at |-> apply.now]]
  IN /\ lookups' = Append(lookups, asked)
     /\ jobs' = Append(jobs, f)
     /\ worker' = [w \in Workers |-> IF worker[w] = "absent" THEN "idle" ELSE worker[w]]
     /\ apply' = [apply EXCEPT !.next = i + 1, !.of[i] = f,
                    !.keyed = IF d.key = None THEN @ ELSE Append(@, [key |-> d.key, f |-> f])]

\* Or it has its answer: from the cache, from a lookup of the same key in this
\* batch, or the tag, once the budget is spent.
Answer(i) ==
  LET key == apply.docs[i].key
      next == [apply EXCEPT !.next = i + 1]
  IN \/ /\ key # None /\ Hit(key) # {}
        /\ apply' = [next EXCEPT !.out[i] = Patched((CHOOSE e \in Hit(key) : TRUE).patch)]
     \/ /\ key # None /\ Hit(key) = {} /\ AskedFor(key) # {}
        /\ apply' = [next EXCEPT !.of[i] = CHOOSE f \in AskedFor(key) : TRUE]
     \/ /\ key = None \/ Hit(key) \cup AskedFor(key) = {}
        /\ Len(lookups) >= apply.free * Rounds
        /\ apply' = [next EXCEPT !.out[i] = Tagged]

\* One turn of the loop over the documents; workers and close() go on meanwhile.
PlanOne ==
  /\ apply.phase = "planning" /\ apply.next <= Len(apply.docs)
  /\ LET key == apply.docs[apply.next].key IN
     \/ Answer(apply.next) /\ UNCHANGED <<jobs, lookups, worker>>
     \/ /\ key = None \/ Hit(key) \cup AskedFor(key) = {}
        /\ Len(lookups) < apply.free * Rounds
        /\ Submit(apply.next)
  /\ UNCHANGED <<now, cache, errors, closing>>

StartWaiting ==
  /\ apply.phase = "planning" /\ apply.next > Len(apply.docs)
  /\ apply' = [apply EXCEPT !.phase = "waiting", !.next = 1, !.left = DOMAIN lookups]
  /\ UNCHANGED <<now, cache, jobs, lookups, worker, errors, closing>>

MayStopWaiting_WhenAllDone(timeout) == \A f \in apply.left : Done(f)

\* wait(): until every lookup is done, or the capped time is over.
MayStopWaiting(timeout) == timeout \/ \A f \in apply.left : Done(f)

StopWaiting(timeout) ==
  /\ apply.phase = "waiting" /\ MayStopWaiting(timeout)
  /\ apply' = [apply EXCEPT !.phase = "settling"]
  /\ UNCHANGED <<now, cache, jobs, lookups, worker, errors, closing>>

AfterCancel_NotAsked(f) == State(f)

\* fut.cancel() takes effect on a lookup that no worker has begun.
AfterCancel(f) == IF State(f) = "pending" THEN "cancelled" ELSE State(f)

\* One turn of the loop over the futures, in any order; workers go on meanwhile.
Settle(f) ==
  /\ apply.phase = "settling" /\ f \in apply.left
  /\ lookups' = [lookups EXCEPT ![f].state = AfterCancel(f)]
  /\ errors' = errors + (IF State(f) = "raised" THEN 1 ELSE 0)
  /\ apply' = [apply EXCEPT !.left = @ \ {f}]
  /\ UNCHANGED <<now, cache, jobs, worker, closing>>

Settled ==
  /\ apply.phase = "settling" /\ apply.left = {}
  /\ apply' = [apply EXCEPT !.phase = "collecting"]
  /\ UNCHANGED <<now, cache, jobs, lookups, worker, errors, closing>>

\* What a document gets from its lookup: the tag, the patch, or nothing.
Outcome(i) ==
  LET f == apply.of[i] IN
  CASE f = 0 -> apply.out[i]
    [] f # 0 /\ State(f) = "returned" -> Patched(lookups[f].patch)
    [] f # 0 /\ State(f) = "raised" -> Unpatched
    [] OTHER -> Tagged

Collect ==
  /\ apply.phase = "collecting"
  /\ apply' = IF apply.next > Len(apply.docs)
              THEN [apply EXCEPT !.phase = "remembering", !.next = 1]
              ELSE [apply EXCEPT !.out[apply.next] = Outcome(apply.next), !.next = @ + 1]
  /\ UNCHANGED <<now, cache, jobs, lookups, worker, errors, closing>>

Forgotten(key) ==
  LET at == {i \in DOMAIN cache : cache[i].key = key}
  IN IF at = {} THEN cache ELSE RemoveAt(cache, CHOOSE i \in at : TRUE)

\* _remember: a key is moved to the end, the first ones make room.
Remember(key, f) ==
  LET others == Forgotten(key)
      room == IF Len(others) < MaxCache THEN others
              ELSE SubSeq(others, Len(others) - MaxCache + 2, Len(others))
  IN IF TTL = 0 \/ MaxCache = 0 THEN cache
     ELSE Append(room, [key |-> key, expires |-> apply.now + TTL, patch |-> lookups[f].patch])

Recall ==
  /\ apply.phase = "remembering"
  /\ IF apply.next > Len(apply.keyed)
     THEN apply' = [apply EXCEPT !.phase = "returned"] /\ UNCHANGED cache
     ELSE LET k == apply.keyed[apply.next] IN
          /\ apply' = [apply EXCEPT !.next = @ + 1]
          /\ cache' = IF State(k.f) = "returned" THEN Remember(k.key, k.f) ELSE cache
  /\ UNCHANGED <<now, jobs, lookups, worker, errors, closing>>

\* close(), on the event loop: the flag, then each job that is still in the queue
\* is taken out and cancelled, then there is a marker for every thread.
Close ==
  /\ closing = "no" /\ closing' = "draining"
  /\ UNCHANGED <<now, cache, jobs, lookups, worker, apply, errors>>

CancelJob ==
  /\ closing = "draining" /\ jobs # <<>>
  /\ jobs' = Tail(jobs)
  /\ lookups' = [f \in DOMAIN lookups |->
       IF f = Head(jobs) THEN [lookups[f] EXCEPT !.state = AfterCancel(f)] ELSE lookups[f]]
  /\ UNCHANGED <<now, cache, worker, apply, errors, closing>>

Drained ==
  /\ closing = "draining" /\ jobs = <<>> /\ closing' = "marking"
  /\ UNCHANGED <<now, cache, jobs, lookups, worker, apply, errors>>

Markers(n) == [i \in 1..n |-> 0]

PutMarkers ==
  /\ closing = "marking" /\ closing' = "done"
  /\ jobs' = jobs \o Markers(Cardinality({w \in Workers : worker[w] # "absent"}))
  /\ UNCHANGED <<now, cache, lookups, worker, apply, errors>>

\* The batch is back: a worker still at one of its lookups works for nobody, and
\* what is left of it in the queue is passed over.
Return ==
  /\ apply' = Idle /\ lookups' = <<>>
  /\ jobs' = Markers(Cardinality({i \in DOMAIN jobs : jobs[i] = 0}))
  /\ errors' = 0
  /\ UNCHANGED <<now, cache, worker, closing>>

PoolNext ==
  \/ Tick \/ Close \/ CancelJob \/ Drained \/ PutMarkers
  \/ \E w \in Workers : TakeJob(w) \/ Finish(w, "returned") \/ Finish(w, "raised")

ApplyNext ==
  \/ PlanOne \/ StartWaiting \/ Settled \/ Collect \/ Recall
  \/ \E timeout \in BOOLEAN : StopWaiting(timeout)
  \/ \E f \in DOMAIN lookups : Settle(f)

-----------------------------------------------------------------------------
(* Properties.                                                             *)

\* A batch leaves no lookup behind to be run for nobody, so the queue holds at
\* most what one batch asks for, and a key is cached once, in order of expiry,
\* which is what makes the first entry the one to evict.
NothingLeftBehind ==
  /\ apply.phase \in {"idle", "returned"} =>
       \A f \in DOMAIN lookups : State(f) # "pending"
  /\ Len(cache) <= MaxCache
  /\ \A i, j \in DOMAIN cache : i < j =>
       cache[i].key # cache[j].key /\ cache[i].expires <= cache[j].expires

\* The writer thread gets its batch back, unless the process dies, whatever the
\* lookups do: none of them needs to return.
ApplyReturns == apply.phase = "planning" ~> apply.phase \in {"returned", "idle"}
=============================================================================
