------------------------------ MODULE Lifecycle ------------------------------
(***************************************************************************)
(* The audit middlewares of one process from startup to shutdown, and      *)
(* audit.emit() beside them.  Middlewares stacked on one application see   *)
(* its lifespan, the outermost first; one around a mounted application     *)
(* sees requests only.  A sink is what SinkContract promises, reduced to   *)
(* its queue and what it has stored; a shipper passes on what is stored.   *)
(***************************************************************************)
EXTENDS Integers, Sequences, FiniteSets, Functions

CONSTANTS
  None,
  Stack,      \* the middlewares that see the lifespan, outermost first
  Mounted,    \* those that do not
  Ships,      \* the middlewares with elasticsearch_url set
  Docs,       \* the documents submitted by requests and by emit()
  MaxFaults   \* bound on failing starts

Middlewares == Range(Stack) \cup Mounted

ASSUME FiniteAssumption == IsFiniteSet(Mounted) /\ IsFiniteSet(Docs)

ASSUME StackAssumption ==
  /\ Stack # <<>> /\ Stack \in Seq(Range(Stack))
  /\ \A i, j \in DOMAIN Stack : Stack[i] = Stack[j] => i = j
  /\ Mounted \cap Range(Stack) = {}
  /\ None \notin Middlewares

VARIABLES
  stage,      \* of the lifespan: boot, starting, serving, closing, over, gone
  at, step,   \* the middleware whose turn it is, and how far it has come
  started,    \* _sink_started
  closed,     \* _sink_closed
  scheduled,  \* sinks whose start() is a task that has not run
  sink,       \* new, open, closing or closed
  queue, stored, shipped,
  shipper,    \* none, running or stopped
  enricher,   \* open or closed
  active,     \* runtime._active, by the middleware that registered
  call,       \* of each document: where its submitter stands, and for which middleware
  lost,       \* audit_documents_lost_total of each middleware's metrics
  refused,    \* audit_emit_dropped_total
  withoutSink, \* emit.dropped_without_sink
  faults,     \* failing starts so far
  graceful    \* nothing ran out of time during shutdown

life == <<stage, at, step, started, closed, shipper, enricher, faults, graceful>>
counters == <<lost, refused, withoutSink>>
vars == <<life, scheduled, sink, queue, stored, shipped, active, call, counters>>

Init ==
  /\ stage = "boot" /\ at = 1 /\ step = "sink"
  /\ started = {} /\ closed = {} /\ scheduled = {}
  /\ sink = [m \in Middlewares |-> "new"]
  /\ queue = [m \in Middlewares |-> {}]
  /\ stored = [m \in Middlewares |-> {}]
  /\ shipped = {}
  /\ shipper = [m \in Middlewares |-> "none"]
  /\ enricher = [m \in Middlewares |-> "open"]
  /\ active = None
  /\ call = [d \in Docs |-> [state |-> "new", to |-> None]]
  /\ lost = [m \in Middlewares |-> 0]
  /\ refused = [m \in Middlewares |-> 0]
  /\ withoutSink = 0 /\ faults = 0 /\ graceful = TRUE

Running == stage \in {"starting", "serving", "closing", "over"}

-----------------------------------------------------------------------------
(* A sink, as its users see it.                                            *)

\* FileSink.start, as the task _ensure_started or a submit created: nothing
\* happens once the sink is closed.
LazyStart(m) ==
  /\ m \in scheduled /\ Running
  /\ scheduled' = scheduled \ {m}
  /\ sink' = IF sink[m] = "new" THEN [sink EXCEPT ![m] = "open"] ELSE sink
  /\ UNCHANGED <<life, queue, stored, shipped, active, call, counters>>

Flush(m) ==
  /\ sink[m] = "open" /\ queue[m] # {} /\ Running
  /\ stored' = [stored EXCEPT ![m] = @ \cup queue[m]]
  /\ queue' = [queue EXCEPT ![m] = {}]
  /\ UNCHANGED <<life, scheduled, sink, shipped, active, call, counters>>

Ship(m) ==
  /\ shipper[m] = "running" /\ ~stored[m] \subseteq shipped /\ Running
  /\ shipped' = shipped \cup stored[m]
  /\ UNCHANGED <<life, scheduled, sink, queue, stored, active, call, counters>>

TakesMore(m) == sink[m] \in {"new", "open"}

\* _enqueue: the document waits in the queue, or the sink counts its loss.
Enqueue(m, d, taken) ==
  /\ taken => TakesMore(m)
  /\ queue' = IF taken THEN [queue EXCEPT ![m] = @ \cup {d}] ELSE queue
  /\ lost' = IF taken THEN lost ELSE [lost EXCEPT ![m] = @ + 1]

Starts(m, taken) == IF taken /\ sink[m] = "new" THEN {m} ELSE {}

Answered(d, m, yes) == [call EXCEPT ![d] = [state |-> IF yes THEN "yes" ELSE "no", to |-> m]]

-----------------------------------------------------------------------------
(* The request path.                                                       *)

EnsureStarted_Inactive(m) ==
  IF m \in started THEN UNCHANGED <<started, active>>
  ELSE started' = started \cup {m} /\ UNCHANGED active

\* _ensure_started: the first request of a middleware no lifespan has started.
EnsureStarted(m) ==
  IF m \in started THEN UNCHANGED <<started, active>>
  ELSE started' = started \cup {m} /\ active' = m

\* _emit of the middleware, after the document is built: no await in between.
Submit(m, d, taken) ==
  /\ Running /\ call[d].state = "new"
  /\ EnsureStarted(m)
  /\ Enqueue(m, d, taken)
  /\ scheduled' = scheduled \cup (IF m \in started THEN {} ELSE {m}) \cup Starts(m, taken)
  /\ call' = Answered(d, m, taken)
  /\ UNCHANGED <<stage, at, step, closed, shipper, enricher, faults, graceful,
                 sink, stored, shipped, refused, withoutSink>>

-----------------------------------------------------------------------------
(* audit.emit(), called at any time, on the loop or on another thread.     *)

CountsLost_Always(fate) == TRUE

\* _count_drop is told that a record is lost when no sink has counted it.
CountsLost(fate) == fate = "raises"

\* The outcome of _emit for an active middleware m: the sink takes the record,
\* refuses it and counts the loss itself, or something raised on the way.
Emitted(m, d, fate) ==
  /\ fate = "taken" => TakesMore(m)
  /\ queue' = IF fate = "taken" THEN [queue EXCEPT ![m] = @ \cup {d}] ELSE queue
  /\ lost' = [lost EXCEPT ![m] = @ + (IF fate = "refused" THEN 1 ELSE 0)
                                 + (IF fate # "taken" /\ CountsLost(fate) THEN 1 ELSE 0)]
  /\ refused' = [refused EXCEPT ![m] = @ + IF fate = "taken" THEN 0 ELSE 1]
  /\ call' = Answered(d, m, fate = "taken")

\* Without an active middleware the drop is counted in the module.
EmitFindsNone(d) ==
  /\ call[d].state = "new" /\ active = None
  /\ call' = Answered(d, None, FALSE)
  /\ withoutSink' = withoutSink + 1
  /\ UNCHANGED <<life, scheduled, sink, queue, stored, shipped, active, lost, refused>>

EmitOnLoop(d, fate) ==
  /\ Running /\ call[d].state = "new" /\ active # None
  /\ Emitted(active, d, fate)
  /\ scheduled' = scheduled \cup Starts(active, fate = "taken")
  /\ UNCHANGED <<life, sink, stored, shipped, active, withoutSink>>

\* On another thread the lifespan goes on between the two lines.
ThreadReads(d) ==
  /\ call[d].state = "new" /\ active # None
  /\ call' = [call EXCEPT ![d] = [state |-> "read", to |-> active]]
  /\ UNCHANGED <<life, scheduled, sink, queue, stored, shipped, active, counters>>

\* A sink that does not know its loop yet queues the line on this thread.
ThreadSubmits(d, fate) ==
  /\ call[d].state = "read"
  /\ fate = "taken" => sink[call[d].to] = "new"
  /\ Emitted(call[d].to, d, fate)
  /\ UNCHANGED <<life, scheduled, sink, stored, shipped, active, withoutSink>>

\* Otherwise the line goes to the loop and the answer is True already.
ThreadHandsOver(d) ==
  /\ call[d].state = "read" /\ sink[call[d].to] = "open" /\ stage # "gone"
  /\ call' = [call EXCEPT ![d].state = "handed"]
  /\ UNCHANGED <<life, scheduled, sink, queue, stored, shipped, active, counters>>

LoopEnqueues(d, taken) ==
  /\ call[d].state = "handed" /\ Running
  /\ Enqueue(call[d].to, d, taken)
  /\ call' = Answered(d, call[d].to, TRUE)
  /\ UNCHANGED <<life, scheduled, sink, stored, shipped, active, refused, withoutSink>>

-----------------------------------------------------------------------------
(* The lifespan.                                                           *)

Turn == Stack[at]
here == <<stage, at>>

\* The next middleware's turn, or the next stage.
PassOn(first, after) ==
  IF at < Len(Stack) THEN at' = at + 1 /\ step' = first /\ UNCHANGED stage
  ELSE at' = 1 /\ step' = first /\ stage' = after

\* send_w has passed startup.complete on: from here requests may come in.
StartupCompletes ==
  /\ stage = "boot" /\ stage' = "starting"
  /\ UNCHANGED <<at, step, started, closed, shipper, enricher, faults, graceful, scheduled,
                 sink, queue, stored, shipped, active, call, counters>>

\* _start_sink: nothing to do for one that a request has started.
AlreadyStarted ==
  /\ stage = "starting" /\ step = "sink" /\ Turn \in started
  /\ PassOn("sink", "serving")
  /\ UNCHANGED <<started, closed, shipper, enricher, faults, graceful, scheduled,
                 sink, queue, stored, shipped, active, call, counters>>

StartSink ==
  /\ stage = "starting" /\ step = "sink" /\ Turn \notin started
  /\ started' = started \cup {Turn} /\ step' = "activate"
  /\ UNCHANGED <<here, closed, shipper, enricher, faults, graceful, scheduled,
                 sink, queue, stored, shipped, active, call, counters>>

\* sink.start() returned or raised; the sink is active either way, and the
\* shipper, if there is to be one, starts.
Activate(ok) ==
  /\ stage = "starting" /\ step = "activate"
  /\ ok \/ faults < MaxFaults
  /\ sink' = IF ok /\ sink[Turn] = "new" THEN [sink EXCEPT ![Turn] = "open"] ELSE sink
  /\ active' = Turn
  /\ faults' = faults + IF ok THEN 0 ELSE 1
  /\ IF Turn \in Ships THEN step' = "ship" /\ UNCHANGED here ELSE PassOn("sink", "serving")
  /\ UNCHANGED <<started, closed, shipper, enricher, graceful, scheduled,
                 queue, stored, shipped, call, counters>>

StartShipper(ok) ==
  /\ stage = "starting" /\ step = "ship"
  /\ ok \/ faults < MaxFaults
  /\ shipper' = [shipper EXCEPT ![Turn] = IF ok THEN "running" ELSE "none"]
  /\ faults' = faults + IF ok THEN 0 ELSE 1
  /\ PassOn("sink", "serving")
  /\ UNCHANGED <<started, closed, enricher, graceful, scheduled,
                 sink, queue, stored, shipped, active, call, counters>>

\* receive_w has got shutdown: the outermost middleware closes first.
ShutdownArrives ==
  /\ stage = "serving" /\ stage' = "closing" /\ step' = "ship"
  /\ UNCHANGED <<at, started, closed, shipper, enricher, faults, graceful, scheduled,
                 sink, queue, stored, shipped, active, call, counters>>

\* _close_sink, first the shipper: one last pass, or none within the timeout.
CloseShipper(inTime) ==
  /\ stage = "closing" /\ step = "ship"
  /\ inTime \/ shipper[Turn] = "running"
  /\ shipped' = IF inTime /\ shipper[Turn] = "running" THEN shipped \cup stored[Turn] ELSE shipped
  /\ shipper' = [shipper EXCEPT ![Turn] = IF @ = "running" THEN "stopped" ELSE @]
  /\ graceful' = (graceful /\ inTime)
  /\ step' = "sink"
  /\ UNCHANGED <<here, started, closed, enricher, faults, scheduled,
                 sink, queue, stored, active, call, counters>>

\* The active sink is forgotten when it is the one that closes.
Cleared(m) == IF active = m THEN None ELSE active

EnricherAtClose_Too(m) == [enricher EXCEPT ![m] = "closed"]

\* What becomes of the enricher when the sink's close() is called: nothing yet.
EnricherAtClose(m) == enricher

CloseSink ==
  /\ stage = "closing" /\ step = "sink"
  /\ closed' = closed \cup {Turn}
  /\ active' = Cleared(Turn)
  /\ sink' = [sink EXCEPT ![Turn] = "closing"]
  /\ enricher' = EnricherAtClose(Turn)
  /\ step' = "drain"
  /\ UNCHANGED <<here, started, shipper, faults, graceful, scheduled,
                 queue, stored, shipped, call, counters>>

\* The sink has drained, or given up; then the enricher ends.
SinkClosed(inTime) ==
  /\ stage = "closing" /\ step = "drain"
  /\ stored' = IF inTime THEN [stored EXCEPT ![Turn] = @ \cup queue[Turn]] ELSE stored
  /\ queue' = IF inTime THEN [queue EXCEPT ![Turn] = {}] ELSE queue
  /\ sink' = [sink EXCEPT ![Turn] = "closed"]
  /\ enricher' = [enricher EXCEPT ![Turn] = "closed"]
  /\ graceful' = (graceful /\ inTime)
  /\ PassOn("ship", "over")
  /\ UNCHANGED <<started, closed, shipper, faults, scheduled, shipped, active, call, counters>>

\* The process goes on without its loop; threads may still emit.
LoopEnds ==
  /\ stage = "over" /\ stage' = "gone"
  /\ UNCHANGED <<at, step, started, closed, shipper, enricher, faults, graceful, scheduled,
                 sink, queue, stored, shipped, active, call, counters>>

Fates == {"taken", "refused", "raises"}

Next ==
  \/ \E m \in Middlewares : LazyStart(m) \/ Flush(m) \/ Ship(m)
  \/ \E m \in Middlewares, d \in Docs, taken \in BOOLEAN : Submit(m, d, taken)
  \/ \E d \in Docs : EmitFindsNone(d) \/ ThreadReads(d) \/ ThreadHandsOver(d)
  \/ \E d \in Docs, fate \in Fates : EmitOnLoop(d, fate) \/ ThreadSubmits(d, fate)
  \/ \E d \in Docs, taken \in BOOLEAN : LoopEnqueues(d, taken)
  \/ StartupCompletes \/ AlreadyStarted \/ StartSink
  \/ \E ok \in BOOLEAN : Activate(ok) \/ StartShipper(ok)
  \/ ShutdownArrives \/ CloseSink \/ LoopEnds
  \/ \E inTime \in BOOLEAN : CloseShipper(inTime) \/ SinkClosed(inTime)

Spec == Init /\ [][Next]_vars

-----------------------------------------------------------------------------
(* Properties.                                                             *)

Gone == {d \in Docs : /\ call[d].state \in {"yes", "no"}
                      /\ \A m \in Middlewares : d \notin queue[m] \cup stored[m]}

\* What a middleware's metrics, or the module for want of one, have counted as lost.
Counted(m) == IF m = None THEN withoutSink ELSE lost[m]

\* FR-39, "one loss counter": whatever is refused, raises, comes late or finds
\* no sink is counted as lost exactly once, by the middleware it was meant for,
\* or by the module when there was none; emit() says False only of a record
\* that is nowhere.
CountedOnce ==
  /\ \A m \in Middlewares \cup {None} : Counted(m) = Cardinality({d \in Gone : call[d].to = m})
  /\ \A d \in Docs : call[d].state = "no" => d \in Gone
  /\ \A m \in Middlewares :
       refused[m] <= Cardinality({d \in Docs : call[d].state = "no" /\ call[d].to = m})

\* FR-56: from the end of startup until shutdown begins emit() finds a sink,
\* whichever of a request and the lifespan started it, and at no time one whose
\* middleware has closed it, however many middlewares come and go.  A request
\* that is served while startup is still going on may come before any sink.
EmitFindsASink ==
  /\ stage = "serving" => active # None
  /\ active # None => active \in started \ closed
  /\ active # None => TakesMore(active)

\* Shutdown takes things down in the order they depend on each other: the
\* enricher outlives the sink whose writer calls it, the shipper has let go of
\* the files before their sink closes, and when the lifespan is over nothing
\* of a middleware that saw it is left running.
TornDownInOrder ==
  \A m \in Middlewares :
    /\ enricher[m] = "closed" => sink[m] = "closed"
    /\ sink[m] \in {"closing", "closed"} => shipper[m] # "running"
    /\ stage \in {"over", "gone"} /\ m \in Range(Stack) =>
         sink[m] = "closed" /\ enricher[m] = "closed" /\ shipper[m] # "running"

\* shipper.py:240, "Final drain, so a graceful shutdown does not strand the last
\* records": when nothing failed or ran out of time, what a middleware with a
\* running shipper has stored has been shipped once its lifespan is over.
GracefulShutdownShipsAll ==
  stage = "over" /\ graceful =>
    \A m \in Range(Stack) : shipper[m] = "stopped" => stored[m] \subseteq shipped
=============================================================================
