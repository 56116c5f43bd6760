------------------------------- MODULE Request -------------------------------
(***************************************************************************)
(* AuditMiddleware around one request, several at a time: what passes      *)
(* through receive and send is captured, the application's annotations go  *)
(* to the bag of the context they are made in, and when the application    *)
(* returns or raises one document is built and handed to the sink.         *)
(*                                                                         *)
(* The n-th byte a client sends is the number n.  A note in a bag is the   *)
(* request or task it was made for.  Every request has two contexts: its   *)
(* handler's, and the one of a task or thread the handler starts, which    *)
(* copies the first and may outlive the request.                           *)
(***************************************************************************)
EXTENDS Integers, Sequences, SequencesExt, FiniteSets

CONSTANTS
  None,
  Requests,
  Tasks,      \* calls of functions declared with @audited_task, each made once
  Cap,        \* max_body_bytes
  Excluded,   \* exclude_paths, as sequences of path segments
  Mixes       \* what each request may be: its path, its content type and length, the
              \* bounds on the messages, faults and annotations it may see, and sink:
              \* whether its middleware has one, for FileSink may fail to be made

ASSUME CapIsPositive == Cap \in Nat \ {0}

ASSUME RequestAssumption ==
  /\ IsFiniteSet(Requests) /\ Requests \cap Tasks = {} /\ None \notin Requests \cup Tasks
  /\ None \notin Int \cup {"start", "more", "last", "broken"}
  /\ \A k \in Mixes : DOMAIN k = Requests /\ \A r \in Requests :
       k[r].sizes \subseteq Nat /\ k[r].statuses \subseteq Int \cup {None}

Units == Requests \cup Tasks
Contexts == Requests \X {"handler", "child"}
Handler(r) == <<r, "handler">>
Child(r) == <<r, "child">>

VARIABLES
  phase,      \* of each request
  kind,       \* what each request is
  ctx,        \* RequestContext: status, bytes, ended, truncated, exc
  capture,    \* the closure's buffer, count and flags
  bags,       \* the notes in the bag each unit opened
  current,    \* _BAG in each context
  tokens,     \* the values the open tokens of a context restore
  docs,       \* what was submitted for each unit
  errors,     \* audit_middleware_errors_total
  \* What happened, whatever the code made of it:
  acting,     \* the units a context is at work for, the innermost first
  noted,      \* the units something was annotated for
  told,       \* the status line the server accepted, and whether the last chunk was
  refused     \* requests whose document a sink was there for and did not get

vars == <<phase, kind, ctx, capture, bags, current, tokens, docs, errors,
          acting, noted, told, refused>>
bagVars == <<bags, current, tokens, acting, noted>>
httpVars == <<kind, ctx, capture, told>>

NewCtx == [status |-> None, bytes |-> 0, ended |-> FALSE, truncated |-> FALSE,
           exc |-> "none", sending |-> None]
NewCapture == [buffered |-> <<>>, received |-> 0, sawMessage |-> FALSE, sawDisconnect |-> FALSE]

Init ==
  /\ phase = [r \in Requests |-> "new"]
  /\ kind \in Mixes
  /\ ctx = [r \in Requests |-> NewCtx]
  /\ capture = [r \in Requests |-> NewCapture]
  /\ bags = [u \in Units |-> {}]
  /\ current = [c \in Contexts |-> None]
  /\ tokens = [c \in Contexts |-> <<>>]
  /\ docs = [u \in Units |-> <<>>]
  /\ errors = 0
  /\ acting = [c \in Contexts |-> <<>>]
  /\ noted = {}
  /\ told = [r \in Requests |-> [status |-> None, complete |-> FALSE]]
  /\ refused = {}

-----------------------------------------------------------------------------
(* The bag of a context.                                                   *)

\* open_bag in context c, for unit u.
OpenBag(c, u, inherited) ==
  /\ bags' = [bags EXCEPT ![u] = {}]
  /\ current' = [current EXCEPT ![c] = u]
  /\ tokens' = [tokens EXCEPT ![c] = <<inherited>> \o @]
  /\ acting' = [acting EXCEPT ![c] = <<u>> \o @]

Restored_ToNothing(c) == None

\* What close_bag leaves in the context: the value before the last open_bag.
Restored(c) == Head(tokens[c])

CloseBag(c) ==
  /\ current' = [current EXCEPT ![c] = Restored(c)]
  /\ tokens' = [tokens EXCEPT ![c] = Tail(@)]
  /\ acting' = [acting EXCEPT ![c] = Tail(@)]

Notes(c) == IF current[c] = None THEN {} ELSE bags[current[c]]

\* audit.target(), detail() and the other methods: without a bag they do nothing.
Annotate(c) ==
  /\ acting[c] # <<>> /\ kind[c[1]].talks
  /\ bags' = IF current[c] = None THEN bags
             ELSE [bags EXCEPT ![current[c]] = @ \cup {Head(acting[c])}]
  /\ noted' = noted \cup {Head(acting[c])}
  /\ UNCHANGED <<phase, httpVars, current, tokens, docs, errors, acting, refused>>

\* The handler starts a task or a thread, which gets a copy of its context.
Spawn(r) ==
  /\ phase[r] = "app" /\ acting[Child(r)] = <<>> /\ kind[r].talks
  /\ current' = [current EXCEPT ![Child(r)] = current[Handler(r)]]
  /\ acting' = [acting EXCEPT ![Child(r)] = <<Head(acting[Handler(r)])>>]
  /\ UNCHANGED <<phase, httpVars, bags, tokens, noted, docs, errors, refused>>

\* async_wrapper and sync_wrapper: a bag of its own for the call.
TaskBegins(c, t) ==
  /\ acting[c] # <<>> /\ kind[c[1]].talks
  /\ docs[t] = <<>> /\ ~ \E d \in Contexts : Contains(acting[d], t)
  /\ OpenBag(c, t, current[c])
  /\ UNCHANGED <<phase, httpVars, noted, docs, errors, refused>>

\* _finish: read the bag, close it, emit; failed when an exception passes through.
TaskEnds(c, failed) ==
  /\ tokens[c] # <<>> /\ Head(acting[c]) \in Tasks
  /\ docs' = [docs EXCEPT ![Head(acting[c])] =
       Append(@, [notes |-> Notes(c), due |-> Head(acting[c]) \in noted,
                  result |-> IF failed THEN "failure" ELSE "success"])]
  /\ CloseBag(c)
  /\ UNCHANGED <<phase, httpVars, bags, noted, errors, refused>>

-----------------------------------------------------------------------------
(* The request.                                                            *)

\* _is_excluded: a prefix matches up to a segment boundary, an empty one all.
IsExcluded(path) == \E p \in Excluded : IsPrefix(p, path)

\* __call__ and the start of _handle_http.  The server may start a request in
\* a context that still holds the bag of another one.
Arrives(r, inherited) ==
  /\ phase[r] = "new"
  /\ ~IsExcluded(kind[r].path) /\ inherited # r
  /\ phase' = [phase EXCEPT ![r] = "app"]
  /\ OpenBag(Handler(r), r, inherited)
  /\ UNCHANGED <<httpVars, noted, docs, errors, refused>>

Excludes(r) ==
  /\ phase[r] = "new" /\ IsExcluded(kind[r].path)
  /\ phase' = [phase EXCEPT ![r] = "unwrapped"]
  /\ UNCHANGED <<httpVars, bagVars, docs, errors, refused>>

\* Capture could not be set up: the application runs unwrapped.
SetupFails(r) ==
  /\ phase[r] = "new" /\ ~IsExcluded(kind[r].path)
  /\ phase' = [phase EXCEPT ![r] = "unwrapped"]
  /\ errors' = errors + 1
  /\ UNCHANGED <<httpVars, bagVars, docs, refused>>

Room(r) == Cap - Len(capture[r].buffered)

Truncates_WhenFull(r, n) == n >= Room(r)

Truncates(r, n) == n > Room(r)

\* receive_w, a body message of n bytes.
ReceiveBody(r, n) ==
  /\ phase[r] = "app" /\ ~capture[r].sawDisconnect
  /\ n = 0 => ~capture[r].sawMessage
  /\ LET c == capture[r] IN
       capture' = [capture EXCEPT ![r] =
         [buffered |-> c.buffered \o SubSeq([i \in 1..n |-> c.received + i],
                                           1, IF Room(r) < n THEN Room(r) ELSE n),
          received |-> c.received + n,
          sawMessage |-> TRUE, sawDisconnect |-> c.sawDisconnect]]
  /\ ctx' = [ctx EXCEPT ![r].truncated = @ \/ (n > 0 /\ Truncates(r, n))]
  /\ UNCHANGED <<phase, kind, told, bagVars, docs, errors, refused>>

\* receive_w, http.disconnect.
ReceiveDisconnect(r) ==
  /\ phase[r] = "app" /\ ~capture[r].sawDisconnect
  /\ capture' = [capture EXCEPT ![r].sawDisconnect = TRUE]
  /\ UNCHANGED <<phase, kind, ctx, told, bagVars, docs, errors, refused>>

\* send_w, http.response.start: captured before the server sees it.  A status
\* that is no number costs an error.
SendStart(r, s) ==
  /\ phase[r] = "app" /\ ctx[r].sending = None
  /\ told[r].status = None /\ ctx[r].status = None
  /\ ctx' = [ctx EXCEPT ![r] = [@ EXCEPT !.status = s, !.sending = "start"]]
  /\ errors' = errors + (IF s = None THEN 1 ELSE 0)
  /\ UNCHANGED <<phase, kind, capture, told, bagVars, docs, refused>>

\* send_w, http.response.body: the last chunk stops the clock.
SendBody(r, n, more) ==
  /\ phase[r] = "app" /\ ctx[r].sending = None
  /\ told[r].status # None /\ ~told[r].complete /\ ctx[r].bytes + n <= kind[r].sends
  /\ ctx' = [ctx EXCEPT ![r] = 
       [ctx[r] EXCEPT !.bytes = ctx[r].bytes + n, !.ended = ctx[r].ended \/ ~more,
                      !.sending = IF more THEN "more" ELSE "last"]]
  /\ UNCHANGED <<phase, kind, capture, told, bagVars, docs, errors, refused>>

\* The server's send returns, or raises into the application, which sends no more.
Sent(r, accepted) ==
  /\ phase[r] = "app" /\ ctx[r].sending \in {"start", "more", "last"}
  /\ accepted /\ ctx[r].sending = "start" => ctx[r].status # None
  /\ ctx' = [ctx EXCEPT ![r].sending = IF accepted THEN None ELSE "broken"]
  /\ told' = IF ~accepted THEN told
             ELSE [told EXCEPT ![r].status = IF ctx[r].sending = "start" THEN ctx[r].status ELSE @,
                               ![r].complete = @ \/ ctx[r].sending = "last"]
  /\ UNCHANGED <<phase, kind, capture, bagVars, docs, errors, refused>>

-----------------------------------------------------------------------------
(* _emit.                                                                  *)

Outcome_AfterTheClock(c, sawDisconnect) ==
  IF c.exc = "transport" THEN "disconnected"
  ELSE IF c.exc = "app" \/ (c.status # None /\ c.status >= 500) THEN "failure"
  ELSE "success"

\* _outcome, decided while an open clock still means an unfinished response.
Outcome(c, sawDisconnect) ==
  IF c.exc = "transport" \/ (sawDisconnect /\ ~c.ended) THEN "disconnected"
  ELSE IF c.exc = "app" \/ (c.status # None /\ c.status >= 500) THEN "failure"
  ELSE "success"

\* result_of.
ResultOf(status, outcome) ==
  IF status \in {401, 403} THEN "denied"
  ELSE IF outcome = "disconnected" THEN "disconnected"
  ELSE IF outcome = "failure" \/ (status # None /\ status >= 400) THEN "failure"
  ELSE "success"

\* _body_skipped.
BodySkipped(r) ==
  IF kind[r].binary THEN "content_type"
  ELSE IF capture[r].buffered # <<>> THEN "captured"
  ELSE IF capture[r].sawMessage \/ kind[r].declared \in {None, 0} THEN "empty"
  ELSE "unread"

\* _request_bytes: what was counted, else what was announced.
RequestBytes(r) ==
  IF capture[r].received > 0 THEN capture[r].received
  ELSE IF kind[r].declared # None THEN kind[r].declared
  ELSE Len(capture[r].buffered)

Document_NoFallback(r, c, built, enriched) ==
  LET outcome == Outcome(c, capture[r].sawDisconnect) IN
  IF ~built THEN <<>>
  ELSE << [built    |-> built,
           enriched |-> enriched,
           outcome  |-> outcome,
           status   |-> c.status,
           result   |-> IF enriched THEN ResultOf(c.status, outcome) ELSE "none",
           body     |-> capture[r].buffered,
           truncated |-> c.truncated,
           skipped  |-> BodySkipped(r),
           bytes    |-> RequestBytes(r),
           notes    |-> IF enriched THEN Notes(Handler(r)) ELSE {},
           due      |-> r \in noted] >>

\* The document of a request: complete, without what the application said when
\* enrichment failed, or a marker with identity and outcome alone when it could
\* not be built.
Document(r, c, built, enriched) ==
  LET outcome == Outcome(c, capture[r].sawDisconnect) IN
  << [built    |-> built,
      enriched |-> built /\ enriched,
      outcome  |-> outcome,
      status   |-> c.status,
      result   |-> IF built /\ enriched THEN ResultOf(c.status, outcome) ELSE "none",
      body     |-> IF built THEN capture[r].buffered ELSE <<>>,
      truncated |-> IF built THEN c.truncated ELSE None,
      skipped  |-> IF built THEN BodySkipped(r) ELSE None,
      bytes    |-> IF built THEN RequestBytes(r) ELSE None,
      notes    |-> IF built /\ enriched THEN Notes(Handler(r)) ELSE {},
      due      |-> r \in noted] >>

\* There is a document, whole or the marker, a sink for it, and the sink takes it.
HandedOver(r, built, marked, taken) == kind[r].sink /\ (built \/ marked) /\ taken

\* The application returned or raised: the context is completed, the document
\* built, enriched and handed over, the bag closed.  Each of the resolver, the
\* build, the enrichment, the building of the marker and the sink may raise:
\* counted, never propagated.  Without a sink nothing is counted.
Emit(r, exc, resolved, built, marked, enriched, taken) ==
  LET c == [ctx[r] EXCEPT !.exc = exc, !.sending = None,
                          !.status = IF exc # "none" /\ @ = None THEN 500 ELSE @]
      doc == Document(r, c, built, enriched)
  IN /\ phase[r] = "app" /\ Len(tokens[Handler(r)]) = 1
     /\ exc = "none" => ctx[r].sending \in {None, "broken"}
     /\ built \/ ~enriched
     /\ phase' = [phase EXCEPT ![r] = "over"]
     /\ ctx' = [ctx EXCEPT ![r] = c]
     /\ docs' = IF HandedOver(r, built, marked, taken)
                THEN [docs EXCEPT ![r] = @ \o doc] ELSE docs
     /\ errors' = errors + Cardinality({f \in {"resolve", "build", "mark", "enrich", "take"} :
                    \/ f = "resolve" /\ ~resolved
                    \/ f = "build" /\ ~built
                    \/ f = "mark" /\ ~built /\ ~marked
                    \/ f = "enrich" /\ built /\ ~enriched
                    \/ f = "take" /\ kind[r].sink /\ (built \/ marked) /\ ~taken})
     /\ refused' = IF HandedOver(r, built, marked, taken) \/ ~kind[r].sink
                   THEN refused ELSE refused \cup {r}
     /\ CloseBag(Handler(r))
     /\ UNCHANGED <<kind, capture, told, bags, noted>>

Next ==
  \/ \E c \in Contexts : Annotate(c)
  \/ \E r \in Requests : Spawn(r)
  \/ \E c \in Contexts, t \in Tasks : TaskBegins(c, t)
  \/ \E c \in Contexts, failed \in BOOLEAN : TaskEnds(c, failed)
  \/ \E r \in Requests, b \in Requests \cup {None} : Arrives(r, b)
  \/ \E r \in Requests : Excludes(r) \/ SetupFails(r)
  \/ \E r \in Requests : \E n \in kind[r].sizes :
       capture[r].received + n <= kind[r].receives /\ ReceiveBody(r, n)
  \/ \E r \in Requests : ReceiveDisconnect(r)
  \/ \E r \in Requests : \E s \in kind[r].statuses : SendStart(r, s)
  \/ \E r \in Requests, more \in BOOLEAN : SendBody(r, 1, more)
  \/ \E r \in Requests, accepted \in BOOLEAN : Sent(r, accepted)
  \/ \E r \in Requests, exc \in {"none", "app", "transport"} : \E f \in kind[r].faults :
       Emit(r, exc, f # "resolve", f \notin {"build", "mark"}, f # "mark",
            f \notin {"build", "mark", "enrich"}, f # "take")

Spec == Init /\ [][Next]_vars

-----------------------------------------------------------------------------
(* Properties.                                                             *)

Captured(d) == d.skipped # "content_type"

\* FR-01: a request that was wrapped leaves exactly one document however it
\* ends, unless the sink raised on it or not even the marker could be built; one
\* that was not leaves none, and every audited request without a document is
\* counted as an error.  Where no sink could be made that one failure is counted
\* (middleware.py:222) and no request after it.
OneDocument ==
  LET over == {r \in Requests : phase[r] = "over"}
      holes == {r \in Requests : docs[r] = <<>> /\ ~IsExcluded(kind[r].path) /\ kind[r].sink
                                  /\ phase[r] \in {"over", "unwrapped"}}
  IN /\ \A r \in Requests :
          Len(docs[r]) = IF r \in over \ refused /\ kind[r].sink THEN 1 ELSE 0
     /\ Cardinality(holes) <= errors

\* FR-04, FR-08: the document shows the first Cap bytes the application read,
\* in order, says how many there were and whether that is all of them; a body
\* said to be unread or empty is one of which the application read nothing.  The
\* marker says nothing of the body.
CaptureIsTrue ==
  \A r \in Requests : docs[r] # <<>> /\ docs[r][1].built =>
    LET d == docs[r][1]
        total == capture[r].received
    IN /\ d.truncated <=> total > Cap
       /\ Captured(d) => d.body = [i \in 1..(IF total < Cap THEN total ELSE Cap) |-> i]
       /\ total > 0 => d.bytes = total
       /\ d.skipped \in {"unread", "empty"} => total = 0
       /\ d.skipped = "unread" => ~capture[r].sawMessage

AtLeast(status, n) == status # None /\ status >= n

\* FR-34: "failure" is said only of an application that raised something of its
\* own or answered 5xx, never of a cancelled request or of one whose client was
\* seen to leave before the end; "success" and "disconnected" agree with what
\* the client was told, and 401 and 403 are always a denial.
OutcomeTellsWhatHappened ==
  \A r \in Requests : docs[r] # <<>> =>
    LET d == docs[r][1]
        exc == ctx[r].exc
        cut == capture[r].sawDisconnect /\ ~ctx[r].ended
    IN /\ d.outcome = "failure" => ~cut /\ (exc = "app" \/ AtLeast(d.status, 500))
       /\ d.outcome = "success" => ~cut /\ exc = "none" /\ ~AtLeast(told[r].status, 500)
       /\ d.outcome = "disconnected" => exc = "transport" \/ ~told[r].complete
       /\ d.enriched => /\ told[r].status \in {401, 403} => d.result = "denied"
                        /\ d.result = "success" => /\ ~AtLeast(told[r].status, 400)
                                                   /\ d.outcome = "success"
                        /\ d.result = "failure" => \/ AtLeast(told[r].status, 400)
                                                   \/ exc # "none" \/ AtLeast(d.status, 400)

\* FR-54: an annotation reaches the document of the request or of the audited
\* task it is made in, through the tasks and threads started there, and no
\* other; what was annotated before a unit ended is not lost.
OwnAnnotations ==
  \A u \in Units : \A i \in DOMAIN docs[u] :
    LET d == docs[u][i] IN
    /\ d.notes \subseteq {u}
    /\ d.due /\ (u \in Requests => d.enriched) => d.notes = {u}
=============================================================================
