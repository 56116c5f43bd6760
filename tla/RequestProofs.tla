---------------------------- MODULE RequestProofs ----------------------------
(***************************************************************************)
(* For any number of requests and audited tasks, any message sizes and any *)
(* max_body_bytes: one document per wrapped request, true to the body the  *)
(* application read and to how it ended, with its own annotations and no   *)
(* others.                                                                 *)
(***************************************************************************)
EXTENDS Request, FiniteSetTheorems, SequenceTheorems, TLAPS

-----------------------------------------------------------------------------
(* What is captured of the body.                                           *)

SmallerOf(a, b) == IF a < b THEN a ELSE b

\* The first bytes of a body, as many as are kept of n.
FirstOf(n) == [i \in 1..SmallerOf(n, Cap) |-> i]

Statuses == {None, 500} \cup UNION {UNION {k[r].statuses : r \in Requests} : k \in Mixes}

CtxRecord ==
  [status : Statuses, bytes : Nat, ended : BOOLEAN, truncated : BOOLEAN,
   exc : {"none", "app", "transport"}, sending : {None, "start", "more", "last", "broken"}]

CaptureRecord ==
  [buffered : Seq(Nat), received : Nat, sawMessage : BOOLEAN, sawDisconnect : BOOLEAN]

CaptureTyped ==
  /\ phase \in [Requests -> {"new", "app", "unwrapped", "over"}]
  /\ kind \in Mixes
  /\ ctx \in [Requests -> CtxRecord] /\ capture \in [Requests -> CaptureRecord]
  /\ DOMAIN docs = Units

\* Buffer, count and flag of a request agree.
Agree(r) ==
  /\ capture[r].buffered = FirstOf(capture[r].received)
  /\ ctx[r].truncated <=> capture[r].received > Cap
  /\ ~capture[r].sawMessage => capture[r].received = 0

\* What the document of a request says of its body.
Tells(d, r) ==
  d.built =>
  LET total == capture[r].received IN
  /\ d.truncated <=> total > Cap
  /\ Captured(d) => d.body = FirstOf(total)
  /\ total > 0 => d.bytes = total
  /\ d.skipped \in {"unread", "empty"} => total = 0
  /\ d.skipped = "unread" => ~capture[r].sawMessage

Documented ==
  \A r \in Requests :
    /\ docs[r] # <<>> => phase[r] = "over"
    /\ docs[r] # <<>> => Len(docs[r]) = 1 /\ Tells(docs[r][1], r)

CInv == CaptureTyped /\ (\A r \in Requests : Agree(r)) /\ Documented

LEMMA FirstOfType ==
  ASSUME NEW n \in Nat
  PROVE  /\ FirstOf(n) \in Seq(Nat)
         /\ Len(FirstOf(n)) = SmallerOf(n, Cap) /\ SmallerOf(n, Cap) \in Nat
         /\ FirstOf(n) = <<>> <=> n = 0
<1>1. SmallerOf(n, Cap) \in Nat /\ (SmallerOf(n, Cap) = 0 <=> n = 0)
  BY CapIsPositive DEF SmallerOf
<1>2. FirstOf(n) \in [1..SmallerOf(n, Cap) -> Nat]
  BY <1>1 DEF FirstOf
<1>3. FirstOf(n) \in Seq(Nat) /\ Len(FirstOf(n)) = SmallerOf(n, Cap)
  BY <1>1, <1>2, IsASeq, LenProperties
<1> QED  BY <1>1, <1>3, EmptySeq

LEMMA Concatenated ==
  ASSUME NEW a \in Seq(Nat), NEW b \in Seq(Nat), NEW c \in Seq(Nat),
         Len(c) = Len(a) + Len(b),
         \A i \in 1..Len(a) : c[i] = a[i],
         \A i \in 1..Len(b) : c[Len(a) + i] = b[i]
  PROVE  a \o b = c
<1>1. /\ a \o b \in Seq(Nat) /\ Len(a \o b) = Len(c)
      /\ \A i \in 1..(Len(a) + Len(b)) :
           (a \o b)[i] = IF i <= Len(a) THEN a[i] ELSE b[i - Len(a)]
  BY ConcatProperties
<1>2. ASSUME NEW i \in 1..Len(c) PROVE (a \o b)[i] = c[i]
  <2>1. CASE i <= Len(a)
    BY <1>1, <2>1
  <2>2. CASE i > Len(a)
    <3>1. i - Len(a) \in 1..Len(b) /\ Len(a) + (i - Len(a)) = i
      BY <2>2
    <3>2. (a \o b)[i] = b[i - Len(a)]
      BY <1>1, <2>2
    <3>3. c[Len(a) + (i - Len(a))] = b[i - Len(a)]
      BY <3>1
    <3> QED  BY <3>1, <3>2, <3>3
  <2> QED  BY <2>1, <2>2
<1> QED  BY <1>1, <1>2, SeqEqual

\* A message adds the next bytes, as far as there is room.
LEMMA BufferGrows ==
  ASSUME NEW t \in Nat, NEW n \in Nat
  PROVE  LET room == Cap - Len(FirstOf(t))
         IN  /\ FirstOf(t) \o SubSeq([i \in 1..n |-> t + i], 1, IF room < n THEN room ELSE n)
                = FirstOf(t + n)
             /\ t + n > Cap <=> t > Cap \/ (n > 0 /\ n > room)
<1> DEFINE room == Cap - Len(FirstOf(t))
           k == IF room < n THEN room ELSE n
           new == [i \in 1..n |-> t + i]
<1>1. Len(FirstOf(t)) = SmallerOf(t, Cap) /\ FirstOf(t) \in Seq(Nat) /\ Cap \in Nat
  BY FirstOfType, CapIsPositive
<1>2. k \in 0..n /\ room \in Nat
  BY <1>1 DEF SmallerOf
<1>3. new \in Seq(Nat) /\ Len(new) = n
  BY IsASeq
<1>4. SubSeq(new, 1, k) \in Seq(Nat) /\ Len(SubSeq(new, 1, k)) = k
      /\ \A i \in 1..k : SubSeq(new, 1, k)[i] = t + i
  BY <1>2, <1>3
<1>5. SmallerOf(t + n, Cap) = SmallerOf(t, Cap) + k /\ t + n \in Nat
  BY <1>1 DEF SmallerOf
<1>6. FirstOf(t) \o SubSeq(new, 1, k) = FirstOf(t + n)
  <2>1. FirstOf(t + n) \in Seq(Nat) /\ Len(FirstOf(t + n)) = Len(FirstOf(t)) + k
    <3>1. FirstOf(t + n) \in Seq(Nat) /\ Len(FirstOf(t + n)) = SmallerOf(t + n, Cap)
      BY <1>5, FirstOfType
    <3> QED  BY <1>1, <1>5, <3>1
  <2>2. \A i \in 1..Len(FirstOf(t)) : FirstOf(t + n)[i] = FirstOf(t)[i]
    <3> SUFFICES ASSUME NEW i \in 1..SmallerOf(t, Cap)
                 PROVE  FirstOf(t + n)[i] = FirstOf(t)[i]
      BY <1>1
    <3>1. i \in 1..SmallerOf(t + n, Cap)
      BY <1>1, <1>2, <1>5 DEF SmallerOf
    <3> QED  BY <3>1 DEF FirstOf
  <2>3. ASSUME NEW i \in 1..k PROVE FirstOf(t + n)[Len(FirstOf(t)) + i] = SubSeq(new, 1, k)[i]
    <3>1. SmallerOf(t, Cap) = t
      BY <1>1, <1>2 DEF SmallerOf
    <3>2. t + i \in 1..SmallerOf(t + n, Cap)
      BY <1>2, <1>5, <3>1
    <3> QED  BY <1>1, <1>4, <3>1, <3>2 DEF FirstOf
  <2> HIDE DEF new, k
  <2> QED  BY <1>1, <1>4, <2>1, <2>2, <2>3, Concatenated
<1>7. t + n > Cap <=> t > Cap \/ (n > 0 /\ n > room)
  BY <1>1 DEF SmallerOf
<1> QED  BY <1>6, <1>7

LEMMA CInit == Init => CInv
<1> SUFFICES ASSUME Init PROVE CInv
  OBVIOUS
<1>1. FirstOf(0) = <<>> /\ <<>> \in Seq(Nat)
  BY FirstOfType
<1>2. NewCtx \in CtxRecord /\ NewCapture \in CaptureRecord
  BY <1>1 DEF NewCtx, NewCapture, CtxRecord, CaptureRecord, Statuses
<1>3. CaptureTyped
  BY <1>2 DEF Init, CaptureTyped
<1>4. \A r \in Requests : Agree(r)
  BY <1>1, CapIsPositive DEF Init, Agree, NewCtx, NewCapture
<1>5. Documented
  BY DEF Init, Documented, Units
<1> QED  BY <1>3, <1>4, <1>5 DEF CInv

\* What leaves the messages, the phases and the requests' documents alone.
LEMMA CElsewhere ==
  ASSUME CInv, UNCHANGED <<phase, httpVars>>, DOMAIN docs' = Units,
         \A r \in Requests : docs'[r] = docs[r]
  PROVE  CInv'
  BY DEF CInv, httpVars, CaptureTyped, Agree, Documented, Tells

\* What one request does leaves the others alone.
LEMMA COneRequest ==
  ASSUME CInv, NEW r \in Requests, CaptureTyped', Agree(r)',
         (docs[r] # <<>> => phase[r] = "over" /\ Len(docs[r]) = 1 /\ Tells(docs[r][1], r))',
         \A q \in Requests \ {r} : /\ phase'[q] = phase[q] /\ ctx'[q] = ctx[q]
                                   /\ capture'[q] = capture[q] /\ docs'[q] = docs[q]
  PROVE  CInv'
<1>1. \A q \in Requests : Agree(q)'
  BY DEF CInv, Agree
<1>2. Documented'
  BY DEF CInv, Documented, Tells
<1> QED  BY <1>1, <1>2 DEF CInv

SendStages == {None, "start", "more", "last", "broken"}

\* A response message edits the context without leaving its type.
WithMessage(c, more) ==
  [c EXCEPT !.bytes = c.bytes + 1, !.ended = c.ended \/ ~more,
            !.sending = IF more THEN "more" ELSE "last"]

LEMMA CtxOfMessage ==
  ASSUME NEW c \in CtxRecord, NEW more \in BOOLEAN
  PROVE  WithMessage(c, more) \in CtxRecord /\ WithMessage(c, more).truncated = c.truncated
<1> DEFINE e == c.ended \/ ~more
           s == IF more THEN "more" ELSE "last"
           b == c.bytes + 1
<1>1. e \in BOOLEAN
  BY Zenon
<1>2. s \in SendStages /\ b \in Nat
  BY DEF SendStages, CtxRecord
<1>3. WithMessage(c, more) = [c EXCEPT !.bytes = b, !.ended = e, !.sending = s]
  BY Zenon DEF WithMessage
<1> HIDE DEF e, s, b
<1> QED  BY <1>1, <1>2, <1>3 DEF CtxRecord, SendStages

\* So does the end of the request.
LEMMA CtxOfEnd ==
  ASSUME NEW c \in CtxRecord, NEW st \in Statuses, NEW x \in {"none", "app", "transport"}
  PROVE  /\ [c EXCEPT !.exc = x, !.sending = None, !.status = st] \in CtxRecord
         /\ [c EXCEPT !.exc = x, !.sending = None, !.status = st].truncated = c.truncated
  BY DEF CtxRecord

LEMMA CMessages ==
  ASSUME CInv, NEW r \in Requests,
         \/ \E n \in kind[r].sizes : ReceiveBody(r, n)
         \/ ReceiveDisconnect(r)
         \/ \E s \in kind[r].statuses : SendStart(r, s)
         \/ \E more \in BOOLEAN : SendBody(r, 1, more)
         \/ \E accepted \in BOOLEAN : Sent(r, accepted)
  PROVE  CInv'
<1> USE DEF CInv
<1>1. CaptureTyped /\ Agree(r) /\ (phase[r] # "over" => docs[r] = <<>>)
  BY DEF Documented
<1>2. kind[r].sizes \subseteq Nat /\ kind[r].statuses \subseteq Statuses
  BY <1>1, RequestAssumption DEF CaptureTyped, Statuses
<1>3. ASSUME NEW n \in kind[r].sizes, ReceiveBody(r, n) PROVE CInv'
  <2> DEFINE c == capture[r]
             k == IF Room(r) < n THEN Room(r) ELSE n
             kept == SubSeq([i \in 1..n |-> c.received + i], 1, k)
  <2>1. /\ c.received \in Nat /\ n \in Nat /\ c.buffered = FirstOf(c.received)
        /\ c \in CaptureRecord
    BY <1>1, <1>2 DEF CaptureTyped, CaptureRecord, Agree
  <2>2. /\ c.buffered \o kept = FirstOf(c.received + n)
        /\ c.received + n > Cap <=> c.received > Cap \/ (n > 0 /\ Truncates(r, n))
    BY <2>1, BufferGrows DEF Room, Truncates
  <2>3. FirstOf(c.received + n) \in Seq(Nat)
    BY <2>1, FirstOfType
  <2>4. capture' = [capture EXCEPT ![r] =
          [buffered |-> FirstOf(c.received + n), received |-> c.received + n,
           sawMessage |-> TRUE, sawDisconnect |-> c.sawDisconnect]]
    BY <1>3, <2>2 DEF ReceiveBody
  <2>5. ctx' = [ctx EXCEPT ![r].truncated = @ \/ (n > 0 /\ Truncates(r, n))]
    BY <1>3 DEF ReceiveBody
  <2>6. /\ phase[r] = "app" /\ UNCHANGED <<phase, kind, docs>>
        /\ n = 0 => ~c.sawMessage
    BY <1>3 DEF ReceiveBody
  <2>7. CaptureTyped'
    <3>1. capture' \in [Requests -> CaptureRecord]
      BY <1>1, <2>1, <2>3, <2>4 DEF CaptureTyped, CaptureRecord
    <3>2. ctx' \in [Requests -> CtxRecord]
      BY <1>1, <2>5, ZenonT(60) DEF CaptureTyped, CtxRecord
    <3> QED  BY <1>1, <2>6, <3>1, <3>2 DEF CaptureTyped
  <2>8. Agree(r)'
    <3>1. /\ capture'[r].received = c.received + n /\ capture'[r].sawMessage = TRUE
          /\ capture'[r].buffered = FirstOf(c.received + n)
      BY <1>1, <2>1, <2>4 DEF CaptureTyped, CaptureRecord
    <3>2. ctx'[r].truncated <=> ctx[r].truncated \/ (n > 0 /\ Truncates(r, n))
      BY <1>1, <2>5 DEF CaptureTyped, CtxRecord
    <3> QED  BY <1>1, <2>2, <3>1, <3>2 DEF Agree
  <2>9. \A q \in Requests \ {r} : capture'[q] = capture[q] /\ ctx'[q] = ctx[q]
    BY <1>1, <2>4, <2>5 DEF CaptureTyped
  <2> QED  BY <1>1, <2>6, <2>7, <2>8, <2>9, COneRequest
<1>4. CASE ReceiveDisconnect(r)
  <2>1. CaptureTyped' /\ Agree(r)' /\ \A q \in Requests \ {r} : capture'[q] = capture[q]
    BY <1>1, <1>4 DEF ReceiveDisconnect, CaptureTyped, CaptureRecord, Agree
  <2> QED  BY <1>1, <1>4, <2>1, COneRequest DEF ReceiveDisconnect
<1>5. ASSUME NEW s \in Statuses, SendStart(r, s) PROVE CInv'
  <2>1. CaptureTyped' /\ Agree(r)' /\ \A q \in Requests \ {r} : ctx'[q] = ctx[q]
    BY <1>1, <1>5 DEF SendStart, CaptureTyped, CtxRecord, Agree
  <2> QED  BY <1>1, <1>5, <2>1, COneRequest DEF SendStart
<1>6. ASSUME NEW more \in BOOLEAN, SendBody(r, 1, more) PROVE CInv'
  <2> DEFINE c == WithMessage(ctx[r], more)
  <2>1. ctx' = [ctx EXCEPT ![r] = c]
    BY <1>6, Zenon DEF SendBody, WithMessage
  <2>2. c \in CtxRecord /\ c.truncated = ctx[r].truncated
    BY <1>1, CtxOfMessage DEF CaptureTyped
  <2> HIDE DEF c
  <2>3. CaptureTyped' /\ Agree(r)' /\ \A q \in Requests \ {r} : ctx'[q] = ctx[q]
    BY <1>1, <1>6, <2>1, <2>2 DEF SendBody, CaptureTyped, Agree
  <2> QED  BY <1>1, <1>6, <2>3, COneRequest DEF SendBody
<1>7. ASSUME NEW accepted \in BOOLEAN, Sent(r, accepted) PROVE CInv'
  <2> DEFINE s == IF accepted THEN None ELSE "broken"
             c == [ctx[r] EXCEPT !.sending = s]
  <2>1. ctx' = [ctx EXCEPT ![r] = c]
    BY <1>7 DEF Sent
  <2>2. c \in CtxRecord /\ c.truncated = ctx[r].truncated
    BY <1>1 DEF CaptureTyped, CtxRecord
  <2> HIDE DEF c
  <2>3. CaptureTyped' /\ Agree(r)' /\ \A q \in Requests \ {r} : ctx'[q] = ctx[q]
    BY <1>1, <1>7, <2>1, <2>2 DEF Sent, CaptureTyped, Agree
  <2> QED  BY <1>1, <1>7, <2>3, COneRequest DEF Sent
<1> QED  BY <1>2, <1>3, <1>4, <1>5, <1>6, <1>7

LEMMA FirstDocument == \A d : <<>> \o <<d>> = <<d>> /\ Len(<<d>>) = 1 /\ <<d>>[1] = d
<1> SUFFICES ASSUME NEW d PROVE <<>> \o <<d>> = <<d>> /\ Len(<<d>>) = 1 /\ <<d>>[1] = d
  OBVIOUS
<1>1. <<d>> \in Seq({d})
  OBVIOUS
<1> QED  BY <1>1, ConcatEmptySeq

\* The end of a request: what the document says is what has been captured.
LEMMA CEmit ==
  ASSUME CInv, NEW r \in Requests, NEW exc \in {"none", "app", "transport"},
         NEW resolved \in BOOLEAN, NEW built \in BOOLEAN, NEW enriched \in BOOLEAN,
         NEW marked \in BOOLEAN, NEW taken \in BOOLEAN,
         Emit(r, exc, resolved, built, marked, enriched, taken)
  PROVE  CInv'
<1> DEFINE c == [ctx[r] EXCEPT !.exc = exc, !.sending = None,
                               !.status = IF exc # "none" /\ @ = None THEN 500 ELSE @]
           doc == Document(r, c, built, enriched)
           got == HandedOver(r, built, marked, taken)
<1> USE DEF CInv
<1>1. CaptureTyped /\ Agree(r) /\ docs[r] = <<>> /\ r \in Units
  BY DEF Documented, Emit, Units
<1>2. /\ c \in CtxRecord /\ c.truncated = ctx[r].truncated
      /\ ctx' = [ctx EXCEPT ![r] = c]
      /\ phase' = [phase EXCEPT ![r] = "over"]
      /\ UNCHANGED <<kind, capture>>
      /\ docs' = IF got THEN [docs EXCEPT ![r] = @ \o doc] ELSE docs
  <2> DEFINE st == IF exc # "none" /\ ctx[r].status = None THEN 500 ELSE ctx[r].status
  <2>1. ctx[r] \in CtxRecord
    BY <1>1 DEF CaptureTyped
  <2>2. st \in Statuses
    BY <2>1 DEF CtxRecord, Statuses
  <2>3. c = [ctx[r] EXCEPT !.exc = exc, !.sending = None, !.status = st]
    OBVIOUS
  <2> HIDE DEF st, doc
  <2>4. c \in CtxRecord /\ c.truncated = ctx[r].truncated
    <3> HIDE DEF c
    <3>1. [ctx[r] EXCEPT !.exc = exc, !.sending = None, !.status = st] \in CtxRecord
          /\ [ctx[r] EXCEPT !.exc = exc, !.sending = None, !.status = st].truncated
               = ctx[r].truncated
      BY <2>1, <2>2, CtxOfEnd
    <3> QED  BY <2>3, <3>1
  <2>5. /\ ctx' = [ctx EXCEPT ![r] = c]
        /\ phase' = [phase EXCEPT ![r] = "over"]
        /\ UNCHANGED <<kind, capture>>
        /\ docs' = IF got THEN [docs EXCEPT ![r] = @ \o doc] ELSE docs
    <3> USE DEF doc
    <3> QED  BY Zenon DEF Emit
  <2> QED  BY <2>4, <2>5
<1>3. CaptureTyped' /\ Agree(r)'
  BY <1>1, <1>2 DEF CaptureTyped, Agree
<1>4. Tells(doc[1], r)
  <2>1. FirstOf(capture[r].received) = <<>> <=> capture[r].received = 0
    BY <1>1, FirstOfType DEF CaptureTyped, CaptureRecord
  <2>2. doc[1].built =>
          /\ doc[1].truncated <=> capture[r].received > Cap
          /\ doc[1].body = FirstOf(capture[r].received)
          /\ doc[1].bytes = RequestBytes(r) /\ doc[1].skipped = BodySkipped(r)
    BY <1>1, <1>2 DEF Document, Agree
  <2>3. capture[r].received > 0 => RequestBytes(r) = capture[r].received
    BY DEF RequestBytes
  <2>4. /\ BodySkipped(r) \in {"unread", "empty"} => capture[r].received = 0
        /\ BodySkipped(r) = "unread" => ~capture[r].sawMessage
    BY <1>1, <2>1 DEF BodySkipped, Agree
  <2> QED  BY <2>2, <2>3, <2>4 DEF Tells, Captured
<1>5. got => docs'[r] = doc /\ Len(doc) = 1
  <2>1. doc = <<doc[1]>>
    BY FirstDocument, Zenon DEF Document
  <2>2. got => docs'[r] = <<>> \o doc
    BY <1>1, <1>2 DEF CaptureTyped
  <2> HIDE DEF doc
  <2> QED  BY <2>1, <2>2, FirstDocument
<1>6. Tells(doc[1], r) => (docs[r] # <<>> => Tells(docs[r][1], r))'
  BY <1>1, <1>2, <1>5 DEF Tells
<1> QED  BY <1>1, <1>2, <1>3, <1>4, <1>5, <1>6, COneRequest DEF CaptureTyped

LEMMA CStep == CInv /\ [Next]_vars => CInv'
<1> SUFFICES ASSUME CInv, [Next]_vars PROVE CInv'
  OBVIOUS
<1> USE DEF CInv
<1>1. CASE UNCHANGED vars
  BY <1>1, CElsewhere DEF vars, httpVars, CaptureTyped
<1>2. ASSUME NEW x \in Contexts, Annotate(x) PROVE CInv'
  BY <1>2, CElsewhere DEF Annotate, CaptureTyped
<1>3. ASSUME NEW r \in Requests, Spawn(r) PROVE CInv'
  BY <1>3, CElsewhere DEF Spawn, CaptureTyped
<1>4. ASSUME NEW x \in Contexts, NEW t \in Tasks, TaskBegins(x, t) PROVE CInv'
  BY <1>4, CElsewhere DEF TaskBegins, CaptureTyped
<1>5. ASSUME NEW x \in Contexts, NEW failed \in BOOLEAN, TaskEnds(x, failed) PROVE CInv'
  BY <1>5, CElsewhere, RequestAssumption DEF TaskEnds, CaptureTyped
<1>6. ASSUME NEW r \in Requests,
             Excludes(r) \/ SetupFails(r) \/ \E b \in Requests \cup {None} : Arrives(r, b)
      PROVE  CInv'
  <2>1. /\ phase[r] = "new" /\ phase' \in [Requests -> {"new", "app", "unwrapped", "over"}]
        /\ UNCHANGED <<kind, ctx, capture, docs>>
        /\ \A q \in Requests \ {r} : phase'[q] = phase[q]
    BY <1>6 DEF Excludes, SetupFails, Arrives, httpVars, CaptureTyped
  <2>2. CaptureTyped' /\ Agree(r)' /\ docs[r] = <<>>
    BY <2>1 DEF CaptureTyped, Agree, Documented
  <2> QED  BY <2>1, <2>2, COneRequest
<1>7. ASSUME NEW r \in Requests,
             \/ \E n \in kind[r].sizes :
                  capture[r].received + n <= kind[r].receives /\ ReceiveBody(r, n)
             \/ ReceiveDisconnect(r)
             \/ \E s \in kind[r].statuses : SendStart(r, s)
             \/ \E more \in BOOLEAN : SendBody(r, 1, more)
             \/ \E accepted \in BOOLEAN : Sent(r, accepted)
      PROVE  CInv'
  BY <1>7, CMessages
<1>8. ASSUME NEW r \in Requests, NEW exc \in {"none", "app", "transport"}, NEW f,
             Emit(r, exc, f # "resolve", f \notin {"build", "mark"}, f # "mark",
                  f \notin {"build", "mark", "enrich"}, f # "take")
      PROVE  CInv'
  BY <1>8, CEmit
<1> QED  BY <1>1, <1>2, <1>3, <1>4, <1>5, <1>6, <1>7, <1>8 DEF Next

\* The document shows the first max_body_bytes bytes the application read, in
\* order, and says how many there were and whether that is all of them.
THEOREM CaptureIsTrueHolds == Spec => []CaptureIsTrue
<1>1. CInv => CaptureIsTrue
  BY DEF CInv, CaptureTyped, CaptureRecord, Documented, Tells, CaptureIsTrue, FirstOf, SmallerOf
<1> QED  BY <1>1, CInit, CStep, PTL DEF Spec

-----------------------------------------------------------------------------
(* One document per wrapped request.                                       *)

\* Wrapped or not, an audited request that is gone and left no document.
Holes == {r \in Requests : /\ docs[r] = <<>> /\ ~IsExcluded(kind[r].path) /\ kind[r].sink
                          /\ phase[r] \in {"over", "unwrapped"}}

Settled ==
  \A r \in Requests : /\ docs[r] # <<>> <=> phase[r] = "over" /\ r \notin refused /\ kind[r].sink
                      /\ r \in refused => phase[r] = "over"

SInv == Settled /\ errors \in Nat /\ Cardinality(Holes) <= errors

LEMMA HolesFinite == IsFiniteSet(Holes) /\ Cardinality(Holes) \in Nat
  BY RequestAssumption, FS_Subset, FS_CardinalityType DEF Holes

\* A hole costs an error.
LEMMA HolesCounted ==
  ASSUME SInv, NEW r \in Requests, errors' \in Nat,
         \/ Holes' \subseteq Holes /\ errors' >= errors
         \/ Holes' \subseteq Holes \cup {r} /\ errors' >= errors + 1
  PROVE  Cardinality(Holes') <= errors'
<1>1. IsFiniteSet(Holes \cup {r}) /\ Cardinality(Holes \cup {r}) <= Cardinality(Holes) + 1
  BY HolesFinite, FS_AddElement
<1>2. CASE Holes' \subseteq Holes /\ errors' >= errors
  <2>1. Cardinality(Holes') \in Nat /\ Cardinality(Holes') <= Cardinality(Holes)
    BY <1>2, HolesFinite, FS_Subset, FS_CardinalityType
  <2> QED  BY <1>2, <2>1, HolesFinite DEF SInv
<1>3. CASE Holes' \subseteq Holes \cup {r} /\ errors' >= errors + 1
  <2>1. /\ Cardinality(Holes') \in Nat
        /\ Cardinality(Holes') <= Cardinality(Holes \cup {r})
        /\ Cardinality(Holes \cup {r}) \in Nat
    BY <1>1, <1>3, FS_Subset, FS_CardinalityType
  <2> QED  BY <1>1, <1>3, <2>1, HolesFinite DEF SInv
<1> QED  BY <1>2, <1>3

LEMMA SInit == Init => SInv
<1> SUFFICES ASSUME Init PROVE SInv
  OBVIOUS
<1>1. Holes = {}
  BY DEF Init, Holes
<1> QED  BY <1>1, FS_EmptySet DEF Init, SInv, Settled, Units

\* What leaves the phases and the requests' documents alone.
LEMMA SElsewhere ==
  ASSUME SInv, UNCHANGED <<phase, kind, refused>>, errors' \in Nat, errors' >= errors,
         \A r \in Requests : docs'[r] = docs[r]
  PROVE  SInv'
<1>1. Settled'
  BY DEF SInv, Settled
<1>2. Holes' = Holes
  BY DEF Holes
<1> QED  BY <1>1, <1>2, HolesFinite DEF SInv

\* Emit counts what it could not hand over.
LEMMA SEmit ==
  ASSUME CInv, CInv', SInv, NEW r \in Requests, NEW exc, NEW resolved \in BOOLEAN,
         NEW built \in BOOLEAN, NEW marked \in BOOLEAN, NEW enriched \in BOOLEAN,
         NEW taken \in BOOLEAN, Emit(r, exc, resolved, built, marked, enriched, taken)
  PROVE  SInv'
<1> DEFINE F == {f \in {"resolve", "build", "mark", "enrich", "take"} :
                    \/ f = "resolve" /\ ~resolved
                    \/ f = "build" /\ ~built
                    \/ f = "mark" /\ ~built /\ ~marked
                    \/ f = "enrich" /\ built /\ ~enriched
                    \/ f = "take" /\ kind[r].sink /\ (built \/ marked) /\ ~taken}
           doc == Document(r, [ctx[r] EXCEPT !.exc = exc, !.sending = None,
                     !.status = IF exc # "none" /\ @ = None THEN 500 ELSE @], built, enriched)
           got == HandedOver(r, built, marked, taken)
<1>1. /\ phase[r] = "app" /\ phase' = [phase EXCEPT ![r] = "over"]
      /\ docs' = IF got THEN [docs EXCEPT ![r] = @ \o doc] ELSE docs
      /\ refused' = IF got \/ ~kind[r].sink THEN refused ELSE refused \cup {r}
      /\ UNCHANGED kind
  BY Zenon DEF Emit
<1>2. errors' = errors + Cardinality(F)
  BY Zenon DEF Emit
<1>3. Cardinality(F) \in Nat /\ (kind[r].sink /\ ~got => Cardinality(F) >= 1)
  <2>1. IsFiniteSet({"resolve", "build", "mark", "enrich", "take"})
    <3>1. IsFiniteSet({"resolve"} \cup {"build"})
      BY FS_Singleton, FS_AddElement
    <3>2. IsFiniteSet(({"resolve"} \cup {"build"}) \cup {"mark"})
      BY <3>1, FS_AddElement
    <3>3. IsFiniteSet((({"resolve"} \cup {"build"}) \cup {"mark"}) \cup {"enrich"})
      BY <3>2, FS_AddElement
    <3>4. IsFiniteSet(((({"resolve"} \cup {"build"}) \cup {"mark"}) \cup {"enrich"}) \cup {"take"})
      BY <3>3, FS_AddElement
    <3>5. ((({"resolve"} \cup {"build"}) \cup {"mark"}) \cup {"enrich"}) \cup {"take"}
            = {"resolve", "build", "mark", "enrich", "take"}
      OBVIOUS
    <3> QED  BY <3>4, <3>5, Zenon
  <2>2. IsFiniteSet(F)
    BY <2>1, FS_Subset
  <2>3. kind[r].sink /\ ~got => F # {}
    <3>1. ~built /\ ~marked => "mark" \in F
      OBVIOUS
    <3>2. kind[r].sink /\ (built \/ marked) /\ ~taken => "take" \in F
      OBVIOUS
    <3> HIDE DEF F
    <3> QED  BY <3>1, <3>2 DEF HandedOver
  <2> HIDE DEF F, got
  <2>4. Cardinality(F) \in Nat /\ (Cardinality(F) = 0 <=> F = {})
    BY <2>2, FS_CardinalityType, FS_EmptySet
  <2> QED  BY <2>3, <2>4
<1> HIDE DEF F, doc, got
<1>4. docs[r] = <<>> /\ DOMAIN docs = Units /\ r \in Units
  BY <1>1 DEF CInv, CaptureTyped, Documented, Units
<1>5. got => docs'[r] # <<>> /\ kind[r].sink
  <2>1. doc # <<>> /\ \E d : doc = <<d>>
    BY FirstDocument, ZenonT(60) DEF doc, Document
  <2>2. got => docs'[r] = <<>> \o doc
    BY <1>1, <1>4 DEF CInv, CaptureTyped
  <2>3. got => kind[r].sink
    BY DEF got, HandedOver
  <2> QED  BY <2>1, <2>2, <2>3, FirstDocument
<1>6. /\ \A q \in Requests \ {r} : docs'[q] = docs[q] /\ phase'[q] = phase[q]
      /\ ~got => docs'[r] = <<>>
      /\ phase'[r] = "over"
  BY <1>1, <1>4 DEF CInv, CaptureTyped
<1>7. Settled'
  BY <1>1, <1>5, <1>6 DEF SInv, Settled
<1>8. errors' \in Nat /\ errors' >= errors /\ (kind[r].sink /\ ~got => errors' >= errors + 1)
  BY <1>2, <1>3 DEF SInv
<1>9. IF got \/ ~kind[r].sink THEN Holes' \subseteq Holes ELSE Holes' \subseteq Holes \cup {r}
  BY <1>1, <1>5, <1>6 DEF Holes
<1> QED  BY <1>7, <1>8, <1>9, HolesCounted DEF SInv

LEMMA SStep == CInv /\ CInv' /\ SInv /\ [Next]_vars => SInv'
<1> SUFFICES ASSUME CInv, CInv', SInv, [Next]_vars PROVE SInv'
  OBVIOUS
<1>0. errors \in Nat /\ DOMAIN docs = Units
  BY DEF SInv, CInv, CaptureTyped
<1>1. CASE UNCHANGED vars
  BY <1>0, <1>1, SElsewhere DEF vars
<1>2. ASSUME NEW x \in Contexts, Annotate(x) PROVE SInv'
  BY <1>0, <1>2, SElsewhere DEF Annotate, httpVars
<1>3. ASSUME NEW r \in Requests, Spawn(r) PROVE SInv'
  BY <1>0, <1>3, SElsewhere DEF Spawn, httpVars
<1>4. ASSUME NEW x \in Contexts, NEW t \in Tasks, TaskBegins(x, t) PROVE SInv'
  BY <1>0, <1>4, SElsewhere DEF TaskBegins, httpVars
<1>5. ASSUME NEW x \in Contexts, NEW failed \in BOOLEAN, TaskEnds(x, failed) PROVE SInv'
  BY <1>0, <1>5, SElsewhere, RequestAssumption DEF TaskEnds, httpVars
<1>6. ASSUME NEW r \in Requests,
             Excludes(r) \/ SetupFails(r) \/ \E b \in Requests \cup {None} : Arrives(r, b)
      PROVE  SInv'
  <2>1. /\ phase[r] = "new" /\ UNCHANGED <<kind, docs, refused>> /\ errors' \in Nat
        /\ \A q \in Requests \ {r} : phase'[q] = phase[q]
        /\ phase'[r] # "over"
    BY <1>0, <1>6 DEF Excludes, SetupFails, Arrives, httpVars, CInv, CaptureTyped
  <2>2. Settled'
    BY <2>1 DEF SInv, Settled
  <2>3. CASE SetupFails(r)
    <3>1. Holes' \subseteq Holes \cup {r} /\ errors' = errors + 1
      BY <2>1, <2>3 DEF SetupFails, Holes
    <3> QED  BY <1>0, <2>1, <2>2, <3>1, HolesCounted DEF SInv
  <2>4. CASE ~SetupFails(r)
    <3>1. errors' = errors /\ (phase'[r] = "unwrapped" => IsExcluded(kind[r].path))
      BY <1>6, <2>1, <2>4 DEF Excludes, Arrives, CInv, CaptureTyped
    <3>2. phase'[r] \in {"app", "unwrapped"}
      BY <1>6, <2>1, <2>4 DEF Excludes, Arrives, CInv, CaptureTyped
    <3>3. Holes' \subseteq Holes
      BY <2>1, <3>1, <3>2 DEF Holes
    <3> QED  BY <1>0, <2>1, <2>2, <3>1, <3>3, HolesCounted DEF SInv
  <2> QED  BY <2>3, <2>4
<1>7. ASSUME NEW r \in Requests,
             \/ \E n \in kind[r].sizes :
                  capture[r].received + n <= kind[r].receives /\ ReceiveBody(r, n)
             \/ ReceiveDisconnect(r)
             \/ \E s \in kind[r].statuses : SendStart(r, s)
             \/ \E more \in BOOLEAN : SendBody(r, 1, more)
             \/ \E accepted \in BOOLEAN : Sent(r, accepted)
      PROVE  SInv'
  <2>1. /\ UNCHANGED <<phase, kind, docs, refused>>
        /\ errors' = errors \/ \E s : errors' = errors + (IF s = None THEN 1 ELSE 0)
    <3>1. ASSUME NEW n, ReceiveBody(r, n) PROVE UNCHANGED <<phase, kind, docs, refused, errors>>
      BY <3>1 DEF ReceiveBody
    <3>2. ASSUME NEW s, SendStart(r, s)
          PROVE  /\ UNCHANGED <<phase, kind, docs, refused>>
                 /\ errors' = errors + (IF s = None THEN 1 ELSE 0)
      BY <3>2 DEF SendStart
    <3> QED  BY <1>7, <3>1, <3>2 DEF ReceiveDisconnect, SendBody, Sent
  <2>2. errors' \in Nat /\ errors' >= errors
    BY <1>0, <2>1
  <2> QED  BY <2>1, <2>2, SElsewhere
<1>8. ASSUME NEW r \in Requests, NEW exc \in {"none", "app", "transport"}, NEW f,
             Emit(r, exc, f # "resolve", f \notin {"build", "mark"}, f # "mark",
                  f \notin {"build", "mark", "enrich"}, f # "take")
      PROVE  SInv'
  BY <1>8, SEmit
<1> QED  BY <1>1, <1>2, <1>3, <1>4, <1>5, <1>6, <1>7, <1>8 DEF Next

\* A wrapped request leaves one document, unless there is no sink, or it raised on
\* it, or neither document nor marker could be built; with a sink every audited
\* request without one has been counted.
THEOREM OneDocumentHolds == Spec => []OneDocument
<1>1. CInv /\ SInv => OneDocument
  <2> SUFFICES ASSUME CInv, SInv PROVE OneDocument
    OBVIOUS
  <2>1. \A r \in Requests :
          Len(docs[r]) = IF r \in {q \in Requests : phase[q] = "over"} \ refused /\ kind[r].sink
                         THEN 1 ELSE 0
    <3>1. Len(<<>>) = 0
      OBVIOUS
    <3> QED  BY <3>1 DEF SInv, Settled, CInv, Documented
  <2> QED  BY <2>1 DEF OneDocument, Holes, SInv
<1> QED  BY <1>1, CInit, CStep, SInit, SStep, PTL DEF Spec

-----------------------------------------------------------------------------
(* Whose annotations a document shows.                                     *)

BagsTyped ==
  /\ bags \in [Units -> SUBSET Units]
  /\ current \in [Contexts -> Units \cup {None}]
  /\ tokens \in [Contexts -> Seq(Units \cup {None})]
  /\ acting \in [Contexts -> Seq(Units)]
  /\ noted \subseteq Units

\* The bag of a context is that of the unit it is at work for, and closing it
\* restores that of the unit around it.
Nested(c) ==
  /\ acting[c] # <<>> => current[c] = acting[c][1]
  /\ Len(tokens[c]) <= Len(acting[c])
  /\ \A i \in 1..Len(tokens[c]) : i < Len(acting[c]) => tokens[c][i] = acting[c][i + 1]

\* A handler is at work for its request, around whatever else.
Handles(r) ==
  LET mine == acting[Handler(r)] IN
  /\ Len(tokens[Handler(r)]) = Len(mine)
  /\ IF phase[r] = "app" THEN mine # <<>> /\ mine[Len(mine)] = r ELSE mine = <<>>

OwnBags == \A u \in Units : bags[u] \subseteq {u} /\ (u \in noted => u \in bags[u])

AtWorkFor(u) == \E c \in Contexts : Contains(acting[c], u)

\* A unit whose bag is still to be opened has no annotation to lose.
Fresh ==
  /\ \A r \in Requests : r \in noted \/ AtWorkFor(r) => phase[r] # "new"
  /\ \A t \in Tasks : t \in noted => AtWorkFor(t) \/ docs[t] # <<>>

OwnDocs(t) ==
  {d \in [notes : SUBSET Units, due : BOOLEAN, result : {"failure", "success"}] :
     d.notes \subseteq {t} /\ (d.due => d.notes = {t})}

OwnNotes ==
  /\ \A t \in Tasks : docs[t] \in Seq(OwnDocs(t))
  /\ \A r \in Requests : docs[r] # <<>> =>
       LET d == docs[r][1] IN d.notes \subseteq {r} /\ (d.due /\ d.enriched => d.notes = {r})

NInv ==
  /\ BagsTyped /\ (\A c \in Contexts : Nested(c)) /\ (\A r \in Requests : Handles(r))
  /\ OwnBags /\ Fresh /\ OwnNotes

LEMMA Prepended ==
  ASSUME NEW S, NEW e \in S, NEW s \in Seq(S)
  PROVE  /\ <<e>> \o s \in Seq(S) /\ Len(<<e>> \o s) = Len(s) + 1 /\ (<<e>> \o s)[1] = e
         /\ \A i \in 1..Len(s) : (<<e>> \o s)[i + 1] = s[i]
<1>1. <<e>> \in Seq(S) /\ Len(<<e>>) = 1 /\ <<e>>[1] = e /\ Len(s) \in Nat
  BY LenProperties
<1>2. /\ <<e>> \o s \in Seq(S) /\ Len(<<e>> \o s) = 1 + Len(s)
      /\ \A i \in 1..(1 + Len(s)) :
           (<<e>> \o s)[i] = IF i <= 1 THEN <<e>>[i] ELSE s[i - 1]
  BY <1>1, ConcatProperties
<1> QED  BY <1>1, <1>2

LEMMA Dropped ==
  ASSUME NEW S, NEW s \in Seq(S), s # <<>>
  PROVE  /\ Tail(s) \in Seq(S) /\ Len(Tail(s)) = Len(s) - 1 /\ Len(s) \in Nat \ {0}
         /\ Head(s) = s[1] /\ s[1] \in S
         /\ \A i \in 1..(Len(s) - 1) : Tail(s)[i] = s[i + 1]
<1>1. /\ Tail(s) \in Seq(S) /\ Len(Tail(s)) = Len(s) - 1
      /\ \A i \in 1..Len(Tail(s)) : Tail(s)[i] = s[i + 1]
      /\ Head(s) \in S
  BY HeadTailProperties
<1>2. Len(s) \in Nat \ {0}
  BY EmptySeq, LenProperties
<1> QED  BY <1>1, <1>2

LEMMA NestedElsewhere ==
  ASSUME NEW x, Nested(x), acting'[x] = acting[x], tokens'[x] = tokens[x],
         current'[x] = current[x]
  PROVE  Nested(x)'
  BY Zenon DEF Nested

\* A bag opened for a unit that had none.
LEMMA Opens ==
  ASSUME NInv, NEW c \in Contexts, NEW u \in Units, NEW b \in Units \cup {None},
         OpenBag(c, u, b), noted' = noted, u \notin noted,
         acting[c] # <<>> => b = acting[c][1]
  PROVE  /\ BagsTyped' /\ (\A x \in Contexts : Nested(x)') /\ OwnBags'
         /\ \A x \in Contexts \ {c} : acting'[x] = acting[x] /\ tokens'[x] = tokens[x]
         /\ Len(acting'[c]) = Len(acting[c]) + 1 /\ Len(tokens'[c]) = Len(tokens[c]) + 1
         /\ acting'[c][1] = u /\ \A i \in 1..Len(acting[c]) : acting'[c][i + 1] = acting[c][i]
<1>1. BagsTyped /\ Nested(c)
  BY DEF NInv
<1>2. /\ bags' = [bags EXCEPT ![u] = {}] /\ current' = [current EXCEPT ![c] = u]
      /\ tokens' = [tokens EXCEPT ![c] = <<b>> \o @]
      /\ acting' = [acting EXCEPT ![c] = <<u>> \o @]
  BY Zenon DEF OpenBag
<1>3. /\ acting[c] \in Seq(Units) /\ Len(acting[c]) \in Nat
      /\ tokens[c] \in Seq(Units \cup {None}) /\ Len(tokens[c]) \in Nat
  BY <1>1, LenProperties DEF BagsTyped
<1>4. /\ acting'[c] = <<u>> \o acting[c] /\ tokens'[c] = <<b>> \o tokens[c]
      /\ current'[c] = u
      /\ \A x \in Contexts \ {c} : /\ acting'[x] = acting[x] /\ tokens'[x] = tokens[x]
                                   /\ current'[x] = current[x]
  BY <1>1, <1>2 DEF BagsTyped
<1>5. /\ acting'[c] \in Seq(Units) /\ Len(acting'[c]) = Len(acting[c]) + 1 /\ acting'[c][1] = u
      /\ \A i \in 1..Len(acting[c]) : acting'[c][i + 1] = acting[c][i]
  <2> DEFINE a == acting[c]
  <2>1. a \in Seq(Units)
    BY <1>3
  <2> HIDE DEF a
  <2>2. /\ <<u>> \o a \in Seq(Units) /\ Len(<<u>> \o a) = Len(a) + 1 /\ (<<u>> \o a)[1] = u
        /\ \A i \in 1..Len(a) : (<<u>> \o a)[i + 1] = a[i]
    BY <2>1, Prepended
  <2> QED  BY <1>4, <2>2, Zenon DEF a
<1>6. /\ tokens'[c] \in Seq(Units \cup {None}) /\ Len(tokens'[c]) = Len(tokens[c]) + 1
      /\ tokens'[c][1] = b
      /\ \A i \in 1..Len(tokens[c]) : tokens'[c][i + 1] = tokens[c][i]
  <2> DEFINE a == tokens[c]
             U == Units \cup {None}
  <2>1. a \in Seq(U) /\ b \in U
    BY <1>3
  <2> HIDE DEF a, U
  <2>2. /\ <<b>> \o a \in Seq(U) /\ Len(<<b>> \o a) = Len(a) + 1 /\ (<<b>> \o a)[1] = b
        /\ \A i \in 1..Len(a) : (<<b>> \o a)[i + 1] = a[i]
    BY <2>1, Prepended
  <2> QED  BY <1>4, <2>2, Zenon DEF a, U
<1>7. BagsTyped'
  BY <1>1, <1>2, <1>5, <1>6 DEF BagsTyped
<1>8. Nested(c)'
  <2>1. acting'[c] # <<>> /\ current'[c] = acting'[c][1]
        /\ Len(tokens'[c]) <= Len(acting'[c])
    BY <1>1, <1>3, <1>4, <1>5, <1>6 DEF Nested
  <2>2. ASSUME NEW i \in 1..Len(tokens'[c]), i < Len(acting'[c])
        PROVE  tokens'[c][i] = acting'[c][i + 1]
    <3>1. CASE i = 1
      <4>1. acting[c] # <<>> /\ 1 \in 1..Len(acting[c])
        BY <1>3, <1>5, <2>2, <3>1, EmptySeq
      <4> QED  BY <1>5, <1>6, <3>1, <4>1
    <3>2. CASE i # 1
      <4>1. /\ i - 1 \in 1..Len(tokens[c]) /\ i - 1 < Len(acting[c])
            /\ i \in 1..Len(acting[c]) /\ (i - 1) + 1 = i
        BY <1>3, <1>5, <1>6, <2>2, <3>2
      <4>2. tokens[c][i - 1] = acting[c][i]
        BY <1>1, <4>1 DEF Nested
      <4>3. tokens'[c][i] = tokens[c][i - 1]
        BY <1>6, <4>1
      <4> QED  BY <1>5, <4>1, <4>2, <4>3
    <3> QED  BY <3>1, <3>2
  <2> QED  BY <2>1, <2>2 DEF Nested
<1>9. \A x \in Contexts : Nested(x)'
  BY <1>4, <1>8, NestedElsewhere DEF NInv
<1>10. OwnBags'
  BY <1>1, <1>2 DEF NInv, OwnBags, BagsTyped
<1> QED  BY <1>4, <1>5, <1>6, <1>7, <1>9, <1>10

\* A bag closed: the context is back where it was before it was opened.
LEMMA Closes ==
  ASSUME NInv, NEW c \in Contexts, tokens[c] # <<>>, CloseBag(c), UNCHANGED <<bags, noted>>
  PROVE  /\ BagsTyped' /\ (\A x \in Contexts : Nested(x)') /\ OwnBags'
         /\ \A x \in Contexts \ {c} : acting'[x] = acting[x] /\ tokens'[x] = tokens[x]
         /\ Len(acting[c]) \in Nat \ {0} /\ acting[c][1] \in Units
         /\ Len(acting'[c]) = Len(acting[c]) - 1 /\ Len(tokens'[c]) = Len(tokens[c]) - 1
         /\ \A i \in 1..(Len(acting[c]) - 1) : acting'[c][i] = acting[c][i + 1]
         /\ current[c] = acting[c][1] /\ Head(acting[c]) = acting[c][1]
<1>1. BagsTyped /\ Nested(c)
  BY DEF NInv
<1>2. /\ acting[c] \in Seq(Units) /\ Len(acting[c]) \in Nat
      /\ tokens[c] \in Seq(Units \cup {None}) /\ Len(tokens[c]) \in Nat \ {0}
  BY <1>1, LenProperties, EmptySeq DEF BagsTyped
<1>3. acting[c] # <<>>
  BY <1>1, <1>2, EmptySeq DEF Nested
<1>4. /\ current' = [current EXCEPT ![c] = Head(tokens[c])]
      /\ tokens' = [tokens EXCEPT ![c] = Tail(@)]
      /\ acting' = [acting EXCEPT ![c] = Tail(@)]
  BY Zenon DEF CloseBag, Restored
<1>5. /\ acting'[c] = Tail(acting[c]) /\ tokens'[c] = Tail(tokens[c])
      /\ current'[c] = Head(tokens[c])
      /\ \A x \in Contexts \ {c} : /\ acting'[x] = acting[x] /\ tokens'[x] = tokens[x]
                                   /\ current'[x] = current[x]
  BY <1>1, <1>4 DEF BagsTyped
<1>6. /\ acting'[c] \in Seq(Units) /\ Len(acting'[c]) = Len(acting[c]) - 1
      /\ Len(acting[c]) \in Nat \ {0} /\ Head(acting[c]) = acting[c][1] /\ acting[c][1] \in Units
      /\ \A i \in 1..(Len(acting[c]) - 1) : acting'[c][i] = acting[c][i + 1]
  <2> DEFINE a == acting[c]
  <2>1. a \in Seq(Units) /\ a # <<>>
    BY <1>2, <1>3
  <2> HIDE DEF a
  <2>2. /\ Tail(a) \in Seq(Units) /\ Len(Tail(a)) = Len(a) - 1 /\ Len(a) \in Nat \ {0}
        /\ Head(a) = a[1] /\ a[1] \in Units
        /\ \A i \in 1..(Len(a) - 1) : Tail(a)[i] = a[i + 1]
    BY <2>1, Dropped
  <2> QED  BY <1>5, <2>2, Zenon DEF a
<1>7. /\ tokens'[c] \in Seq(Units \cup {None}) /\ Len(tokens'[c]) = Len(tokens[c]) - 1
      /\ current'[c] = tokens[c][1] /\ tokens[c][1] \in Units \cup {None}
      /\ \A i \in 1..(Len(tokens[c]) - 1) : tokens'[c][i] = tokens[c][i + 1]
  <2> DEFINE a == tokens[c]
             U == Units \cup {None}
  <2>1. a \in Seq(U) /\ a # <<>>
    BY <1>2
  <2> HIDE DEF a, U
  <2>2. /\ Tail(a) \in Seq(U) /\ Len(Tail(a)) = Len(a) - 1
        /\ Head(a) = a[1] /\ a[1] \in U
        /\ \A i \in 1..(Len(a) - 1) : Tail(a)[i] = a[i + 1]
    BY <2>1, Dropped
  <2> QED  BY <1>5, <2>2, Zenon DEF a, U
<1>8. BagsTyped'
  BY <1>1, <1>4, <1>6, <1>7, <1>5 DEF BagsTyped
<1>9. Nested(c)'
  <2>1. acting'[c] # <<>> => current'[c] = acting'[c][1]
    <3> SUFFICES ASSUME acting'[c] # <<>> PROVE current'[c] = acting'[c][1]
      OBVIOUS
    <3>1. Len(acting'[c]) \in Nat \ {0}
      BY <1>6, EmptySeq, LenProperties
    <3>2. 1 \in 1..(Len(acting[c]) - 1) /\ 1 \in 1..Len(tokens[c]) /\ 1 < Len(acting[c])
      BY <1>2, <1>6, <3>1
    <3>3. tokens[c][1] = acting[c][1 + 1]
      BY <1>1, <3>2 DEF Nested
    <3> QED  BY <1>6, <1>7, <3>2, <3>3
  <2>2. Len(tokens'[c]) <= Len(acting'[c])
    BY <1>1, <1>2, <1>6, <1>7 DEF Nested
  <2>3. ASSUME NEW i \in 1..Len(tokens'[c]), i < Len(acting'[c])
        PROVE  tokens'[c][i] = acting'[c][i + 1]
    <3>1. /\ i \in 1..(Len(tokens[c]) - 1) /\ i + 1 \in 1..(Len(acting[c]) - 1)
          /\ i + 1 \in 1..Len(tokens[c]) /\ i + 1 < Len(acting[c])
      BY <1>2, <1>6, <1>7, <2>3
    <3>2. tokens[c][i + 1] = acting[c][(i + 1) + 1]
      BY <1>1, <3>1 DEF Nested
    <3> QED  BY <1>6, <1>7, <3>1, <3>2
  <2> QED  BY <2>1, <2>2, <2>3 DEF Nested
<1>10. \A x \in Contexts : Nested(x)'
  BY <1>5, <1>9, NestedElsewhere DEF NInv
<1>11. OwnBags' /\ current[c] = acting[c][1]
  BY <1>1, <1>3 DEF NInv, OwnBags, Nested
<1> QED  BY <1>5, <1>6, <1>7, <1>8, <1>10, <1>11

LEMMA UnitsApart == /\ None \notin Units /\ Requests \cap Tasks = {}
                    /\ \A r \in Requests : r \in Units /\ Handler(r) \in Contexts
                                           /\ Child(r) \in Contexts
                    /\ \A t \in Tasks : t \in Units
                    /\ \A r \in Requests, q \in Requests :
                         /\ Handler(q) # Child(r)
                         /\ Handler(q) = Handler(r) => q = r
  BY RequestAssumption DEF Units, Contexts, Handler, Child

LEMMA Working ==
  ASSUME NInv, NEW c \in Contexts, acting[c] # <<>>
  PROVE  /\ Len(acting[c]) \in Nat \ {0} /\ acting[c][1] \in Units
         /\ Head(acting[c]) = acting[c][1] /\ current[c] = acting[c][1]
         /\ AtWorkFor(acting[c][1])
<1> DEFINE a == acting[c]
<1>1. a \in Seq(Units) /\ a # <<>> /\ current[c] = a[1]
  BY DEF NInv, BagsTyped, Nested
<1> HIDE DEF a
<1>2. Len(a) \in Nat \ {0} /\ Head(a) = a[1] /\ a[1] \in Units
  BY <1>1, Dropped
<1>3. Contains(a, a[1])
  BY <1>2 DEF Contains
<1>4. AtWorkFor(a[1])
  BY <1>3 DEF a, AtWorkFor
<1> QED  BY <1>1, <1>2, <1>4 DEF a

\* What leaves contexts, bags and documents alone.
LEMMA NElsewhere ==
  ASSUME NInv, UNCHANGED <<bagVars, docs>>,
         \A r \in Requests : /\ phase'[r] = "app" <=> phase[r] = "app"
                             /\ phase'[r] = "new" => phase[r] = "new"
  PROVE  NInv'
<1>1. /\ UNCHANGED <<bags, current, tokens, acting, noted, docs>>
  BY DEF bagVars
<1>2. BagsTyped' /\ \A c \in Contexts : Nested(c)'
  BY <1>1, NestedElsewhere DEF NInv, BagsTyped
<1>3. \A r \in Requests : Handles(r)'
  BY <1>1 DEF NInv, Handles
<1>4. OwnBags' /\ OwnNotes'
  BY <1>1 DEF NInv, OwnBags, OwnNotes
<1>5. \A u : AtWorkFor(u)' <=> AtWorkFor(u)
  BY <1>1 DEF AtWorkFor
<1>6. Fresh'
  BY <1>1, <1>5 DEF NInv, Fresh
<1> QED  BY <1>2, <1>3, <1>4, <1>6 DEF NInv

LEMMA NAnnotate ==
  ASSUME NInv, NEW c \in Contexts, Annotate(c) PROVE NInv'
<1> DEFINE h == acting[c][1]
<1>1. /\ acting[c] # <<>> /\ Head(acting[c]) = h /\ current[c] = h /\ h \in Units
      /\ AtWorkFor(h)
  BY Working DEF Annotate
<1> HIDE DEF h
<1>2. /\ bags' = [bags EXCEPT ![h] = @ \cup {h}] /\ noted' = noted \cup {h}
      /\ UNCHANGED <<phase, current, tokens, acting, docs>>
  BY <1>1, UnitsApart DEF Annotate
<1>3. BagsTyped' /\ OwnBags'
  BY <1>1, <1>2 DEF NInv, BagsTyped, OwnBags
<1>4. \A x \in Contexts : Nested(x)'
  BY <1>2, NestedElsewhere DEF NInv
<1>5. (\A r \in Requests : Handles(r)') /\ OwnNotes'
  BY <1>2 DEF NInv, Handles, OwnNotes
<1>6. \A u : AtWorkFor(u)' <=> AtWorkFor(u)
  BY <1>2 DEF AtWorkFor
<1>7. Fresh'
  BY <1>1, <1>2, <1>6 DEF NInv, Fresh
<1> QED  BY <1>3, <1>4, <1>5, <1>7 DEF NInv

LEMMA NSpawn ==
  ASSUME NInv, NEW r \in Requests, Spawn(r) PROVE NInv'
<1> DEFINE h == Handler(r)
           k == Child(r)
           u == acting[h][1]
<1>1. h \in Contexts /\ k \in Contexts /\ (\A q \in Requests : Handler(q) # k)
  BY UnitsApart
<1> HIDE DEF h, k
<1>2. acting[h] # <<>>
  BY DEF Spawn, NInv, Handles, h
<1>3. /\ Head(acting[h]) = u /\ current[h] = u /\ u \in Units /\ AtWorkFor(u)
  BY <1>1, <1>2, Working
<1> HIDE DEF u
<1>4. /\ acting[k] = <<>> /\ UNCHANGED <<phase, bags, tokens, noted, docs>>
      /\ current' = [current EXCEPT ![k] = u] /\ acting' = [acting EXCEPT ![k] = <<u>>]
  BY <1>3, Zenon DEF Spawn, h, k
<1>5. <<u>> \in Seq(Units) /\ Len(<<u>>) = 1 /\ <<u>>[1] = u /\ <<u>> # <<>>
  BY <1>3
<1>6. /\ current'[k] = u /\ acting'[k] = <<u>>
      /\ \A x \in Contexts \ {k} : acting'[x] = acting[x] /\ current'[x] = current[x]
  BY <1>1, <1>4 DEF NInv, BagsTyped
<1>7. BagsTyped' /\ OwnBags' /\ OwnNotes'
  BY <1>1, <1>3, <1>4, <1>5 DEF NInv, BagsTyped, OwnBags, OwnNotes
<1>8. Nested(k)'
  <2>1. Len(tokens[k]) = 0
    <3>1. Len(tokens[k]) \in Nat /\ Len(tokens[k]) <= Len(acting[k])
      BY <1>1, LenProperties DEF NInv, BagsTyped, Nested
    <3> QED  BY <1>4, <3>1
  <2> QED  BY <1>4, <1>5, <1>6, <2>1 DEF Nested
<1>9. \A x \in Contexts : Nested(x)'
  BY <1>4, <1>6, <1>8, NestedElsewhere DEF NInv
<1>10. \A q \in Requests : Handles(q)'
  BY <1>1, <1>4, <1>6, UnitsApart DEF NInv, Handles
<1>11. \A w : AtWorkFor(w)' <=> AtWorkFor(w)
  <2>1. \A w : ~Contains(acting[k], w)
    BY <1>4 DEF Contains
  <2>2. \A w : Contains(acting'[k], w) <=> w = u
    BY <1>5, <1>6 DEF Contains
  <2> QED  BY <1>3, <1>6, <2>1, <2>2 DEF AtWorkFor
<1>12. Fresh'
  BY <1>4, <1>11 DEF NInv, Fresh
<1> QED  BY <1>7, <1>9, <1>10, <1>12 DEF NInv

\* Whom the contexts are at work for, when a bag is opened and when it is closed.
LEMMA OpensWork ==
  ASSUME NInv, NEW c \in Contexts, NEW u, Len(acting'[c]) = Len(acting[c]) + 1,
         \A x \in Contexts \ {c} : acting'[x] = acting[x],
         acting'[c][1] = u, \A i \in 1..Len(acting[c]) : acting'[c][i + 1] = acting[c][i]
  PROVE  \A w : AtWorkFor(w)' <=> AtWorkFor(w) \/ w = u
<1>1. Len(acting[c]) \in Nat
  BY LenProperties DEF NInv, BagsTyped
<1>2. ASSUME NEW w PROVE Contains(acting'[c], w) <=> Contains(acting[c], w) \/ w = u
  <2>1. ASSUME Contains(acting'[c], w), w # u PROVE Contains(acting[c], w)
    <3>1. PICK i \in 1..(Len(acting[c]) + 1) : acting'[c][i] = w
      BY <2>1 DEF Contains
    <3>2. i - 1 \in 1..Len(acting[c]) /\ (i - 1) + 1 = i
      BY <1>1, <2>1, <3>1
    <3> QED  BY <3>1, <3>2 DEF Contains
  <2>2. ASSUME Contains(acting[c], w) PROVE Contains(acting'[c], w)
    <3>1. PICK i \in 1..Len(acting[c]) : acting[c][i] = w
      BY <2>2 DEF Contains
    <3>2. i + 1 \in 1..Len(acting'[c]) /\ acting'[c][i + 1] = w
      BY <1>1, <3>1
    <3> QED  BY <3>2 DEF Contains
  <2>3. 1 \in 1..Len(acting'[c])
    BY <1>1
  <2> QED  BY <2>1, <2>2, <2>3 DEF Contains
<1> QED  BY <1>2 DEF AtWorkFor

LEMMA ClosesWork ==
  ASSUME NInv, NEW c \in Contexts, Len(acting'[c]) = Len(acting[c]) - 1,
         \A x \in Contexts \ {c} : acting'[x] = acting[x],
         \A i \in 1..(Len(acting[c]) - 1) : acting'[c][i] = acting[c][i + 1]
  PROVE  /\ \A w : AtWorkFor(w)' => AtWorkFor(w)
         /\ \A w : AtWorkFor(w) /\ w # acting[c][1] => AtWorkFor(w)'
<1>1. Len(acting[c]) \in Nat
  BY LenProperties DEF NInv, BagsTyped
<1>2. ASSUME NEW w, Contains(acting'[c], w) PROVE Contains(acting[c], w)
  <2>1. PICK i \in 1..(Len(acting[c]) - 1) : acting'[c][i] = w
    BY <1>2 DEF Contains
  <2>2. i + 1 \in 1..Len(acting[c]) /\ acting[c][i + 1] = w
    BY <1>1, <2>1
  <2> QED  BY <2>2 DEF Contains
<1>3. ASSUME NEW w, Contains(acting[c], w), w # acting[c][1] PROVE Contains(acting'[c], w)
  <2>1. PICK i \in 1..Len(acting[c]) : acting[c][i] = w
    BY <1>3 DEF Contains
  <2>2. i - 1 \in 1..Len(acting'[c]) /\ (i - 1) + 1 = i
    BY <1>1, <1>3, <2>1
  <2>3. acting'[c][i - 1] = w
    BY <2>1, <2>2
  <2> QED  BY <2>2, <2>3 DEF Contains
<1> QED  BY <1>2, <1>3 DEF AtWorkFor

\* What a handler's own contexts lose or gain above its request.
LEMMA HandlesElsewhere ==
  ASSUME NEW r \in Requests, Handles(r), phase'[r] = phase[r],
         acting'[Handler(r)] = acting[Handler(r)], tokens'[Handler(r)] = tokens[Handler(r)]
  PROVE  Handles(r)'
  BY Zenon DEF Handles

LEMMA NTaskBegins ==
  ASSUME NInv, NEW c \in Contexts, NEW t \in Tasks, TaskBegins(c, t) PROVE NInv'
<1>1. /\ acting[c] # <<>> /\ docs[t] = <<>> /\ ~AtWorkFor(t)
      /\ OpenBag(c, t, current[c]) /\ UNCHANGED <<phase, noted, docs>>
  BY DEF TaskBegins, AtWorkFor
<1>2. t \in Units /\ t \notin noted /\ t \notin Requests
  BY <1>1, UnitsApart DEF NInv, Fresh
<1>3. current[c] \in Units \cup {None} /\ current[c] = acting[c][1]
      /\ Len(acting[c]) \in Nat \ {0}
  BY <1>1, Working
<1>4. /\ BagsTyped' /\ (\A x \in Contexts : Nested(x)') /\ OwnBags'
      /\ \A x \in Contexts \ {c} : acting'[x] = acting[x] /\ tokens'[x] = tokens[x]
      /\ Len(acting'[c]) = Len(acting[c]) + 1 /\ Len(tokens'[c]) = Len(tokens[c]) + 1
      /\ acting'[c][1] = t /\ \A i \in 1..Len(acting[c]) : acting'[c][i + 1] = acting[c][i]
  BY <1>1, <1>2, <1>3, Opens
<1>5. \A w : AtWorkFor(w)' <=> AtWorkFor(w) \/ w = t
  BY <1>4, OpensWork
<1>6. ASSUME NEW r \in Requests PROVE Handles(r)'
  <2>1. CASE Handler(r) # c
    BY <1>1, <1>4, <2>1, HandlesElsewhere, UnitsApart DEF NInv
  <2>2. CASE Handler(r) = c
    <3>1. /\ Len(tokens[c]) = Len(acting[c]) /\ phase[r] = "app"
          /\ acting[c][Len(acting[c])] = r
      BY <1>1, <2>2 DEF NInv, Handles
    <3>2. Len(acting[c]) \in 1..Len(acting[c])
      BY <1>3
    <3>3. acting'[c][Len(acting[c]) + 1] = r
      BY <1>4, <3>1, <3>2
    <3>4. acting'[c] # <<>>
      <4>1. Len(acting'[c]) # 0
        BY <1>3, <1>4
      <4> QED  BY <4>1
    <3> QED  BY <1>1, <1>4, <2>2, <3>1, <3>3, <3>4 DEF Handles, Handler
  <2> QED  BY <2>1, <2>2
<1>7. Fresh' /\ OwnNotes'
  BY <1>1, <1>2, <1>5 DEF NInv, Fresh, OwnNotes
<1> QED  BY <1>4, <1>6, <1>7 DEF NInv

LEMMA NArrives ==
  ASSUME NInv, phase \in [Requests -> {"new", "app", "unwrapped", "over"}],
         NEW r \in Requests, NEW b \in Requests \cup {None}, Arrives(r, b)
  PROVE  NInv'
<1> DEFINE c == Handler(r)
<1>1. /\ phase[r] = "new" /\ phase' = [phase EXCEPT ![r] = "app"]
      /\ OpenBag(c, r, b) /\ UNCHANGED <<noted, docs>>
  BY DEF Arrives
<1>2. /\ acting[c] = <<>> /\ r \notin noted /\ r \in Units /\ b \in Units \cup {None}
      /\ Len(tokens[c]) = Len(acting[c]) /\ r \notin Tasks
  BY <1>1, UnitsApart DEF NInv, Fresh, Handles
<1>3. c \in Contexts /\ \A q \in Requests \ {r} : Handler(q) \in Contexts \ {c}
  BY UnitsApart
<1> HIDE DEF c
<1>4. /\ BagsTyped' /\ (\A x \in Contexts : Nested(x)') /\ OwnBags'
      /\ \A x \in Contexts \ {c} : acting'[x] = acting[x] /\ tokens'[x] = tokens[x]
      /\ Len(acting'[c]) = Len(acting[c]) + 1 /\ Len(tokens'[c]) = Len(tokens[c]) + 1
      /\ acting'[c][1] = r /\ \A i \in 1..Len(acting[c]) : acting'[c][i + 1] = acting[c][i]
  BY <1>1, <1>2, <1>3, Opens
<1>5. \A w : AtWorkFor(w)' <=> AtWorkFor(w) \/ w = r
  BY <1>3, <1>4, OpensWork
<1>6. /\ phase'[r] = "app" /\ \A q \in Requests \ {r} : phase'[q] = phase[q]
  BY <1>1
<1>7. Handles(r)'
  <2>1. Len(acting'[c]) = 1 /\ Len(tokens'[c]) = 1
    BY <1>2, <1>4
  <2>2. acting'[c] # <<>>
    BY <2>1
  <2> QED  BY <1>4, <1>6, <2>1, <2>2 DEF Handles, Handler, c
<1>8. \A q \in Requests : Handles(q)'
  BY <1>3, <1>4, <1>6, <1>7, HandlesElsewhere DEF NInv
<1>9. Fresh' /\ OwnNotes'
  BY <1>1, <1>2, <1>5, <1>6 DEF NInv, Fresh, OwnNotes
<1> QED  BY <1>4, <1>8, <1>9 DEF NInv

LEMMA NTaskEnds ==
  ASSUME NInv, DOMAIN docs = Units, NEW c \in Contexts, NEW failed \in BOOLEAN,
         TaskEnds(c, failed)
  PROVE  NInv'
<1> DEFINE t == acting[c][1]
           d == [notes |-> Notes(c), due |-> t \in noted,
                 result |-> IF failed THEN "failure" ELSE "success"]
<1>1. tokens[c] # <<>> /\ CloseBag(c) /\ UNCHANGED <<phase, bags, noted>>
  BY DEF TaskEnds
<1>2. /\ BagsTyped' /\ (\A x \in Contexts : Nested(x)') /\ OwnBags'
      /\ \A x \in Contexts \ {c} : acting'[x] = acting[x] /\ tokens'[x] = tokens[x]
      /\ Len(acting[c]) \in Nat \ {0} /\ t \in Units
      /\ Len(acting'[c]) = Len(acting[c]) - 1 /\ Len(tokens'[c]) = Len(tokens[c]) - 1
      /\ \A i \in 1..(Len(acting[c]) - 1) : acting'[c][i] = acting[c][i + 1]
      /\ current[c] = t /\ Head(acting[c]) = t
  BY <1>1, Closes
<1>3. /\ \A w : AtWorkFor(w)' => AtWorkFor(w)
      /\ \A w : AtWorkFor(w) /\ w # t => AtWorkFor(w)'
  BY <1>2, ClosesWork
<1>4. t \in Tasks /\ docs' = [docs EXCEPT ![t] = Append(@, d)]
  BY <1>2 DEF TaskEnds
<1>5. ASSUME NEW r \in Requests PROVE Handles(r)'
  <2>1. CASE Handler(r) # c
    BY <1>1, <1>2, <2>1, HandlesElsewhere, UnitsApart DEF NInv
  <2>2. CASE Handler(r) = c
    <3>1. acting[c] # <<>>
      <4>1. Len(acting[c]) # 0
        BY <1>2
      <4> QED  BY <4>1
    <3>2. /\ Len(tokens[c]) = Len(acting[c]) /\ phase[r] = "app"
          /\ acting[c][Len(acting[c])] = r
      BY <2>2, <3>1 DEF NInv, Handles
    <3>3. Len(acting[c]) # 1
      BY <1>4, <3>2, UnitsApart
    <3>4. acting'[c][Len(acting[c]) - 1] = r
      <4> DEFINE n == Len(acting[c])
                 last == n - 1
      <4>0. n \in Nat \ {0} /\ n # 1
        BY <1>2, <3>3
      <4> HIDE DEF n
      <4>1. last \in 1..(n - 1) /\ last + 1 = n
        BY <4>0
      <4> HIDE DEF last
      <4>2. acting'[c][last] = acting[c][last + 1]
        BY <1>2, <4>1 DEF n
      <4>3. acting[c][last + 1] = r
        BY <3>2, <4>1 DEF n
      <4> QED  BY <4>2, <4>3 DEF last, n
    <3>5. acting'[c] # <<>>
      <4>1. Len(acting'[c]) # 0
        BY <1>2, <3>3
      <4> QED  BY <4>1
    <3>6. /\ acting'[c][Len(acting'[c])] = r /\ Len(tokens'[c]) = Len(acting'[c])
          /\ phase'[r] = "app"
      BY <1>1, <1>2, <3>2, <3>4
    <3> QED  BY <2>2, <3>5, <3>6 DEF Handles, Handler
  <2> QED  BY <2>1, <2>2
<1>6. d \in OwnDocs(t)
  <2>1. Notes(c) = bags[t] /\ bags[t] \subseteq {t} /\ (t \in noted => t \in bags[t])
        /\ bags[t] \subseteq Units
    BY <1>2, UnitsApart DEF Notes, NInv, OwnBags, BagsTyped
  <2> DEFINE due == t \in noted
             result == IF failed THEN "failure" ELSE "success"
             notes == Notes(c)
  <2>2. due \in BOOLEAN /\ result \in {"failure", "success"} /\ notes \in SUBSET Units
        /\ notes \subseteq {t} /\ (due => notes = {t})
    BY <2>1
  <2>3. d = [notes |-> notes, due |-> due, result |-> result]
    BY Zenon
  <2> HIDE DEF due, result, notes, d
  <2> QED  BY <2>2, <2>3 DEF OwnDocs
<1> HIDE DEF d, t
<1>7. OwnNotes' /\ docs'[t] # <<>>
  <2>1. /\ \A u \in Units \ {t} : docs'[u] = docs[u]
        /\ docs'[t] = Append(docs[t], d) /\ docs[t] \in Seq(OwnDocs(t))
    BY <1>2, <1>4 DEF NInv, OwnNotes
  <2>2. docs'[t] \in Seq(OwnDocs(t)) /\ docs'[t] # <<>>
    <3>1. /\ Append(docs[t], d) \in Seq(OwnDocs(t))
          /\ Len(Append(docs[t], d)) = Len(docs[t]) + 1 /\ Len(docs[t]) \in Nat
      BY <1>6, <2>1, AppendProperties, LenProperties
    <3>2. Append(docs[t], d) # <<>>
      <4>1. Len(Append(docs[t], d)) # 0
        BY <3>1
      <4> QED  BY <4>1
    <3> QED  BY <2>1, <3>1, <3>2
  <2>3. \A u \in Tasks : docs'[u] \in Seq(OwnDocs(u))
    BY <2>1, <2>2, UnitsApart DEF NInv, OwnNotes
  <2>4. \A r \in Requests : docs'[r] = docs[r]
    BY <1>4, <2>1, UnitsApart
  <2> QED  BY <2>2, <2>3, <2>4 DEF NInv, OwnNotes, OwnDocs
<1>8. Fresh'
  <2>1. \A u \in Units \ {t} : docs'[u] = docs[u]
    BY <1>4
  <2> QED  BY <1>1, <1>3, <1>7, <2>1, UnitsApart DEF NInv, Fresh
<1> QED  BY <1>2, <1>5, <1>7, <1>8 DEF NInv

LEMMA NEmit ==
  ASSUME CInv, NInv, NEW r \in Requests, NEW exc \in {"none", "app", "transport"},
         NEW resolved \in BOOLEAN, NEW built \in BOOLEAN, NEW enriched \in BOOLEAN,
         NEW marked \in BOOLEAN, NEW taken \in BOOLEAN,
         Emit(r, exc, resolved, built, marked, enriched, taken)
  PROVE  NInv'
<1> DEFINE h == Handler(r)
           doc == Document(r, [ctx[r] EXCEPT !.exc = exc, !.sending = None,
                     !.status = IF exc # "none" /\ @ = None THEN 500 ELSE @], built, enriched)
           got == HandedOver(r, built, marked, taken)
<1>1. /\ phase[r] = "app" /\ phase' = [phase EXCEPT ![r] = "over"]
      /\ docs' = IF got THEN [docs EXCEPT ![r] = @ \o doc] ELSE docs
      /\ Len(tokens[h]) = 1 /\ CloseBag(h) /\ UNCHANGED <<bags, noted>>
  BY Zenon DEF Emit
<1>2. tokens[h] # <<>> /\ Len(acting[h]) = 1 /\ acting[h][1] = r /\ acting[h] # <<>>
  <2>1. /\ Len(tokens[h]) = Len(acting[h]) /\ acting[h] # <<>>
        /\ acting[h][Len(acting[h])] = r
    BY <1>1 DEF NInv, Handles
  <2>2. tokens[h] # <<>>
    <3>1. Len(tokens[h]) # 0
      BY <1>1
    <3> QED  BY <3>1
  <2> QED  BY <1>1, <2>1, <2>2
<1>3. h \in Contexts /\ (\A q \in Requests \ {r} : Handler(q) \in Contexts \ {h})
      /\ r \notin Tasks /\ r \in Units
  BY UnitsApart
<1> HIDE DEF h
<1>4. /\ BagsTyped' /\ (\A x \in Contexts : Nested(x)') /\ OwnBags'
      /\ \A x \in Contexts \ {h} : acting'[x] = acting[x] /\ tokens'[x] = tokens[x]
      /\ Len(acting'[h]) = Len(acting[h]) - 1 /\ Len(tokens'[h]) = Len(tokens[h]) - 1
      /\ \A i \in 1..(Len(acting[h]) - 1) : acting'[h][i] = acting[h][i + 1]
      /\ current[h] = acting[h][1]
  BY <1>1, <1>2, <1>3, Closes
<1>5. /\ \A w : AtWorkFor(w)' => AtWorkFor(w)
      /\ \A w : AtWorkFor(w) /\ w # r => AtWorkFor(w)'
  BY <1>2, <1>3, <1>4, ClosesWork
<1>6. /\ phase'[r] = "over" /\ \A q \in Requests \ {r} : phase'[q] = phase[q]
  BY <1>1 DEF CInv, CaptureTyped
<1>7. Handles(r)'
  <2>1. Len(acting'[h]) = 0 /\ Len(tokens'[h]) = 0 /\ acting'[h] \in Seq(Units)
    BY <1>1, <1>2, <1>3, <1>4 DEF BagsTyped
  <2>2. acting'[h] = <<>>
    BY <2>1, EmptySeq
  <2> QED  BY <1>6, <2>1, <2>2 DEF Handles, Handler, h
<1>8. \A q \in Requests : Handles(q)'
  BY <1>3, <1>4, <1>6, <1>7, HandlesElsewhere DEF NInv
<1>9. /\ doc[1].notes \subseteq {r}
      /\ doc[1].due /\ doc[1].enriched => doc[1].notes = {r}
  <2>1. Notes(h) = bags[r] /\ bags[r] \subseteq {r} /\ (r \in noted => r \in bags[r])
    BY <1>2, <1>3, <1>4, UnitsApart DEF Notes, NInv, OwnBags
  <2>2. /\ doc[1].notes = IF built /\ enriched THEN Notes(h) ELSE {}
        /\ doc[1].due <=> r \in noted
        /\ doc[1].enriched <=> built /\ enriched
    BY DEF Document, h
  <2> HIDE DEF doc
  <2> QED  BY <2>1, <2>2
<1>10. docs'[r] # <<>> => docs'[r] = doc
  <2>1. docs[r] = <<>> /\ DOMAIN docs = Units
    BY <1>1 DEF CInv, CaptureTyped, Documented
  <2>2. got => docs'[r] = <<>> \o doc
    BY <1>1, <1>3, <2>1
  <2>3. \E d : doc = <<d>>
    BY Zenon DEF Document
  <2> HIDE DEF doc
  <2> QED  BY <1>1, <2>1, <2>2, <2>3, FirstDocument
<1> HIDE DEF doc
<1>11. \A u \in Units \ {r} : docs'[u] = docs[u]
  BY <1>1 DEF CInv, CaptureTyped
<1>12. OwnNotes'
  <2>1. \A t \in Tasks : docs'[t] = docs[t]
    BY <1>3, <1>11, UnitsApart
  <2>2. \A q \in Requests \ {r} : docs'[q] = docs[q]
    BY <1>11, UnitsApart
  <2> QED  BY <1>9, <1>10, <2>1, <2>2 DEF NInv, OwnNotes, OwnDocs
<1>13. Fresh'
  BY <1>1, <1>3, <1>5, <1>6, <1>11, UnitsApart DEF NInv, Fresh
<1> QED  BY <1>4, <1>8, <1>12, <1>13 DEF NInv

LEMMA NInit == Init => NInv
<1> SUFFICES ASSUME Init PROVE NInv
  OBVIOUS
<1>1. BagsTyped
  BY DEF Init, BagsTyped
<1>2. \A c \in Contexts : Nested(c)
  BY DEF Init, Nested
<1>3. \A r \in Requests : Handles(r)
  BY UnitsApart DEF Init, Handles
<1>4. OwnBags /\ OwnNotes
  BY UnitsApart, EmptySeq DEF Init, OwnBags, OwnNotes
<1>5. Fresh
  BY DEF Init, Fresh, AtWorkFor, Contains
<1> QED  BY <1>1, <1>2, <1>3, <1>4, <1>5 DEF NInv

LEMMA NStep == CInv /\ NInv /\ [Next]_vars => NInv'
<1> SUFFICES ASSUME CInv, NInv, [Next]_vars PROVE NInv'
  OBVIOUS
<1>0. phase \in [Requests -> {"new", "app", "unwrapped", "over"}] /\ DOMAIN docs = Units
  BY DEF CInv, CaptureTyped
<1>1. CASE UNCHANGED vars
  BY <1>1, NElsewhere DEF vars, bagVars
<1>2. ASSUME NEW x \in Contexts, Annotate(x) PROVE NInv'
  BY <1>2, NAnnotate
<1>3. ASSUME NEW r \in Requests, Spawn(r) PROVE NInv'
  BY <1>3, NSpawn
<1>4. ASSUME NEW x \in Contexts, NEW t \in Tasks, TaskBegins(x, t) PROVE NInv'
  BY <1>4, NTaskBegins
<1>5. ASSUME NEW x \in Contexts, NEW failed \in BOOLEAN, TaskEnds(x, failed) PROVE NInv'
  BY <1>0, <1>5, NTaskEnds
<1>6. ASSUME NEW r \in Requests, NEW b \in Requests \cup {None}, Arrives(r, b) PROVE NInv'
  BY <1>0, <1>6, NArrives
<1>7. ASSUME NEW r \in Requests, Excludes(r) \/ SetupFails(r) PROVE NInv'
  <2>1. /\ UNCHANGED <<bagVars, docs>> /\ phase[r] = "new"
        /\ phase' = [phase EXCEPT ![r] = "unwrapped"]
    BY <1>7 DEF Excludes, SetupFails
  <2>2. \A q \in Requests : /\ phase'[q] = "app" <=> phase[q] = "app"
                            /\ phase'[q] = "new" => phase[q] = "new"
    BY <1>0, <2>1
  <2> QED  BY <2>1, <2>2, NElsewhere
<1>8. ASSUME NEW r \in Requests,
             \/ \E n \in kind[r].sizes :
                  capture[r].received + n <= kind[r].receives /\ ReceiveBody(r, n)
             \/ ReceiveDisconnect(r)
             \/ \E s \in kind[r].statuses : SendStart(r, s)
             \/ \E more \in BOOLEAN : SendBody(r, 1, more)
             \/ \E accepted \in BOOLEAN : Sent(r, accepted)
      PROVE  NInv'
  <2>1. UNCHANGED <<phase, bagVars, docs>>
    <3>1. ASSUME NEW n, ReceiveBody(r, n) PROVE UNCHANGED <<phase, bagVars, docs>>
      BY <3>1 DEF ReceiveBody
    <3> QED  BY <1>8, <3>1 DEF ReceiveDisconnect, SendStart, SendBody, Sent
  <2> QED  BY <2>1, NElsewhere
<1>9. ASSUME NEW r \in Requests, NEW exc \in {"none", "app", "transport"}, NEW f,
             Emit(r, exc, f # "resolve", f \notin {"build", "mark"}, f # "mark",
                  f \notin {"build", "mark", "enrich"}, f # "take")
      PROVE  NInv'
  BY <1>9, NEmit
<1> QED  BY <1>1, <1>2, <1>3, <1>4, <1>5, <1>6, <1>7, <1>8, <1>9 DEF Next

\* An annotation reaches the document of the request or audited task it is made
\* in, and no other, whatever the handler starts and however calls nest.
THEOREM OwnAnnotationsHold == Spec => []OwnAnnotations
<1>1. CInv /\ NInv => OwnAnnotations
  <2> SUFFICES ASSUME CInv, NInv PROVE OwnAnnotations
    OBVIOUS
  <2>1. ASSUME NEW t \in Tasks, NEW i \in DOMAIN docs[t]
        PROVE  docs[t][i].notes \subseteq {t} /\ (docs[t][i].due => docs[t][i].notes = {t})
    <3>1. docs[t] \in Seq(OwnDocs(t))
      BY DEF NInv, OwnNotes
    <3>2. docs[t][i] \in OwnDocs(t)
      BY <2>1, <3>1, ElementOfSeq, LenProperties
    <3> QED  BY <3>2 DEF OwnDocs
  <2>2. ASSUME NEW r \in Requests, NEW i \in DOMAIN docs[r]
        PROVE  LET d == docs[r][i] IN
               d.notes \subseteq {r} /\ (d.due /\ d.enriched => d.notes = {r})
    <3>1. DOMAIN docs[r] = 1..1 /\ docs[r] # <<>>
      BY <2>2 DEF CInv, Documented
    <3> QED  BY <2>2, <3>1 DEF NInv, OwnNotes
  <2> QED  BY <2>1, <2>2, UnitsApart DEF OwnAnnotations, Units
<1> QED  BY <1>1, CInit, CStep, NInit, NStep, PTL DEF Spec
-----------------------------------------------------------------------------
(* The outcome of a request.                                               *)

\* What the document says of the end is decided by the context it ended with.
Decided(d, r) ==
  LET c == ctx[r]
      outcome == Outcome(c, capture[r].sawDisconnect)
  IN /\ d.outcome = outcome /\ d.status = c.status
     /\ d.enriched => d.result = ResultOf(c.status, outcome)

\* The server was told no other status than the one captured, and no end that
\* the clock has not seen: both are captured before the server's send.
Captures(r) ==
  /\ told[r].status \in {None, ctx[r].status}
  /\ told[r].complete => ctx[r].ended
  /\ ctx[r].sending = "last" => ctx[r].ended

ToldRecord == [status : Statuses, complete : BOOLEAN]

AInv ==
  /\ told \in [Requests -> ToldRecord]
  /\ \A r \in Requests : Captures(r) /\ (docs[r] # <<>> => Decided(docs[r][1], r))

LEMMA StatusesAreNumbers == Statuses \subseteq Int \cup {None}
<1>1. \A k \in Mixes : \A r \in Requests : k[r].statuses \subseteq Int \cup {None}
  BY RequestAssumption
<1>2. UNION {UNION {k[r].statuses : r \in Requests} : k \in Mixes} \subseteq Int \cup {None}
  BY <1>1
<1> QED  BY <1>2 DEF Statuses

LEMMA AInit == Init => AInv
  BY RequestAssumption DEF Init, AInv, Captures, NewCtx, ToldRecord, Statuses, Units

\* What leaves the messages and the requests' documents alone.
LEMMA AElsewhere ==
  ASSUME AInv, UNCHANGED httpVars, \A r \in Requests : docs'[r] = docs[r]
  PROVE  AInv'
  BY DEF AInv, httpVars, Captures, Decided

\* What one request that is not over does leaves the others alone.
LEMMA AOneRequest ==
  ASSUME AInv, NEW r \in Requests, told' \in [Requests -> ToldRecord], Captures(r)',
         (docs[r] # <<>> => Decided(docs[r][1], r))',
         \A q \in Requests \ {r} : /\ ctx'[q] = ctx[q] /\ capture'[q] = capture[q]
                                   /\ told'[q] = told[q] /\ docs'[q] = docs[q]
  PROVE  AInv'
  BY DEF AInv, Captures, Decided

LEMMA AMessages ==
  ASSUME CInv, CInv', AInv, NEW r \in Requests,
         \/ \E n \in kind[r].sizes : ReceiveBody(r, n)
         \/ ReceiveDisconnect(r)
         \/ \E s \in kind[r].statuses : SendStart(r, s)
         \/ \E more \in BOOLEAN : SendBody(r, 1, more)
         \/ \E accepted \in BOOLEAN : Sent(r, accepted)
  PROVE  AInv'
<1>1. /\ ctx \in [Requests -> CtxRecord] /\ told \in [Requests -> ToldRecord] /\ Captures(r)
      /\ capture \in [Requests -> CaptureRecord]
  BY DEF CInv, CaptureTyped, AInv
<1>2. phase[r] = "app" /\ UNCHANGED docs /\ docs[r] = <<>>
  <2>1. phase[r] = "app" /\ UNCHANGED docs
    <3>1. ASSUME NEW n, ReceiveBody(r, n) PROVE phase[r] = "app" /\ UNCHANGED docs
      BY <3>1, Zenon DEF ReceiveBody
    <3> QED  BY <3>1, Zenon DEF ReceiveDisconnect, SendStart, SendBody, Sent
  <2> QED  BY <2>1 DEF CInv, Documented
<1>3. ASSUME /\ ctx'[r].status = ctx[r].status \/ told[r].status = None
             /\ ctx[r].ended => ctx'[r].ended
             /\ ctx'[r].sending = "last" => ctx'[r].ended
             /\ UNCHANGED told
             /\ \A q \in Requests \ {r} : ctx'[q] = ctx[q] /\ capture'[q] = capture[q]
      PROVE  AInv'
  <2>1. Captures(r)'
    BY <1>1, <1>3 DEF Captures
  <2> QED  BY <1>1, <1>2, <1>3, <2>1, AOneRequest
<1>4. ASSUME NEW n \in kind[r].sizes, ReceiveBody(r, n) PROVE AInv'
  <2>1. /\ ctx' = [ctx EXCEPT ![r].truncated = @ \/ (n > 0 /\ Truncates(r, n))]
        /\ UNCHANGED told
        /\ \A q \in Requests \ {r} : capture'[q] = capture[q]
    BY <1>1, <1>4 DEF ReceiveBody
  <2>2. ctx'[r] = [ctx[r] EXCEPT !.truncated = @ \/ (n > 0 /\ Truncates(r, n))]
        /\ \A q \in Requests \ {r} : ctx'[q] = ctx[q]
    BY <1>1, <2>1
  <2>3. /\ ctx'[r].status = ctx[r].status /\ ctx'[r].ended = ctx[r].ended
        /\ ctx'[r].sending = ctx[r].sending
    BY <1>1, <2>2 DEF CtxRecord
  <2> QED  BY <1>1, <1>3, <2>1, <2>2, <2>3 DEF Captures
<1>5. CASE ReceiveDisconnect(r)
  <2>1. UNCHANGED <<ctx, told>> /\ \A q \in Requests \ {r} : capture'[q] = capture[q]
    BY <1>1, <1>5 DEF ReceiveDisconnect
  <2> QED  BY <1>1, <1>3, <2>1 DEF Captures
<1>6. ASSUME NEW s, SendStart(r, s) PROVE AInv'
  <2>1. /\ ctx' = [ctx EXCEPT ![r] = [@ EXCEPT !.status = s, !.sending = "start"]]
        /\ told[r].status = None /\ UNCHANGED <<told, capture>>
    BY <1>6, Zenon DEF SendStart
  <2>2. /\ ctx'[r].ended = ctx[r].ended /\ ctx'[r].sending = "start"
        /\ \A q \in Requests \ {r} : ctx'[q] = ctx[q]
    BY <1>1, <2>1 DEF CtxRecord
  <2> QED  BY <1>3, <2>1, <2>2
<1>7. ASSUME NEW more \in BOOLEAN, SendBody(r, 1, more) PROVE AInv'
  <2>1. /\ ctx' = [ctx EXCEPT ![r] = WithMessage(ctx[r], more)]
        /\ UNCHANGED <<told, capture>>
    BY <1>7, Zenon DEF SendBody, WithMessage
  <2>2. ctx'[r] = WithMessage(ctx[r], more) /\ \A q \in Requests \ {r} : ctx'[q] = ctx[q]
    BY <1>1, <2>1
  <2>3. LET c == WithMessage(ctx[r], more) IN
        /\ c.status = ctx[r].status /\ c.ended = (ctx[r].ended \/ ~more)
        /\ c.sending = IF more THEN "more" ELSE "last"
    BY <1>1 DEF WithMessage, CtxRecord
  <2>4. /\ ctx'[r].status = ctx[r].status /\ (ctx[r].ended => ctx'[r].ended)
        /\ ctx'[r].sending = "last" => ctx'[r].ended
    <3>1. CASE more
      BY <2>2, <2>3, <3>1
    <3>2. CASE ~more
      BY <2>2, <2>3, <3>2
    <3> QED  BY <3>1, <3>2
  <2> QED  BY <1>3, <2>1, <2>2, <2>4
<1>8. ASSUME NEW accepted \in BOOLEAN, Sent(r, accepted) PROVE AInv'
  <2>1. /\ ctx' = [ctx EXCEPT ![r].sending = IF accepted THEN None ELSE "broken"]
        /\ told' = IF ~accepted THEN told
             ELSE [told EXCEPT ![r].status = IF ctx[r].sending = "start" THEN ctx[r].status ELSE @,
                               ![r].complete = @ \/ ctx[r].sending = "last"]
        /\ UNCHANGED capture
    BY <1>8, Zenon DEF Sent
  <2>2. /\ ctx'[r].status = ctx[r].status /\ ctx'[r].ended = ctx[r].ended
        /\ ctx'[r].sending \in {None, "broken"}
        /\ \A q \in Requests \ {r} : ctx'[q] = ctx[q]
    BY <1>1, <2>1 DEF CtxRecord
  <2>3. CASE ~accepted
    BY <1>1, <1>3, <2>1, <2>2, <2>3, RequestAssumption
  <2>4. CASE accepted
    <3> DEFINE s == IF ctx[r].sending = "start" THEN ctx[r].status ELSE told[r].status
               b == told[r].complete \/ ctx[r].sending = "last"
    <3>1. told' = [told EXCEPT ![r] = [@ EXCEPT !.status = s, !.complete = b]]
      BY <2>1, <2>4, Zenon
    <3>2. s \in Statuses /\ b \in BOOLEAN
      BY <1>1 DEF ToldRecord, CtxRecord
    <3>3. s \in {None, ctx[r].status} /\ (b => ctx[r].ended)
      BY <1>1 DEF Captures
    <3> HIDE DEF s, b
    <3>4. /\ told'[r].status = s /\ told'[r].complete = b
          /\ told' \in [Requests -> ToldRecord]
          /\ \A q \in Requests \ {r} : told'[q] = told[q]
      <4>1. told'[r] = [told[r] EXCEPT !.status = s, !.complete = b]
            /\ \A q \in Requests \ {r} : told'[q] = told[q]
        BY <1>1, <3>1
      <4>2. told'[r] \in ToldRecord /\ told'[r].status = s /\ told'[r].complete = b
        <5>1. told[r] \in ToldRecord
          BY <1>1
        <5> QED  BY <3>2, <4>1, <5>1 DEF ToldRecord
      <4> QED  BY <1>1, <3>1, <4>1, <4>2
    <3>5. Captures(r)'
      BY <2>2, <3>3, <3>4, RequestAssumption DEF Captures
    <3> QED  BY <1>2, <2>1, <2>2, <3>4, <3>5, AOneRequest
  <2> QED  BY <2>3, <2>4
<1> QED  BY <1>4, <1>5, <1>6, <1>7, <1>8

\* The end of a request settles its status: 500 for one that raised before it
\* said anything.
LEMMA AEmit ==
  ASSUME CInv, CInv', AInv, NEW r \in Requests, NEW exc \in {"none", "app", "transport"},
         NEW resolved \in BOOLEAN, NEW built \in BOOLEAN, NEW enriched \in BOOLEAN,
         NEW marked \in BOOLEAN, NEW taken \in BOOLEAN,
         Emit(r, exc, resolved, built, marked, enriched, taken)
  PROVE  AInv'
<1> DEFINE c == [ctx[r] EXCEPT !.exc = exc, !.sending = None,
                               !.status = IF exc # "none" /\ @ = None THEN 500 ELSE @]
           st == IF exc # "none" /\ ctx[r].status = None THEN 500 ELSE ctx[r].status
           doc == Document(r, c, built, enriched)
           got == HandedOver(r, built, marked, taken)
<1>1. /\ ctx \in [Requests -> CtxRecord] /\ told \in [Requests -> ToldRecord] /\ Captures(r)
      /\ DOMAIN docs = Units /\ r \in Units
  BY DEF CInv, CaptureTyped, AInv, Units
<1>2. /\ phase[r] = "app" /\ ctx' = [ctx EXCEPT ![r] = c]
      /\ docs' = IF got THEN [docs EXCEPT ![r] = @ \o doc] ELSE docs
      /\ UNCHANGED <<told, capture>> /\ (built \/ ~enriched)
  BY Zenon DEF Emit
<1>3. docs[r] = <<>>
  BY <1>2 DEF CInv, Documented
<1>4. /\ c.status = st /\ c.ended = ctx[r].ended /\ c.sending = None
  BY <1>1 DEF CtxRecord
<1>5. doc = <<doc[1]>> /\ docs'[r] = IF got THEN doc ELSE <<>>
  <2>1. doc = <<doc[1]>>
    BY FirstDocument, Zenon DEF Document
  <2>2. docs'[r] = IF got THEN <<>> \o doc ELSE <<>>
    BY <1>1, <1>2, <1>3
  <2> HIDE DEF doc
  <2> QED  BY <2>1, <2>2, FirstDocument
<1>6. /\ doc[1].outcome = Outcome(c, capture[r].sawDisconnect) /\ doc[1].status = c.status
      /\ doc[1].enriched => doc[1].result = ResultOf(c.status, doc[1].outcome)
  <2> HIDE DEF c
  <2> QED  BY <1>2 DEF Document
<1> HIDE DEF c, doc
<1>7. ctx'[r] = c /\ \A q \in Requests \ {r} : ctx'[q] = ctx[q] /\ docs'[q] = docs[q]
  BY <1>1, <1>2, <1>3
<1>8. Captures(r)'
  BY <1>1, <1>2, <1>4, <1>7, RequestAssumption DEF Captures
<1>9. (docs[r] # <<>> => Decided(docs[r][1], r))'
  <2>1. LET o == Outcome(ctx'[r], capture'[r].sawDisconnect) IN
        /\ doc[1].outcome = o /\ doc[1].status = ctx'[r].status
        /\ doc[1].enriched => doc[1].result = ResultOf(ctx'[r].status, o)
    BY <1>2, <1>6, <1>7 DEF Decided
  <2>2. CASE got
    <3>1. docs'[r] = doc
      BY <1>5, <2>2
    <3> QED  BY <2>1, <3>1 DEF Decided
  <2>3. CASE ~got
    BY <1>5, <2>3
  <2> QED  BY <2>2, <2>3
<1> QED  BY <1>1, <1>2, <1>7, <1>8, <1>9, AOneRequest

LEMMA AStep == CInv /\ CInv' /\ AInv /\ [Next]_vars => AInv'
<1> SUFFICES ASSUME CInv, CInv', AInv, [Next]_vars PROVE AInv'
  OBVIOUS
<1>1. CASE UNCHANGED vars
  BY <1>1, AElsewhere DEF vars, httpVars
<1>2. ASSUME NEW x \in Contexts, Annotate(x) PROVE AInv'
  BY <1>2, AElsewhere DEF Annotate
<1>3. ASSUME NEW r \in Requests, Spawn(r) PROVE AInv'
  BY <1>3, AElsewhere DEF Spawn
<1>4. ASSUME NEW x \in Contexts, NEW t \in Tasks, TaskBegins(x, t) PROVE AInv'
  BY <1>4, AElsewhere DEF TaskBegins
<1>5. ASSUME NEW x \in Contexts, NEW failed \in BOOLEAN, TaskEnds(x, failed) PROVE AInv'
  BY <1>5, AElsewhere, RequestAssumption DEF TaskEnds, CInv, CaptureTyped
<1>6. ASSUME NEW r \in Requests,
             Excludes(r) \/ SetupFails(r) \/ \E b \in Requests \cup {None} : Arrives(r, b)
      PROVE  AInv'
  BY <1>6, AElsewhere DEF Excludes, SetupFails, Arrives
<1>7. ASSUME NEW r \in Requests,
             \/ \E n \in kind[r].sizes :
                  capture[r].received + n <= kind[r].receives /\ ReceiveBody(r, n)
             \/ ReceiveDisconnect(r)
             \/ \E s \in kind[r].statuses : SendStart(r, s)
             \/ \E more \in BOOLEAN : SendBody(r, 1, more)
             \/ \E accepted \in BOOLEAN : Sent(r, accepted)
      PROVE  AInv'
  BY <1>7, AMessages
<1>8. ASSUME NEW r \in Requests, NEW exc \in {"none", "app", "transport"}, NEW f,
             Emit(r, exc, f # "resolve", f \notin {"build", "mark"}, f # "mark",
                  f \notin {"build", "mark", "enrich"}, f # "take")
      PROVE  AInv'
  BY <1>8, AEmit
<1> QED  BY <1>1, <1>2, <1>3, <1>4, <1>5, <1>6, <1>7, <1>8 DEF Next

\* The outcome of a document agrees with what the application raised and with
\* what the server was told, however the messages, the disconnect and the end of
\* the request interleave and whatever of _emit fails.
THEOREM OutcomeTellsWhatHappenedHolds == Spec => []OutcomeTellsWhatHappened
<1>1. CInv /\ AInv => OutcomeTellsWhatHappened
  <2> SUFFICES ASSUME CInv, AInv, NEW r \in Requests, docs[r] # <<>>
               PROVE  OutcomeTellsWhatHappened!(r)!2
    BY DEF OutcomeTellsWhatHappened
  <2> DEFINE d == docs[r][1]
             c == ctx[r]
  <2>1. Decided(d, r) /\ Captures(r) /\ c.exc \in {"none", "app", "transport"}
    BY DEF CInv, CaptureTyped, CtxRecord, AInv
  <2>2. c.status \in Int \cup {None} /\ told[r].status \in Int \cup {None}
    BY <2>1, StatusesAreNumbers DEF CInv, CaptureTyped, CtxRecord, AInv, ToldRecord
  <2> HIDE DEF d, c
  <2> QED
    BY <2>1, <2>2, RequestAssumption
       DEF Decided, Captures, Outcome, ResultOf, AtLeast, c, d
<1> QED  BY <1>1, AInit, AStep, CInit, CStep, PTL DEF Spec
=============================================================================
