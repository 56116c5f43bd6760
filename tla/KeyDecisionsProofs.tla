------------------------- MODULE KeyDecisionsProofs -------------------------
(***************************************************************************)
(* That the keys of a structure stay apart, and that a structure is only   *)
(* refused past its budget, whatever the keys, the sizes of the memos and  *)
(* the number of threads that share the cache.                             *)
(***************************************************************************)
EXTENDS KeyDecisions, FiniteSetTheorems, SequenceTheorems, TLAPS

-----------------------------------------------------------------------------
(* Texts.                                                                  *)

Texts == {k.text : k \in Keys}
PartsOf(x) == {x[i] : i \in DOMAIN x}
Parts == (UNION {PartsOf(x) : x \in Texts}) \cup {Digest}

\* A key's text is a sequence of its parts.
LEMMA TextIsASequence == ASSUME NEW k \in Keys PROVE k.text \in Seq(Parts)
<1>1. Len(k.text) \in Nat /\ k.text = [i \in 1..Len(k.text) |-> k.text[i]]
  BY KeysAreTheirText
<1>2. DOMAIN k.text = 1..Len(k.text)
  BY <1>1
<1>3. k.text \in Texts
  BY DEF Texts
<1>4. ASSUME NEW i \in 1..Len(k.text) PROVE k.text[i] \in Parts
  <2>1. PartsOf(k.text) \in {PartsOf(x) : x \in Texts}
    BY <1>3
  <2>2. k.text[i] \in PartsOf(k.text)
    BY <1>2 DEF PartsOf
  <2> QED
    BY <2>1, <2>2 DEF Parts
<1>5. k.text \in [1..Len(k.text) -> Parts]
  BY <1>1, <1>4
<1> QED
  BY <1>1, <1>5, SMT

\* Two keys never come out of redact() under one text when neither is a
\* stand-in: the digest is taken of the whole key, and a key which already
\* spells a rewritten one is rewritten itself.
LEMMA SanitizedApart ==
  ASSUME NEW j \in Keys, NEW k \in Keys, Sanitized(j) = Sanitized(k)
  PROVE  j = k
<1>1. j.text \in Seq(Parts) /\ k.text \in Seq(Parts)
  BY TextIsASequence
<1>2. Digest \in Parts
  BY DEF Parts
<1>3. \A x \in Keys : ~Rewritten(x) => \A i \in DOMAIN x.text : x.text[i] # Digest
  BY KeysAreTheirText DEF Rewritten
<1>4. ASSUME NEW x \in Keys, NEW y \in Keys, Rewritten(x), ~Rewritten(y)
      PROVE  Sanitized(x) # Sanitized(y)
  <2>1. x.text \in Seq(Parts) /\ y.text \in Seq(Parts)
    BY TextIsASequence
  <2>2. Len(Append(x.text, Digest)) = Len(x.text) + 1 /\ Append(x.text, Digest)[Len(x.text) + 1] = Digest
    BY <2>1, <1>2, SMT
  <2>3. Len(x.text) + 1 \in 1..Len(Append(x.text, Digest)) /\ DOMAIN Append(x.text, Digest) = 1..Len(Append(x.text, Digest))
    BY <2>1, <1>2, <2>2, SMT
  <2>4. Append(x.text, Digest) # y.text
    BY <2>2, <2>3, <1>3, <1>4
  <2> QED
    BY <2>4, <1>4 DEF Sanitized
<1>5. Rewritten(j) <=> Rewritten(k)
  BY <1>4
<1>6. j.text = k.text
  <2>1. CASE Rewritten(j)
    <3> DEFINE x == j.text
               y == k.text
    <3>1. Append(x, Digest) = Append(y, Digest)
      BY <2>1, <1>5 DEF Sanitized
    <3>2. x \in Seq(Parts) /\ y \in Seq(Parts)
      BY <1>1
    <3> HIDE DEF x, y
    <3>3. Len(x) = Len(y)
      <4>1. Len(Append(x, Digest)) = Len(x) + 1 /\ Len(Append(y, Digest)) = Len(y) + 1 /\ Len(x) \in Nat /\ Len(y) \in Nat
        BY <3>2, <1>2, SMT
      <4> QED
        BY <4>1, <3>1, SMT
    <3>4. \A i \in 1..Len(x) : x[i] = y[i]
      <4>1. \A i \in 1..Len(x) : Append(x, Digest)[i] = x[i]
        BY <3>2, <1>2, SMT
      <4>2. \A i \in 1..Len(y) : Append(y, Digest)[i] = y[i]
        BY <3>2, <1>2, SMT
      <4> QED
        BY <4>1, <4>2, <3>1, <3>3, Zenon
    <3>5. x = y
      BY <3>2, <3>3, <3>4, SeqEqual, Zenon
    <3> QED
      BY <3>5 DEF x, y
  <2>2. CASE ~Rewritten(j)
    BY <2>2, <1>5 DEF Sanitized
  <2> QED
    BY <2>1, <2>2
<1> QED
  BY <1>6, KeysAreTheirText

\* A stand-in is no key's own text, and stand-ins of two numbers differ.
LEMMA StandInIsNoText ==
  ASSUME NEW j \in Keys, NEW k, NEW n \in Nat
  PROVE  Sanitized(j) # Degraded(k, n)
<1>1. j.text \in Seq(Parts) /\ Digest \in Parts
  BY TextIsASequence DEF Parts
<1>2. DOMAIN Degraded(k, n) = 1..3 /\ Degraded(k, n)[1] = "over-budget" /\ Degraded(k, n)[3] = n /\ Len(Degraded(k, n)) = 3
  BY SMT DEF Degraded
<1>3. ~Rewritten(j) => \A i \in DOMAIN j.text : j.text[i] # "over-budget"
  BY KeysAreTheirText DEF Rewritten
<1>4. CASE Rewritten(j)
  <2>1. Len(Append(j.text, Digest)) = Len(j.text) + 1 /\ Append(j.text, Digest)[Len(j.text) + 1] = Digest
    BY <1>1, SMT
  <2>2. n # Digest
    BY KeysAreTheirText
  <2>3. Append(j.text, Digest) # Degraded(k, n)
    BY <2>1, <2>2, <1>2, <1>1
  <2> QED
    BY <2>3, <1>4 DEF Sanitized
<1>5. CASE ~Rewritten(j)
  <2>1. 1 \in 1..3
    BY SMT
  <2> QED
    BY <2>1, <1>5, <1>2, <1>3 DEF Sanitized
<1> QED
  BY <1>4, <1>5

LEMMA StandInsApart ==
  ASSUME NEW j, NEW k, NEW m, NEW n, m # n
  PROVE  Degraded(j, m) # Degraded(k, n)
<1>1. Degraded(j, m)[3] = m /\ Degraded(k, n)[3] = n
  BY SMT DEF Degraded
<1> QED
  BY <1>1

-----------------------------------------------------------------------------
(* A lookup.                                                               *)

Record(m, cold, seq, chars, left, max, on, refused) ==
  [memo |-> m, cold |-> cold, seq |-> seq, chars |-> chars, left |-> left,
   max |-> max, on |-> on, refused |-> refused]

IsRecord(c) ==
  c = Record(c.memo, c.cold, c.seq, c.chars, c.left, c.max, c.on, c.refused)

Cost(k) == IF k.class = "other" THEN 0 ELSE k.len

\* The call's memo has no room for k.
NoRoom(c, k) == Cardinality(DOMAIN c.memo) >= KEY_CACHE_MAX \/ Cost(k) > c.chars

LEMMA RecordIsRecord ==
  ASSUME NEW m, NEW cold, NEW seq, NEW chars, NEW left, NEW max, NEW on, NEW refused
  PROVE  IsRecord(Record(m, cold, seq, chars, left, max, on, refused))
BY DEF IsRecord, Record

LEMMA RecordRemembering ==
  ASSUME NEW c, IsRecord(c), NEW n, NEW r
  PROVE  [c EXCEPT !.memo = n, !.chars = r]
           = Record(n, c.cold, c.seq, r, c.left, c.max, c.on, c.refused)
<1> DEFINE S == [memo : {c.memo, n}, cold : {c.cold}, seq : {c.seq}, chars : {c.chars, r},
           left : {c.left}, max : {c.max}, on : {c.on}, refused : {c.refused}]
           d == [c EXCEPT !.memo = n, !.chars = r]
<1>1. c \in S
  BY DEF IsRecord, Record
<1>2. d \in S
  BY <1>1
<1>3. /\ d.memo = n /\ d.cold = c.cold /\ d.seq = c.seq /\ d.chars = r
      /\ d.left = c.left /\ d.max = c.max /\ d.on = c.on /\ d.refused = c.refused
  BY <1>1
<1> HIDE DEF d
<1>4. d = Record(n, c.cold, c.seq, r, c.left, c.max, c.on, c.refused)
  BY <1>2, <1>3 DEF Record
<1> QED
  BY <1>4, Zenon DEF d

LEMMA RecordCharging ==
  ASSUME NEW c, IsRecord(c), NEW l, NEW w, NEW q
  PROVE  [c EXCEPT !.left = l, !.cold = w, !.seq = q]
           = Record(c.memo, w, q, c.chars, l, c.max, c.on, c.refused)
<1> DEFINE S == [memo : {c.memo}, cold : {c.cold, w}, seq : {c.seq, q}, chars : {c.chars},
           left : {c.left, l}, max : {c.max}, on : {c.on}, refused : {c.refused}]
           d == [c EXCEPT !.left = l, !.cold = w, !.seq = q]
<1>1. c \in S
  BY DEF IsRecord, Record
<1>2. d \in S
  BY <1>1
<1>3. /\ d.memo = c.memo /\ d.cold = w /\ d.seq = q /\ d.chars = c.chars
      /\ d.left = l /\ d.max = c.max /\ d.on = c.on /\ d.refused = c.refused
  BY <1>1
<1> HIDE DEF d
<1>4. d = Record(c.memo, w, q, c.chars, l, c.max, c.on, c.refused)
  BY <1>2, <1>3 DEF Record
<1> QED
  BY <1>4, Zenon DEF d

\* What _remember keeps: the entry, or nothing when the memo has no room.
LEMMA RememberKeeps ==
  ASSUME NEW c, IsRecord(c), NEW k, NEW entry
  PROVE  Remember(c, k, entry) =
           IF NoRoom(c, k) THEN c
           ELSE Record([x \in DOMAIN c.memo \cup {k} |-> IF x = k THEN entry ELSE c.memo[x]],
                       c.cold, c.seq, c.chars - Cost(k), c.left, c.max, c.on, c.refused)
<1> DEFINE m == [x \in DOMAIN c.memo \cup {k} |-> IF x = k THEN entry ELSE c.memo[x]]
           n == c.chars - Cost(k)
<1>1. Remember(c, k, entry) = IF NoRoom(c, k) THEN c ELSE [c EXCEPT !.memo = m, !.chars = n]
  BY DEF Remember, NoRoom, Cost
<1> HIDE DEF m, n
<1>2. [c EXCEPT !.memo = m, !.chars = n]
        = Record(m, c.cold, c.seq, n, c.left, c.max, c.on, c.refused)
  BY RecordRemembering, Zenon
<1> QED
  BY <1>1, <1>2 DEF m, n

\* The call after it met a key its memo did not know.
Charged(known, c, k, d) ==
  /\ IsRecord(d) /\ d.on = c.on /\ d.refused = c.refused /\ d.max = c.max
  /\ d.left = IF c.left = None THEN None ELSE c.left - 1
  /\ d.seq = IF OutOfBudget(known, c, k) THEN c.seq + 1 ELSE c.seq
  /\ NoRoom(c, k) => d.memo = c.memo /\ d.chars = c.chars
  /\ ~NoRoom(c, k) =>
       /\ d.memo = [x \in DOMAIN c.memo \cup {k} |->
                      IF x = k THEN Decision(known, c, k) ELSE c.memo[x]]
       /\ d.chars = c.chars - Cost(k)

LEMMA LookupCharges ==
  ASSUME NEW known, NEW c, IsRecord(c), NEW k, k \notin DOMAIN c.memo
  PROVE  Charged(known, c, k, AfterLookup(known, c, k))
<1> DEFINE l == IF c.left = None THEN None ELSE c.left - 1
           w == IF NeedsWork(known, k) /\ c.cold > 0 THEN c.cold - 1 ELSE c.cold
           q == IF OutOfBudget(known, c, k) THEN c.seq + 1 ELSE c.seq
           e == Decision(known, c, k)
           b == Record(c.memo, w, q, c.chars, l, c.max, c.on, c.refused)
           m == [x \in DOMAIN c.memo \cup {k} |-> IF x = k THEN e ELSE c.memo[x]]
<1>1. AfterLookup(known, c, k) = Remember([c EXCEPT !.left = l, !.cold = w, !.seq = q], k, e)
  BY DEF AfterLookup
<1> HIDE DEF l, w, q, e
<1>2. [c EXCEPT !.left = l, !.cold = w, !.seq = q] = b
  BY RecordCharging, Zenon
<1>3. IsRecord(b)
  BY RecordIsRecord
<1>4. /\ b.memo = c.memo /\ b.seq = q /\ b.chars = c.chars /\ b.left = l
      /\ b.max = c.max /\ b.on = c.on /\ b.refused = c.refused
  BY DEF Record
<1>5. NoRoom(b, k) <=> NoRoom(c, k)
  BY <1>4, Zenon DEF NoRoom
<1> HIDE DEF b
<1>6. AfterLookup(known, c, k) =
        IF NoRoom(c, k) THEN b
        ELSE Record(m, b.cold, q, c.chars - Cost(k), l, c.max, c.on, c.refused)
  <2>1. Remember(b, k, e) =
          IF NoRoom(b, k) THEN b
          ELSE Record([x \in DOMAIN b.memo \cup {k} |-> IF x = k THEN e ELSE b.memo[x]],
                      b.cold, b.seq, b.chars - Cost(k), b.left, b.max, b.on, b.refused)
    BY <1>3, RememberKeeps
  <2> QED
    BY <1>1, <1>2, <1>4, <1>5, <2>1
<1> HIDE DEF m
<1>7. CASE NoRoom(c, k)
  BY <1>3, <1>4, <1>6, <1>7 DEF l, q, Charged
<1>8. CASE ~NoRoom(c, k)
  <2> DEFINE r == Record(m, b.cold, q, c.chars - Cost(k), l, c.max, c.on, c.refused)
  <2>1. IsRecord(r)
    BY RecordIsRecord
  <2>2. /\ r.memo = m /\ r.seq = q /\ r.chars = c.chars - Cost(k) /\ r.left = l
        /\ r.max = c.max /\ r.on = c.on /\ r.refused = c.refused
    BY DEF Record
  <2> HIDE DEF r
  <2>3. AfterLookup(known, c, k) = r
    BY <1>6, <1>8 DEF r
  <2> QED
    BY <2>1, <2>2, <2>3, <1>8 DEF l, q, m, e, Charged
<1> QED
  BY <1>7, <1>8

-----------------------------------------------------------------------------
(* What the cache holds.                                                   *)

GoodCall(c) ==
  IsRecord(c) /\ c.seq \in Nat /\ c.on \in BOOLEAN /\ c.refused \in BOOLEAN

Shape ==
  /\ DOMAIN call = Threads /\ DOMAIN storing = Threads /\ DOMAIN emitted = Threads
  /\ \A t \in Threads : GoodCall(call[t])

\* Whoever filled the cache, an entry is the key's own text.
CacheTrue == \A k \in DOMAIN cache : k \in Keys /\ cache[k].text = Sanitized(k)

StoresKeys == \A t \in Threads : storing[t] \subseteq Keys

TInv == Shape /\ CacheTrue /\ StoresKeys

Entry(k, d) == [key |-> k, text |-> d.text, denied |-> d.denied]

LEMMA IdleCall ==
  GoodCall(Idle) /\ Idle.on = FALSE /\ Idle.refused = FALSE
BY DEF GoodCall, IsRecord, Record, Idle

LEMMA FreshCall ==
  ASSUME NEW max
  PROVE  /\ GoodCall(Fresh(max)) /\ Fresh(max).seq = 0 /\ Fresh(max).on = TRUE
         /\ Fresh(max).refused = FALSE /\ Fresh(max).memo = <<>> /\ Fresh(max).left = max
         /\ Fresh(max).max = max /\ Fresh(max).chars = MEMO_MAX_CHARS
BY DEF GoodCall, IsRecord, Record, Fresh

Refused(c) == Record(c.memo, 0, 0, c.chars, None, c.max, FALSE, TRUE)

LEMMA RefusedCall ==
  ASSUME NEW c
  PROVE  [Idle EXCEPT !.refused = TRUE, !.max = c.max, !.memo = c.memo, !.chars = c.chars]
           = Refused(c)
<1> DEFINE m == c.memo
           x == c.max
           n == c.chars
           S == [memo : {<<>>, m}, cold : {0}, seq : {0}, chars : {0, n}, left : {None},
                 max : {None, x}, on : {FALSE}, refused : {FALSE, TRUE}]
           d == [Idle EXCEPT !.refused = TRUE, !.max = x, !.memo = m, !.chars = n]
<1> HIDE DEF m, x, n
<1>1. Idle \in S
  BY DEF Idle
<1>2. d \in S
  BY <1>1
<1>3. /\ d.memo = m /\ d.cold = Idle.cold /\ d.seq = Idle.seq /\ d.chars = n
      /\ d.left = Idle.left /\ d.max = x /\ d.on = Idle.on /\ d.refused = TRUE
  BY <1>1
<1>4. Idle.cold = 0 /\ Idle.seq = 0 /\ Idle.left = None /\ Idle.on = FALSE
  BY DEF Idle
<1> HIDE DEF d
<1>5. d = Record(m, 0, 0, n, None, x, FALSE, TRUE)
  BY <1>2, <1>3, <1>4 DEF Record
<1> QED
  BY <1>5, Zenon DEF d, m, x, n, Refused

LEMMA RefusedFields ==
  ASSUME NEW c
  PROVE  /\ GoodCall(Refused(c)) /\ Refused(c).on = FALSE
         /\ Refused(c).refused = TRUE /\ Refused(c).memo = c.memo
         /\ Refused(c).max = c.max /\ Refused(c).chars = c.chars
BY RecordIsRecord DEF GoodCall, Refused, Record

\* One lookup, as the actions need it.
LEMMA LookupShape ==
  ASSUME NEW known, NEW c, GoodCall(c), NEW k
  PROVE  /\ GoodCall(AfterLookup(known, c, k))
         /\ AfterLookup(known, c, k).on = c.on
         /\ AfterLookup(known, c, k).refused = c.refused
<1> DEFINE d == AfterLookup(known, c, k)
<1>1. CASE k \in DOMAIN c.memo
  <2>1. d = c
    BY <1>1 DEF AfterLookup
  <2> QED
    BY <2>1
<1>2. CASE k \notin DOMAIN c.memo
  <2>0. IsRecord(c) /\ d = AfterLookup(known, c, k)
    BY Zenon DEF GoodCall
  <2> HIDE DEF d
  <2>1. IsRecord(d) /\ d.on = c.on /\ d.refused = c.refused
        /\ d.seq = IF OutOfBudget(known, c, k) THEN c.seq + 1 ELSE c.seq
    <3>1. Charged(known, c, k, d)
      BY <1>2, <2>0, LookupCharges, Zenon
    <3> QED
      BY <3>1 DEF Charged
  <2>2. d.seq \in Nat
    BY <2>1 DEF GoodCall
  <2>3. GoodCall(d)
    BY <2>1, <2>2, Zenon DEF GoodCall
  <2> QED
    BY <2>1, <2>3 DEF d
<1> QED
  BY <1>1, <1>2

LEMMA ShapeHolds ==
  /\ Init => TInv
  /\ TInv /\ [Next]_vars => TInv'
<1>1. ASSUME Init PROVE TInv
  <2>1. \A t \in Threads : call[t] = Idle /\ storing[t] = {}
    BY <1>1 DEF Init
  <2>2. DOMAIN call = Threads /\ DOMAIN storing = Threads /\ DOMAIN emitted = Threads
    BY <1>1 DEF Init
  <2>3. Shape
    BY <2>1, <2>2, IdleCall, Zenon DEF Shape
  <2>4. CacheTrue
    BY <1>1 DEF Init, CacheTrue
  <2> QED
    BY <2>1, <2>3, <2>4 DEF TInv, StoresKeys
<1>2. ASSUME TInv, [Next]_vars PROVE TInv'
  <2> USE <1>2 DEF TInv
  <2>1. ASSUME NEW t \in Threads, NEW max \in Budgets, Begin(t, max) PROVE TInv'
    <3>1. \A u \in Threads : call'[u] = IF u = t THEN Fresh(max) ELSE call[u]
      BY <2>1 DEF Begin, Shape
    <3>2. DOMAIN call' = Threads /\ DOMAIN storing' = Threads /\ DOMAIN emitted' = Threads
      BY <2>1 DEF Begin, Shape
    <3>3. Shape'
      BY <3>1, <3>2, FreshCall, Zenon DEF Shape
    <3> QED
      BY <3>3, <2>1 DEF Begin, CacheTrue, StoresKeys
  <2>2. ASSUME NEW t \in Threads, NEW k \in Keys, Meet(t, k) PROVE TInv'
    <3>1. \A u \in Threads : call'[u] = IF u = t THEN AfterLookup(cache, call[t], k) ELSE call[u]
      BY <2>2 DEF Meet, Shape
    <3>2. DOMAIN call' = Threads /\ DOMAIN storing' = Threads /\ DOMAIN emitted' = Threads
      BY <2>2 DEF Meet, Shape
    <3>3. Shape'
      <4>1. GoodCall(AfterLookup(cache, call[t], k))
        BY LookupShape, Zenon DEF Shape
      <4> QED
        BY <3>1, <3>2, <4>1, Zenon DEF Shape
    <3>4. \A u \in Threads : storing'[u] \subseteq Keys
      <4>1. \A u \in Threads : storing'[u] = storing[u] \/ storing'[u] = {} \/ storing'[u] = {k}
        BY <2>2 DEF Meet, Shape, ToCache
      <4> QED
        BY <4>1 DEF StoresKeys
    <3>5. cache' = <<>> \/ cache' = cache
      BY <2>2 DEF Meet
    <3>6. CacheTrue'
      BY <3>5 DEF CacheTrue
    <3> QED
      BY <3>3, <3>4, <3>6 DEF StoresKeys
  <2>3. ASSUME NEW t \in Threads, Store(t) PROVE TInv'
    <3>1. Shape'
      BY <2>3 DEF Store, Shape
    <3>2. StoresKeys'
      BY <2>3 DEF Store, Shape, StoresKeys
    <3>3. ASSUME NEW k \in DOMAIN cache' PROVE k \in Keys /\ cache'[k].text = Sanitized(k)
      <4>1. k \in DOMAIN cache \cup storing[t]
        BY <3>3, <2>3 DEF Store
      <4>2. cache'[k] = IF k \in storing[t] THEN [text |-> Sanitized(k), name |-> k.name] ELSE cache[k]
        BY <4>1, <2>3 DEF Store
      <4> QED
        BY <4>1, <4>2 DEF CacheTrue, StoresKeys
    <3> QED
      BY <3>1, <3>2, <3>3 DEF CacheTrue
  <2>4. ASSUME NEW t \in Threads, NEW k \in Keys, Refuse(t, k) PROVE TInv'
    <3>1. call' = [call EXCEPT ![t] = Refused(call[t])]
      BY <2>4, RefusedCall, Zenon DEF Refuse
    <3>2. \A u \in Threads : call'[u] = IF u = t THEN Refused(call[t]) ELSE call[u]
      BY <3>1 DEF Shape
    <3>3. DOMAIN call' = Threads /\ DOMAIN storing' = Threads /\ DOMAIN emitted' = Threads
      BY <2>4 DEF Refuse, Shape
    <3>4. Shape'
      <4>1. GoodCall(Refused(call[t]))
        BY RefusedFields
      <4> QED
        BY <3>2, <3>3, <4>1, Zenon DEF Shape
    <3> QED
      BY <3>4, <2>4 DEF Refuse, CacheTrue, StoresKeys
  <2>5. ASSUME NEW t \in Threads, Return(t) PROVE TInv'
    <3>1. \A u \in Threads : call'[u] = IF u = t THEN Idle ELSE call[u]
      BY <2>5 DEF Return, Shape
    <3>2. DOMAIN call' = Threads /\ DOMAIN storing' = Threads /\ DOMAIN emitted' = Threads
      BY <2>5 DEF Return, Shape
    <3>3. Shape'
      BY <3>1, <3>2, IdleCall, Zenon DEF Shape
    <3> QED
      BY <3>3, <2>5 DEF Return, CacheTrue, StoresKeys
  <2>6. CASE UNCHANGED vars
    BY <2>6 DEF vars, Shape, CacheTrue, StoresKeys
  <2> QED
    BY <2>1, <2>2, <2>3, <2>4, <2>5, <2>6 DEF Next
<1> QED
  BY <1>1, <1>2

-----------------------------------------------------------------------------
(* Keys stay apart.                                                        *)

Apart(E) == \A d, e \in E : d.key # e.key => d.text # e.text

\* What a call has emitted: a key's own text, or a stand-in numbered before.
OwnText(c, e) ==
  \/ e.text = Sanitized(e.key)
  \/ \E n \in Nat : n < c.seq /\ e.text = Degraded(e.key, n)

Emitted(c, E) ==
  /\ \A e \in E : e.key \in Keys /\ OwnText(c, e)
  /\ \A k \in DOMAIN c.memo : Entry(k, c.memo[k]) \in E

KInv(c, E) ==
  /\ ~c.refused => Apart(E)
  /\ c.on => Emitted(c, E) /\ ~c.refused

\* The text of a key the call meets for the first time.
LEMMA NewText ==
  ASSUME CacheTrue, NEW c, c.seq \in Nat, NEW k \in Keys, k \notin DOMAIN c.memo
  PROVE  Decision(cache, c, k).text =
           IF OutOfBudget(cache, c, k) THEN Degraded(k, c.seq) ELSE Sanitized(k)
<1>1. Decision(cache, c, k).text = Info(cache, c, k).text
  BY DEF Decision
<1>2. CASE k \in DOMAIN cache
  <2>1. Info(cache, c, k) = cache[k]
    BY <1>2 DEF Info
  <2>2. ~OutOfBudget(cache, c, k)
    BY <1>2 DEF OutOfBudget, NeedsWork
  <2> QED
    BY <1>1, <1>2, <2>1, <2>2 DEF CacheTrue
<1>3. CASE k \notin DOMAIN cache
  <2>1. Info(cache, c, k) = IF OutOfBudget(cache, c, k)
                            THEN [text |-> Degraded(k, c.seq), name |-> k.name]
                            ELSE [text |-> Sanitized(k), name |-> k.name]
    BY <1>3 DEF Info
  <2> QED
    BY <1>1, <2>1
<1> QED
  BY <1>2, <1>3

\* A text that is new to the call differs from those of the other keys: an own
\* text from every other own text and from every stand-in, and the next
\* stand-in from those with lower numbers.
LEMMA NewTextApart ==
  ASSUME CacheTrue, NEW c, c.seq \in Nat, NEW k \in Keys, k \notin DOMAIN c.memo,
         NEW e, e.key \in Keys, OwnText(c, e), e.key # k
  PROVE  e.text # Decision(cache, c, k).text
<1> DEFINE j == e.key
<1>1. Sanitized(j) # Sanitized(k)
  BY SanitizedApart, Zenon
<1>2. \A n \in Nat : Sanitized(j) # Degraded(k, n)
  BY StandInIsNoText, Zenon
<1>3. \A n \in Nat : Sanitized(k) # Degraded(j, n)
  BY StandInIsNoText, Zenon
<1>4. \A n \in Nat : n < c.seq => Degraded(j, n) # Degraded(k, c.seq)
  <2>1. \A n \in Nat : n < c.seq => n # c.seq
    BY SMT
  <2> QED
    BY <2>1, StandInsApart, Zenon
<1>5. Decision(cache, c, k).text = Degraded(k, c.seq) \/ Decision(cache, c, k).text = Sanitized(k)
  BY NewText, Zenon
<1> QED
  BY <1>1, <1>2, <1>3, <1>4, <1>5, Zenon DEF OwnText

\* The text of a new decision is the call's own.
LEMMA NewTextOwn ==
  ASSUME CacheTrue, NEW c, GoodCall(c), NEW k \in Keys, k \notin DOMAIN c.memo
  PROVE  OwnText(AfterLookup(cache, c, k), Entry(k, Decision(cache, c, k)))
<1> DEFINE d == AfterLookup(cache, c, k)
           t == Decision(cache, c, k).text
           e == Entry(k, Decision(cache, c, k))
<1>1. Charged(cache, c, k, d)
  BY LookupCharges, Zenon DEF GoodCall
<1>2. t = IF OutOfBudget(cache, c, k) THEN Degraded(k, c.seq) ELSE Sanitized(k)
  BY NewText, Zenon DEF GoodCall
<1>3. e.key = k /\ e.text = t
  BY DEF Entry
<1> HIDE DEF d, t, e
<1>4. d.seq = IF OutOfBudget(cache, c, k) THEN c.seq + 1 ELSE c.seq
  BY <1>1 DEF Charged
<1>5. CASE OutOfBudget(cache, c, k)
  <2>1. c.seq \in Nat /\ c.seq < d.seq
    BY <1>4, <1>5 DEF GoodCall
  <2> QED
    BY <2>1, <1>2, <1>3, <1>5, Zenon DEF OwnText, d, e
<1>6. CASE ~OutOfBudget(cache, c, k)
  BY <1>2, <1>3, <1>6, Zenon DEF OwnText, d, e
<1> QED
  BY <1>5, <1>6

LEMMA OwnTextStays ==
  ASSUME NEW c, NEW d, c.seq \in Nat, d.seq \in Nat, c.seq <= d.seq, NEW e, OwnText(c, e)
  PROVE  OwnText(d, e)
<1>1. \A n \in Nat : n < c.seq => n < d.seq
  BY SMT
<1> QED
  BY <1>1, Zenon DEF OwnText

\* A lookup keeps what a call emitted apart.
LEMMA MeetKeepsApart ==
  ASSUME CacheTrue, NEW c, GoodCall(c), c.on, NEW E, KInv(c, E), NEW k \in Keys
  PROVE  KInv(AfterLookup(cache, c, k), E \cup {Entry(k, Decision(cache, c, k))})
<1> DEFINE d == AfterLookup(cache, c, k)
           n == Entry(k, Decision(cache, c, k))
           F == E \cup {n}
<1>0. Emitted(c, E) /\ Apart(E) /\ ~c.refused
  BY DEF KInv
<1>1. CASE k \in DOMAIN c.memo
  <2>1. d = c /\ n = Entry(k, c.memo[k])
    BY <1>1 DEF AfterLookup, Decision
  <2>2. n \in E
    BY <2>1, <1>0, <1>1, Zenon DEF Emitted
  <2>3. F = E
    BY <2>2
  <2> QED
    BY <2>1, <2>3
<1>2. CASE k \notin DOMAIN c.memo
  <2>1. Charged(cache, c, k, d)
    BY <1>2, LookupCharges, Zenon DEF GoodCall
  <2>2. GoodCall(d) /\ ~d.refused
    BY <1>0, LookupShape, Zenon
  <2>3. n.key = k /\ n.text = Decision(cache, c, k).text
    BY DEF Entry
  <2>4. OwnText(d, n)
    BY <1>2, NewTextOwn, Zenon
  <2>5. \A e \in E : e.key # k => e.text # n.text
    <3>1. c.seq \in Nat
      BY DEF GoodCall
    <3> QED
      BY <1>0, <1>2, <2>3, <3>1, NewTextApart, Zenon DEF Emitted
  <2> HIDE DEF d, n
  <2>6. Apart(F)
    <3> SUFFICES ASSUME NEW a \in F, NEW b \in F, a.key # b.key PROVE a.text # b.text
      BY DEF Apart
    <3>1. CASE a \in E /\ b \in E
      BY <3>1, <1>0 DEF Apart
    <3>2. CASE a = n /\ b = n
      BY <3>2
    <3>3. CASE a \in E /\ b = n
      BY <3>3, <2>3, <2>5
    <3>4. CASE a = n /\ b \in E
      BY <3>4, <2>3, <2>5
    <3> QED
      BY <3>1, <3>2, <3>3, <3>4
  <2>7. c.seq \in Nat /\ d.seq \in Nat /\ c.seq <= d.seq
    BY <2>1, <2>2 DEF GoodCall, Charged
  <2>8. \A e \in F : e.key \in Keys /\ OwnText(d, e)
    BY <1>0, <2>3, <2>4, <2>7, OwnTextStays, Zenon DEF Emitted
  <2>9. ASSUME NEW x \in DOMAIN d.memo PROVE Entry(x, d.memo[x]) \in F
    <3>1. CASE NoRoom(c, k)
      BY <3>1, <2>1, <2>9, <1>0 DEF Charged, Emitted
    <3>2. CASE ~NoRoom(c, k)
      <4>1. d.memo = [y \in DOMAIN c.memo \cup {k} |->
                        IF y = k THEN Decision(cache, c, k) ELSE c.memo[y]]
        BY <3>2, <2>1 DEF Charged
      <4>2. x \in DOMAIN c.memo \cup {k}
        BY <4>1, <2>9
      <4>3. d.memo[x] = IF x = k THEN Decision(cache, c, k) ELSE c.memo[x]
        BY <4>1, <4>2
      <4>4. CASE x = k
        BY <4>3, <4>4 DEF n
      <4>5. CASE x # k
        BY <4>2, <4>3, <4>5, <1>0 DEF Emitted
      <4> QED
        BY <4>4, <4>5
    <3> QED
      BY <3>1, <3>2
  <2>10. KInv(d, F)
    BY <2>2, <2>6, <2>8, <2>9, Zenon DEF KInv, Emitted
  <2> QED
    BY <2>10 DEF d, n
<1> QED
  BY <1>1, <1>2

AInv == \A t \in Threads : KInv(call[t], emitted[t])

LEMMA ApartKept == TInv /\ AInv /\ [Next]_vars => AInv'
<1> SUFFICES ASSUME TInv, AInv, [Next]_vars PROVE AInv'
  OBVIOUS
<1>0. Shape /\ CacheTrue
  BY DEF TInv
<1>1. ASSUME NEW t \in Threads, NEW max \in Budgets, Begin(t, max) PROVE AInv'
  <2>1. \A u \in Threads : /\ call'[u] = IF u = t THEN Fresh(max) ELSE call[u]
                           /\ emitted'[u] = IF u = t THEN {} ELSE emitted[u]
    BY <1>0, <1>1 DEF Begin, Shape
  <2>2. KInv(Fresh(max), {})
    <3>1. Fresh(max).memo = <<>> /\ Fresh(max).refused = FALSE
      BY FreshCall
    <3>2. DOMAIN Fresh(max).memo = {}
      BY <3>1
    <3> QED
      BY <3>1, <3>2, Zenon DEF KInv, Emitted, Apart
  <2> QED
    BY <2>1, <2>2, Zenon DEF AInv
<1>2. ASSUME NEW t \in Threads, NEW k \in Keys, Meet(t, k) PROVE AInv'
  <2>1. \A u \in Threads :
          /\ call'[u] = IF u = t THEN AfterLookup(cache, call[t], k) ELSE call[u]
          /\ emitted'[u] = IF u = t THEN emitted[t] \cup {Entry(k, Decision(cache, call[t], k))}
                           ELSE emitted[u]
    BY <1>0, <1>2 DEF Meet, Shape, Entry
  <2>2. call[t].on /\ GoodCall(call[t]) /\ KInv(call[t], emitted[t])
    BY <1>0, <1>2 DEF Meet, Shape, AInv
  <2>3. KInv(AfterLookup(cache, call[t], k),
             emitted[t] \cup {Entry(k, Decision(cache, call[t], k))})
    BY <1>0, <2>2, MeetKeepsApart, Zenon
  <2> QED
    BY <2>1, <2>3, Zenon DEF AInv
<1>3. ASSUME NEW t \in Threads, Store(t) PROVE AInv'
  BY <1>3 DEF Store, AInv
<1>4. ASSUME NEW t \in Threads, NEW k \in Keys, Refuse(t, k) PROVE AInv'
  <2>1. call' = [call EXCEPT ![t] = Refused(call[t])]
    BY <1>4, RefusedCall, Zenon DEF Refuse
  <2>2. \A u \in Threads : call'[u] = IF u = t THEN Refused(call[t]) ELSE call[u]
    BY <2>1, <1>0 DEF Shape
  <2>3. \A u \in Threads : u # t => emitted'[u] = emitted[u]
    BY <1>0, <1>4 DEF Refuse, Shape
  <2>4. \A E : KInv(Refused(call[t]), E)
    <3>1. Refused(call[t]).refused = TRUE /\ Refused(call[t]).on = FALSE
      BY RefusedFields
    <3> QED
      BY <3>1, Zenon DEF KInv
  <2> QED
    BY <2>2, <2>3, <2>4, Zenon DEF AInv
<1>5. ASSUME NEW t \in Threads, Return(t) PROVE AInv'
  <2>1. \A u \in Threads : call'[u] = IF u = t THEN Idle ELSE call[u]
    BY <1>0, <1>5 DEF Return, Shape
  <2>2. emitted' = emitted /\ call[t].on
    BY <1>5 DEF Return
  <2>3. Apart(emitted[t])
    BY <2>2, Zenon DEF AInv, KInv
  <2>4. KInv(Idle, emitted[t])
    BY <2>3, IdleCall, Zenon DEF KInv
  <2> QED
    BY <2>1, <2>2, <2>4, Zenon DEF AInv
<1>6. CASE UNCHANGED vars
  BY <1>6 DEF vars, AInv
<1> QED
  BY <1>1, <1>2, <1>3, <1>4, <1>5, <1>6 DEF Next

\* Two keys of a structure never come out under one text, however the budget
\* runs out between them, whatever the other threads put into the cache or
\* take from it, and whatever the keys spell.
THEOREM KeysStayApartHolds == Spec => []KeysStayApart
<1>1. Init => TInv /\ AInv
  <2> SUFFICES ASSUME Init PROVE AInv
    BY ShapeHolds
  <2>1. \A t \in Threads : call[t] = Idle /\ emitted[t] = {}
    BY DEF Init
  <2>2. KInv(Idle, {})
    BY IdleCall, Zenon DEF KInv, Apart
  <2> QED
    BY <2>1, <2>2, Zenon DEF AInv
<1>2. TInv /\ AInv /\ [Next]_vars => (TInv /\ AInv)'
  BY ShapeHolds, ApartKept
<1>3. AInv => KeysStayApart
  BY DEF AInv, KInv, Apart, KeysStayApart
<1> QED
  BY <1>1, <1>2, <1>3, PTL DEF Spec

-----------------------------------------------------------------------------
(* What is charged.                                                        *)

Met(E) == {e.key : e \in E}

\* A key is charged when the call meets it first and again only if its memo
\* had no room for it; so what is left is the whole difference as long as
\* every key met is in the memo.
Charges(c, E) ==
  /\ DOMAIN c.memo \subseteq Met(E) /\ Met(E) \subseteq Keys /\ IsFiniteSet(Met(E))
  /\ c.chars \in Nat
  /\ c.left = None <=> c.max = None
  /\ c.max # None =>
       /\ c.max \in Nat /\ c.left \in Nat
       /\ Cardinality(Met(E)) + c.left <= c.max
       /\ Met(E) \subseteq DOMAIN c.memo => Cardinality(Met(E)) + c.left = c.max
  /\ \A k \in Met(E) \ DOMAIN c.memo : NoRoom(c, k)

PastBudget(c, E) ==
  \/ Cardinality(Met(E)) > c.max
  \/ Cardinality(DOMAIN c.memo) >= KEY_CACHE_MAX
  \/ \E k \in Met(E) : k.len > c.chars

BInv(c, E) ==
  /\ c.on => Charges(c, E) /\ ~c.refused
  /\ c.refused => PastBudget(c, E)

LEMMA CostIsNatural == ASSUME NEW k \in Keys PROVE Cost(k) \in Nat /\ (Cost(k) = 0 \/ Cost(k) = k.len)
BY KeyAssumption DEF Cost

LEMMA MetOneMore ==
  ASSUME NEW E, NEW k, NEW d
  PROVE  Met(E \cup {Entry(k, d)}) = Met(E) \cup {k}
<1>1. Entry(k, d).key = k
  BY DEF Entry
<1> QED
  BY <1>1 DEF Met

\* A lookup charges a key the memo does not have.
LEMMA MeetCharges ==
  ASSUME NEW c, GoodCall(c), NEW E, Charges(c, E), NEW k \in Keys, NEW v,
         k \notin DOMAIN c.memo, c.left # 0
  PROVE  Charges(AfterLookup(cache, c, k), E \cup {Entry(k, v)})
<1> DEFINE d == AfterLookup(cache, c, k)
           M == Met(E)
           N == Met(E \cup {Entry(k, v)})
<1>1. Charged(cache, c, k, d)
  BY LookupCharges, Zenon DEF GoodCall
<1>2. N = M \cup {k}
  BY MetOneMore
<1>3. IsFiniteSet(M) /\ M \subseteq Keys /\ DOMAIN c.memo \subseteq M /\ c.chars \in Nat
  BY DEF Charges
<1>4. IsFiniteSet(N) /\ Cardinality(N) = IF k \in M THEN Cardinality(M) ELSE Cardinality(M) + 1
  <2> HIDE DEF M, N
  <2> QED
    BY <1>2, <1>3, FS_AddElement
<1>5. Cardinality(M) \in Nat
  BY <1>3, FS_CardinalityType
<1>6. N \subseteq Keys
  BY <1>2, <1>3
<1>7. Cost(k) \in Nat
  BY CostIsNatural
<1>8. \A j \in M \ DOMAIN c.memo : NoRoom(c, j)
  BY DEF Charges
<1>9. c.left = None <=> c.max = None
  BY DEF Charges
<1>10. c.max # None =>
         /\ c.max \in Nat /\ c.left \in Nat
         /\ Cardinality(M) + c.left <= c.max
         /\ M \subseteq DOMAIN c.memo => Cardinality(M) + c.left = c.max
  BY DEF Charges
<1>11. d.max = c.max /\ d.left = IF c.left = None THEN None ELSE c.left - 1
  BY <1>1 DEF Charged
<1>12. IsFiniteSet(DOMAIN c.memo) /\ Cardinality(DOMAIN c.memo) \in Nat
  BY <1>3, FS_Subset, FS_CardinalityType
<1> HIDE DEF d, M, N
<1>13. d.left = None <=> d.max = None
  BY <1>9, <1>10, <1>11, BudgetAssumption
<1>14. ASSUME c.max # None
       PROVE  /\ d.max \in Nat /\ d.left \in Nat /\ d.left = c.left - 1
              /\ Cardinality(N) + d.left <= d.max
  BY <1>4, <1>5, <1>9, <1>10, <1>11, <1>14
<1>15. CASE NoRoom(c, k)
  <2>1. d.memo = c.memo /\ d.chars = c.chars
    BY <1>1, <1>15 DEF Charged
  <2>2. DOMAIN d.memo \subseteq N
    BY <2>1, <1>2, <1>3
  <2>3. ~(N \subseteq DOMAIN d.memo)
    BY <2>1, <1>2
  <2>4. \A j : NoRoom(d, j) <=> NoRoom(c, j)
    BY <2>1 DEF NoRoom
  <2>5. \A j \in N \ DOMAIN d.memo : NoRoom(d, j)
    BY <2>1, <2>4, <1>2, <1>8, <1>15
  <2> QED
    BY <2>1, <2>2, <2>3, <2>5, <1>3, <1>4, <1>6, <1>13, <1>14, <1>11, Zenon DEF Charges, d, N
<1>16. CASE ~NoRoom(c, k)
  <2>1. DOMAIN d.memo = DOMAIN c.memo \cup {k} /\ d.chars = c.chars - Cost(k)
    BY <1>1, <1>16 DEF Charged
  <2>2. DOMAIN d.memo \subseteq N
    BY <2>1, <1>2, <1>3
  <2>3. d.chars \in Nat /\ d.chars <= c.chars
    BY <2>1, <1>3, <1>7, <1>16 DEF NoRoom
  <2>4. k \notin M
    BY <1>8, <1>16
  <2>5. Cardinality(N) = Cardinality(M) + 1
    BY <1>4, <2>4
  <2>6. Cardinality(DOMAIN d.memo) = Cardinality(DOMAIN c.memo) + 1
    BY <2>1, <1>12, FS_AddElement
  <2>7. ASSUME NEW j \in N \ DOMAIN d.memo PROVE NoRoom(d, j)
    <3>1. j \in M \ DOMAIN c.memo /\ j \in Keys
      BY <2>1, <1>2, <1>3
    <3>2. NoRoom(c, j) /\ Cost(j) \in Nat
      BY <3>1, <1>8, CostIsNatural
    <3>3. KEY_CACHE_MAX \in Nat
      BY BudgetAssumption
    <3>4. CASE Cardinality(DOMAIN c.memo) >= KEY_CACHE_MAX
      BY <3>3, <3>4, <2>6, <1>12 DEF NoRoom
    <3>5. CASE Cost(j) > c.chars
      BY <3>2, <3>5, <2>3, <1>3 DEF NoRoom
    <3> QED
      BY <3>2, <3>4, <3>5 DEF NoRoom
  <2>8. ASSUME c.max # None, N \subseteq DOMAIN d.memo PROVE Cardinality(N) + d.left = d.max
    <3>1. M \subseteq DOMAIN c.memo
      BY <2>1, <2>4, <2>8, <1>2
    <3> QED
      BY <3>1, <2>5, <2>8, <1>5, <1>10, <1>11, <1>14
  <2> QED
    BY <2>2, <2>3, <2>7, <2>8, <1>4, <1>6, <1>11, <1>13, <1>14, Zenon DEF Charges, d, N
<1> QED
  BY <1>15, <1>16

\* Only a call that has met more keys than it may, or one whose memo could not
\* hold them all, is refused.
LEMMA RefusalIsPastBudget ==
  ASSUME NEW c, NEW E, Charges(c, E), NEW k \in Keys, k \notin DOMAIN c.memo, c.left = 0,
         NEW F, Met(F) = Met(E) \cup {k}
  PROVE  PastBudget(c, F)
<1> DEFINE M == Met(E)
<1>1. IsFiniteSet(M) /\ DOMAIN c.memo \subseteq M /\ M \subseteq Keys /\ c.chars \in Nat
  BY DEF Charges
<1>2. c.max \in Nat /\ (M \subseteq DOMAIN c.memo => Cardinality(M) + c.left = c.max)
  BY BudgetAssumption DEF Charges
<1>3. \A j \in M \ DOMAIN c.memo : NoRoom(c, j)
  BY DEF Charges
<1> HIDE DEF M
<1>4. CASE M \subseteq DOMAIN c.memo
  <2>1. k \notin M /\ Cardinality(M) \in Nat
    BY <1>1, <1>4, FS_CardinalityType
  <2>2. Cardinality(M \cup {k}) = Cardinality(M) + 1
    BY <2>1, <1>1, FS_AddElement
  <2>3. Cardinality(M \cup {k}) > c.max
    BY <2>1, <2>2, <1>2, <1>4
  <2> QED
    BY <2>3 DEF PastBudget, M
<1>5. CASE \E j \in M : j \notin DOMAIN c.memo
  <2>1. PICK j \in M : j \notin DOMAIN c.memo
    BY <1>5
  <2>2. NoRoom(c, j) /\ j \in Keys
    BY <2>1, <1>1, <1>3
  <2>3. CASE Cardinality(DOMAIN c.memo) >= KEY_CACHE_MAX
    BY <2>3 DEF PastBudget
  <2>4. CASE Cost(j) > c.chars
    <3>1. j.len > c.chars
      BY <2>2, <2>4, <1>1, CostIsNatural
    <3>2. j \in Met(F)
      BY <2>1 DEF M
    <3> QED
      BY <3>1, <3>2, Zenon DEF PastBudget
  <2> QED
    BY <2>2, <2>3, <2>4 DEF NoRoom
<1> QED
  BY <1>4, <1>5

CInv == \A t \in Threads : BInv(call[t], emitted[t])

LEMMA ChargesKept == TInv /\ AInv /\ CInv /\ [Next]_vars => CInv'
<1> SUFFICES ASSUME TInv, AInv, CInv, [Next]_vars PROVE CInv'
  OBVIOUS
<1>0. Shape
  BY DEF TInv
<1>1. ASSUME NEW t \in Threads, NEW max \in Budgets, Begin(t, max) PROVE CInv'
  <2>1. \A u \in Threads : /\ call'[u] = IF u = t THEN Fresh(max) ELSE call[u]
                           /\ emitted'[u] = IF u = t THEN {} ELSE emitted[u]
    BY <1>0, <1>1 DEF Begin, Shape
  <2>2. Charges(Fresh(max), {})
    <3> DEFINE f == Fresh(max)
    <3>1. /\ f.memo = <<>> /\ f.left = max /\ f.max = max /\ f.chars = MEMO_MAX_CHARS
      BY FreshCall
    <3> HIDE DEF f
    <3>2. DOMAIN f.memo = {} /\ Met({}) = {}
      BY <3>1 DEF Met
    <3>3. IsFiniteSet({}) /\ Cardinality({}) = 0
      BY FS_EmptySet
    <3>4. max # None => max \in Nat
      BY KeyAssumption
    <3>5. max # None => Cardinality({}) + max <= max /\ Cardinality({}) + max = max
      BY <3>3, <3>4
    <3>6. f.chars \in Nat
      BY <3>1, BudgetAssumption
    <3>7. Charges(f, {})
      BY <3>1, <3>2, <3>3, <3>4, <3>5, <3>6 DEF Charges
    <3> QED
      BY <3>7 DEF f
  <2>3. BInv(Fresh(max), {})
    BY <2>2, FreshCall, Zenon DEF BInv
  <2> QED
    BY <2>1, <2>3, Zenon DEF CInv
<1>2. ASSUME NEW t \in Threads, NEW k \in Keys, Meet(t, k) PROVE CInv'
  <2> DEFINE c == call[t]
             E == emitted[t]
             d == AfterLookup(cache, c, k)
             F == E \cup {Entry(k, Decision(cache, c, k))}
  <2>1. \A u \in Threads : /\ call'[u] = IF u = t THEN d ELSE call[u]
                           /\ emitted'[u] = IF u = t THEN F ELSE emitted[u]
    BY <1>0, <1>2 DEF Meet, Shape, Entry
  <2>2. c.on /\ GoodCall(c) /\ ~Refuses(c, k)
    BY <1>0, <1>2 DEF Meet, Shape
  <2>3. Charges(c, E) /\ ~c.refused
    BY <2>2, Zenon DEF CInv, BInv
  <2>4. Emitted(c, E)
    BY <2>2, Zenon DEF AInv, KInv
  <2>5. Charges(d, F)
    <3>1. CASE k \in DOMAIN c.memo
      <4>1. d = c /\ Decision(cache, c, k) = c.memo[k]
        BY <3>1 DEF AfterLookup, Decision
      <4>2. Entry(k, c.memo[k]) \in E
        BY <2>4, <3>1, Zenon DEF Emitted
      <4>3. F = E
        BY <4>1, <4>2
      <4> QED
        BY <2>3, <4>1, <4>3
    <3>2. CASE k \notin DOMAIN c.memo
      <4>1. c.left # 0
        BY <2>2, <3>2 DEF Refuses
      <4> QED
        BY <2>2, <2>3, <3>2, <4>1, MeetCharges, Zenon
    <3> QED
      BY <3>1, <3>2
  <2>6. ~d.refused
    <3>1. d.refused = c.refused
      BY <2>2, LookupShape
    <3> HIDE DEF c, d
    <3> QED
      BY <2>3, <3>1, Zenon
  <2>7. BInv(d, F)
    BY <2>5, <2>6, Zenon DEF BInv
  <2> QED
    BY <2>1, <2>7, Zenon DEF CInv
<1>3. ASSUME NEW t \in Threads, Store(t) PROVE CInv'
  BY <1>3 DEF Store, CInv
<1>4. ASSUME NEW t \in Threads, NEW k \in Keys, Refuse(t, k) PROVE CInv'
  <2> DEFINE c == call[t]
             E == emitted[t]
             r == Refused(c)
             F == E \cup {[key |-> k, text |-> <<>>, denied |-> TRUE]}
  <2>1. call' = [call EXCEPT ![t] = r]
    BY <1>4, RefusedCall, Zenon DEF Refuse
  <2>2. \A u \in Threads : /\ call'[u] = IF u = t THEN r ELSE call[u]
                           /\ emitted'[u] = IF u = t THEN F ELSE emitted[u]
    BY <2>1, <1>0, <1>4 DEF Shape, Refuse
  <2>3. c.on /\ k \notin DOMAIN c.memo /\ c.left = 0
    BY <1>4 DEF Refuse, Refuses
  <2>4. Charges(c, E)
    BY <2>3, Zenon DEF CInv, BInv
  <2>5. Met(F) = Met(E) \cup {k}
    <3> DEFINE e == [key |-> k, text |-> <<>>, denied |-> TRUE]
    <3>1. e.key = k
      OBVIOUS
    <3> HIDE DEF e, E
    <3>2. Met(E \cup {e}) = Met(E) \cup {k}
      BY <3>1 DEF Met
    <3> QED
      BY <3>2 DEF e
  <2>6. PastBudget(c, F)
    BY <2>3, <2>4, <2>5, RefusalIsPastBudget, Zenon
  <2>7. /\ r.on = FALSE /\ r.refused = TRUE
        /\ r.memo = c.memo /\ r.max = c.max /\ r.chars = c.chars
    BY RefusedFields
  <2> HIDE DEF r, F, c
  <2>8. PastBudget(r, F)
    BY <2>6, <2>7, Zenon DEF PastBudget
  <2>9. BInv(r, F)
    BY <2>7, <2>8, Zenon DEF BInv
  <2> QED
    BY <2>2, <2>9, Zenon DEF CInv
<1>5. ASSUME NEW t \in Threads, Return(t) PROVE CInv'
  <2>1. \A u \in Threads : call'[u] = IF u = t THEN Idle ELSE call[u]
    BY <1>0, <1>5 DEF Return, Shape
  <2>2. emitted' = emitted
    BY <1>5 DEF Return
  <2>3. BInv(Idle, emitted[t])
    BY IdleCall, Zenon DEF BInv
  <2> QED
    BY <2>1, <2>2, <2>3, Zenon DEF CInv
<1>6. CASE UNCHANGED vars
  BY <1>6 DEF vars, CInv
<1> QED
  BY <1>1, <1>2, <1>3, <1>4, <1>5, <1>6 DEF Next

\* A structure is refused only past its budget of keys, or when the call's memo
\* could not hold them all and a key was charged twice; and a call that is not
\* refused met no more keys than it may.
THEOREM RefusedOnlyPastBudgetHolds == Spec => []RefusedOnlyPastBudget
<1>1. Init => TInv /\ AInv /\ CInv
  <2> SUFFICES ASSUME Init PROVE AInv /\ CInv
    BY ShapeHolds
  <2>1. \A t \in Threads : call[t] = Idle /\ emitted[t] = {}
    BY DEF Init
  <2>2. KInv(Idle, {}) /\ BInv(Idle, {})
    BY IdleCall, Zenon DEF KInv, Apart, BInv
  <2> QED
    BY <2>1, <2>2, Zenon DEF AInv, CInv
<1>2. TInv /\ AInv /\ CInv /\ [Next]_vars => (TInv /\ AInv /\ CInv)'
  BY ShapeHolds, ApartKept, ChargesKept
<1>3. TInv /\ CInv => RefusedOnlyPastBudget
  <2> SUFFICES ASSUME TInv, CInv, NEW t \in Threads
               PROVE  /\ call[t].refused => PastBudget(call[t], emitted[t])
                      /\ call[t].on /\ call[t].max # None =>
                           Cardinality(Met(emitted[t])) <= call[t].max
    BY Zenon DEF RefusedOnlyPastBudget, PastBudget, Met
  <2>1. call[t].refused => PastBudget(call[t], emitted[t])
    BY Zenon DEF CInv, BInv
  <2>2. ASSUME call[t].on, call[t].max # None
        PROVE  Cardinality(Met(emitted[t])) <= call[t].max
    <3>1. Charges(call[t], emitted[t])
      BY <2>2, Zenon DEF CInv, BInv
    <3> DEFINE n == Cardinality(Met(emitted[t]))
    <3>2. call[t].max \in Nat /\ call[t].left \in Nat /\ n + call[t].left <= call[t].max
      BY <2>2, <3>1 DEF Charges
    <3>3. n \in Nat
      BY <3>1, FS_CardinalityType DEF Charges
    <3> HIDE DEF n
    <3>4. n <= call[t].max
      BY <3>2, <3>3
    <3> QED
      BY <3>4 DEF n
  <2> QED
    BY <2>1, <2>2
<1> QED
  BY <1>1, <1>2, <1>3, PTL DEF Spec

=============================================================================
