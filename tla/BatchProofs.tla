----------------------------- MODULE BatchProofs -----------------------------
(***************************************************************************)
(* For any documents, targets, workers and lives of the process: what a    *)
(* batch leaves behind in the enricher, whose patch a document gets, and   *)
(* what verify says of the file that the batches end up in.                *)
(***************************************************************************)
EXTENDS Batch, FiniteSetTheorems, WellFoundedInduction, SequenceTheorems, TLAPS

-----------------------------------------------------------------------------
(* The enricher: what its cache, its lookups and a call of apply hold.     *)

Docs == Range(Documents)
Keys == {d.key : d \in Docs} \ {None}
Patches == [for : {Whom(d) : d \in Docs}, at : Nat]
Entry == [key : Keys, expires : Nat, patch : Patches]
Lookup == [state : {"pending", "running", "returned", "raised", "cancelled"},
           by : Workers \cup {None}, patch : Patches]
Out == [tag : BOOLEAN, patch : Patches \cup {None}]
Phases == {"idle", "planning", "waiting", "settling", "collecting", "remembering", "returned"}
Call == [phase : Phases, docs : Seq(Docs), now : Nat, free : Int, of : Seq(Nat),
         keyed : Seq([key : Keys, f : Nat]), out : Seq(Out), left : SUBSET Nat, next : Nat \ {0}]

ETyped ==
  /\ now \in Nat /\ cache \in Seq(Entry) /\ lookups \in Seq(Lookup) /\ apply \in Call
  /\ Len(apply.of) = Len(apply.docs) /\ Len(apply.out) = Len(apply.docs)
  /\ apply.phase # "idle" => apply.now = now
  /\ apply.phase = "idle" => apply = Idle /\ lookups = <<>>

\* A cache in which keys are unique, the oldest entry is first, and each patch is
\* for its key.
Kept(s, bound) ==
  /\ \A i, j \in DOMAIN s : i < j => s[i].key # s[j].key /\ s[i].expires <= s[j].expires
  /\ \A i \in DOMAIN s : /\ s[i].patch.for = s[i].key
                         /\ s[i].patch.at + TTL = s[i].expires
                         /\ s[i].patch.at <= bound

\* The lookups are for the documents and the keys they are kept under.
Asked ==
  /\ \A f \in DOMAIN lookups : lookups[f].patch.at = apply.now
  /\ \A i \in DOMAIN apply.docs : apply.of[i] # 0 =>
       /\ apply.of[i] \in DOMAIN lookups
       /\ lookups[apply.of[i]].patch.for = Whom(apply.docs[i])
  /\ \A k \in DOMAIN apply.keyed :
       /\ apply.keyed[k].f \in DOMAIN lookups
       /\ lookups[apply.keyed[k].f].patch.for = apply.keyed[k].key

Own(out, doc) ==
  out.patch # None => /\ ~out.tag
                      /\ out.patch.for = Whom(doc)
                      /\ out.patch.at = apply.now \/ apply.now - out.patch.at < TTL

Answered == \A i \in DOMAIN apply.docs : Own(apply.out[i], apply.docs[i])

\* Who may still be pending is among those that the loop has left to settle.
Settling ==
  \A f \in DOMAIN lookups : State(f) = "pending" =>
    \/ apply.phase = "planning"
    \/ apply.phase \in {"waiting", "settling"} /\ f \in apply.left

EInv ==
  /\ ETyped /\ Kept(cache, now) /\ Len(cache) <= MaxCache
  /\ Asked /\ Answered /\ Settling

LEMMA EInvInit == EnricherInit => EInv
<1> SUFFICES ASSUME EnricherInit PROVE EInv
  OBVIOUS
<1>1. ETyped
  <2>1. Idle \in Call /\ Idle.phase = "idle" /\ Idle.of = <<>> /\ Idle.docs = <<>> /\ Idle.out = <<>>
    BY DEF Idle, Call, Phases
  <2> QED  BY <2>1 DEF EnricherInit, ETyped
<1>2. Kept(cache, now) /\ Len(cache) <= MaxCache
  BY EnricherAssumption DEF EnricherInit, Kept
<1>3. Asked /\ Answered /\ Settling
  BY DEF EnricherInit, Idle, Asked, Answered, Settling
<1> QED  BY <1>1, <1>2, <1>3 DEF EInv

\* Workers and close() go on with lookups that were submitted, whoever waits.
LEMMA LookupsGoOn ==
  ASSUME EInv, lookups' \in Seq(Lookup), Len(lookups') = Len(lookups),
         \A f \in DOMAIN lookups : /\ lookups'[f].patch = lookups[f].patch
                                   /\ lookups'[f].state = "pending" => State(f) = "pending",
         UNCHANGED <<now, cache, apply>>
  PROVE  EInv'
<1>0. DOMAIN lookups' = DOMAIN lookups
  BY DEF EInv, ETyped
<1>1. ETyped'
  <2>1. lookups = <<>> => lookups' = <<>>
    BY DEF EInv, ETyped
  <2> QED  BY <2>1 DEF EInv, ETyped
<1>2. Kept(cache, now)' /\ (Len(cache) <= MaxCache)'
  BY DEF EInv, Kept
<1>3. Asked'
  BY <1>0 DEF EInv, Asked
<1>4. Answered'
  BY DEF EInv, Answered, Own
<1>5. Settling'
  BY <1>0 DEF EInv, Settling, State
<1> QED  BY <1>1, <1>2, <1>3, <1>4, <1>5 DEF EInv

LEMMA PoolKeepsEInv == EInv /\ PoolNext => EInv'
<1> SUFFICES ASSUME EInv, PoolNext PROVE EInv'
  OBVIOUS
<1>0. /\ lookups \in Seq(Lookup) /\ Workers \subseteq Workers \cup {None}
      /\ \A f \in DOMAIN lookups : lookups[f] \in Lookup
  BY DEF EInv, ETyped
<1>1. CASE Tick
  <2>1. apply = Idle /\ lookups = <<>> /\ now' \in Nat /\ now <= now'
    BY <1>1 DEF Tick, EInv, ETyped
  <2>2. UNCHANGED <<cache, lookups, apply>>
    BY <1>1 DEF Tick
  <2>3. ETyped'
    BY <2>1, <2>2 DEF EInv, ETyped, Idle
  <2>4. Kept(cache, now)' /\ (Len(cache) <= MaxCache)'
    <3>1. \A i \in DOMAIN cache : cache[i].patch.at \in Nat
      <4>1. \A i \in DOMAIN cache : cache[i] \in Entry
        BY DEF EInv, ETyped
      <4> QED  BY <4>1 DEF Entry, Patches
    <3> QED  BY <2>1, <2>2, <3>1 DEF EInv, ETyped, Kept
  <2>5. Asked' /\ Answered' /\ Settling'
    BY <2>1, <2>2 DEF Idle, Asked, Answered, Settling
  <2> QED  BY <2>3, <2>4, <2>5 DEF EInv
<1>2. CASE Close \/ Drained \/ PutMarkers
  <2>1. UNCHANGED <<now, cache, lookups, apply>>
    BY <1>2 DEF Close, Drained, PutMarkers
  <2>2. lookups' \in Seq(Lookup) /\ Len(lookups') = Len(lookups)
    BY <1>0, <2>1
  <2> QED  BY <2>1, <2>2, LookupsGoOn DEF State
<1>3. CASE CancelJob
  <2>1. /\ UNCHANGED <<now, cache, apply>>
        /\ lookups' = [f \in DOMAIN lookups |->
             IF f = Head(jobs) THEN [lookups[f] EXCEPT !.state = AfterCancel(f)] ELSE lookups[f]]
    BY <1>3 DEF CancelJob
  <2>2. ASSUME NEW f \in DOMAIN lookups
        PROVE  /\ [lookups[f] EXCEPT !.state = AfterCancel(f)] \in Lookup
               /\ [lookups[f] EXCEPT !.state = AfterCancel(f)].patch = lookups[f].patch
               /\ [lookups[f] EXCEPT !.state = AfterCancel(f)].state # "pending"
    BY <1>0 DEF Lookup, AfterCancel, State
  <2>3. lookups' \in Seq(Lookup) /\ Len(lookups') = Len(lookups)
    BY <1>0, <2>1, <2>2
  <2> QED  BY <2>1, <2>2, <2>3, LookupsGoOn DEF State
<1>4. ASSUME NEW w \in Workers, TakeJob(w) PROVE EInv'
  <2> DEFINE f == Head(jobs)
  <2>1. /\ UNCHANGED <<now, cache, apply>>
        /\ \/ UNCHANGED lookups
           \/ lookups' = [lookups EXCEPT ![f].state = "running", ![f].by = w]
    BY <1>4 DEF TakeJob
  <2>2. CASE UNCHANGED lookups
    BY <1>0, <2>1, <2>2, LookupsGoOn DEF State
  <2>3. CASE lookups' = [lookups EXCEPT ![f].state = "running", ![f].by = w]
    <3>1. ASSUME NEW g \in DOMAIN lookups
          PROVE  /\ lookups'[g] \in Lookup /\ lookups'[g].patch = lookups[g].patch
                 /\ lookups'[g].state = "pending" => State(g) = "pending"
      <4>1. [lookups[g] EXCEPT !.state = "running", !.by = w] \in Lookup
        BY <1>0 DEF Lookup
      <4>2. CASE g = f
        <5>1. lookups'[g] = [lookups[g] EXCEPT !.state = "running", !.by = w]
          BY <2>3, <4>2
        <5> QED  BY <1>0, <4>1, <5>1 DEF Lookup
      <4>3. CASE g # f
        BY <1>0, <2>3, <4>3 DEF State
      <4> QED  BY <4>2, <4>3
    <3>2. lookups' \in Seq(Lookup) /\ Len(lookups') = Len(lookups)
      <4> HIDE DEF f
      <4>1. DOMAIN lookups = 1..Len(lookups) /\ Len(lookups) \in Nat
        BY <1>0
      <4>2. lookups' \in [DOMAIN lookups -> Lookup]
        BY <2>3, <3>1
      <4> QED  BY <4>1, <4>2
    <3> QED  BY <2>1, <3>1, <3>2, LookupsGoOn
  <2> QED  BY <2>1, <2>2, <2>3
<1>5. ASSUME NEW w \in Workers, NEW how \in {"returned", "raised"}, Finish(w, how) PROVE EInv'
  <2>1. /\ UNCHANGED <<now, cache, apply>>
        /\ lookups' = [f \in DOMAIN lookups |->
             IF lookups[f].by = w /\ State(f) = "running" THEN [lookups[f] EXCEPT !.state = how]
             ELSE lookups[f]]
    BY <1>5 DEF Finish
  <2>2. ASSUME NEW f \in DOMAIN lookups
        PROVE  /\ [lookups[f] EXCEPT !.state = how] \in Lookup
               /\ [lookups[f] EXCEPT !.state = how].patch = lookups[f].patch
               /\ [lookups[f] EXCEPT !.state = how].state # "pending"
    BY <1>0 DEF Lookup
  <2>3. lookups' \in Seq(Lookup) /\ Len(lookups') = Len(lookups)
    BY <1>0, <2>1, <2>2
  <2> QED  BY <2>1, <2>2, <2>3, LookupsGoOn DEF State
<1> QED  BY <1>1, <1>2, <1>3, <1>4, <1>5 DEF PoolNext

LEMMA EnterKeepsEInv ==
  ASSUME NEW docs \in Seq(Docs)
  PROVE  EInv /\ Enter(docs) => EInv'
<1> SUFFICES ASSUME EInv, Enter(docs) PROVE EInv'
  OBVIOUS
<1>1. /\ UNCHANGED <<now, cache, lookups>> /\ lookups = <<>>
      /\ apply.phase = "idle"
      /\ apply' = [Idle EXCEPT !.phase = IF closing = "no" THEN "planning" ELSE "returned",
                               !.docs = docs, !.now = now, !.free = Cardinality(Workers) - Busy,
                               !.of = [i \in DOMAIN docs |-> 0],
                               !.out = [i \in DOMAIN docs |-> Unpatched]]
  BY DEF Enter, EInv, ETyped
<1>2. /\ Cardinality(Workers) - Busy \in Int
      /\ [i \in DOMAIN docs |-> 0] \in Seq(Nat) /\ [i \in DOMAIN docs |-> Unpatched] \in Seq(Out)
      /\ Len([i \in DOMAIN docs |-> 0]) = Len(docs)
      /\ Len([i \in DOMAIN docs |-> Unpatched]) = Len(docs)
  <2>1. Cardinality(Workers) \in Nat /\ Busy \in Nat
    BY EnricherAssumption, FS_Subset, FS_CardinalityType DEF Busy
  <2>2. Unpatched \in Out
    BY DEF Unpatched, Out
  <2> HIDE DEF Busy
  <2> QED  BY <2>1, <2>2
<1>3. apply' \in Call /\ apply'.now = now /\ apply'.docs = docs /\ apply'.phase # "idle"
      /\ apply'.of = [i \in DOMAIN docs |-> 0] /\ apply'.keyed = <<>>
      /\ apply'.out = [i \in DOMAIN docs |-> Unpatched]
  BY <1>1, <1>2 DEF Idle, Call, Phases, EInv, ETyped
<1>4. ETyped'
  BY <1>1, <1>2, <1>3 DEF EInv, ETyped
<1>5. Asked' /\ Answered' /\ Settling'
  BY <1>1, <1>3 DEF Asked, Answered, Own, Unpatched, Settling
<1>6. Kept(cache, now)' /\ (Len(cache) <= MaxCache)'
  BY <1>1 DEF EInv, Kept
<1> QED  BY <1>4, <1>5, <1>6 DEF EInv

-----------------------------------------------------------------------------
(* apply, one step at a time.                                              *)

LEMMA EParts ==
  ASSUME EInv
  PROVE  /\ apply \in Call /\ apply.docs \in Seq(Docs) /\ apply.out \in Seq(Out)
         /\ apply.of \in Seq(Nat) /\ apply.next \in Nat \ {0}
         /\ apply.keyed \in Seq([key : Keys, f : Nat]) /\ apply.left \in SUBSET Nat
         /\ lookups \in Seq(Lookup) /\ cache \in Seq(Entry)
         /\ \A f \in DOMAIN lookups : lookups[f] \in Lookup
         /\ \A i \in DOMAIN cache : cache[i] \in Entry
         /\ \A i \in DOMAIN apply.docs : apply.docs[i] \in Docs
         /\ DOMAIN apply.docs = 1..Len(apply.docs) /\ Len(apply.docs) \in Nat
         /\ apply.of \in [DOMAIN apply.docs -> Nat] /\ apply.out \in [DOMAIN apply.docs -> Out]
         /\ apply.keyed \in [DOMAIN apply.keyed -> [key : Keys, f : Nat]]
<1>1. /\ apply \in Call /\ lookups \in Seq(Lookup) /\ cache \in Seq(Entry)
      /\ Len(apply.of) = Len(apply.docs) /\ Len(apply.out) = Len(apply.docs)
  BY DEF EInv, ETyped
<1>2. /\ apply.docs \in Seq(Docs) /\ apply.out \in Seq(Out) /\ apply.of \in Seq(Nat)
      /\ apply.next \in Nat \ {0} /\ apply.keyed \in Seq([key : Keys, f : Nat])
      /\ apply.left \in SUBSET Nat
  BY <1>1 DEF Call
<1>3. /\ DOMAIN apply.docs = 1..Len(apply.docs) /\ Len(apply.docs) \in Nat
      /\ DOMAIN apply.of = 1..Len(apply.of) /\ DOMAIN apply.out = 1..Len(apply.out)
      /\ apply.of \in [1..Len(apply.of) -> Nat] /\ apply.out \in [1..Len(apply.out) -> Out]
      /\ apply.keyed \in [1..Len(apply.keyed) -> [key : Keys, f : Nat]]
  BY <1>2, LenProperties
<1>4. /\ \A f \in DOMAIN lookups : lookups[f] \in Lookup
      /\ \A i \in DOMAIN cache : cache[i] \in Entry
      /\ \A i \in DOMAIN apply.docs : apply.docs[i] \in Docs
  BY <1>1, <1>2
<1>5. /\ apply.of \in [DOMAIN apply.docs -> Nat] /\ apply.out \in [DOMAIN apply.docs -> Out]
      /\ apply.keyed \in [DOMAIN apply.keyed -> [key : Keys, f : Nat]]
  BY <1>1, <1>3
<1> QED  BY <1>1, <1>2, <1>3, <1>4, <1>5

\* A document whose answer, or whose lookup of this batch, is known.
LEMMA AnsweringKeepsEInv ==
  ASSUME EInv, UNCHANGED <<now, cache, lookups>>, apply.phase # "idle",
         NEW i \in DOMAIN apply.docs, NEW next \in Nat \ {0}, NEW out \in Out, NEW f \in Nat,
         apply' = [apply EXCEPT !.next = next, !.of[i] = f, !.out[i] = out],
         Own(out, apply.docs[i]),
         f # 0 => f \in DOMAIN lookups /\ lookups[f].patch.for = Whom(apply.docs[i])
  PROVE  EInv'
<1> USE EParts
<1>1. /\ [apply.of EXCEPT ![i] = f] \in Seq(Nat) /\ [apply.out EXCEPT ![i] = out] \in Seq(Out)
      /\ Len([apply.of EXCEPT ![i] = f]) = Len(apply.of)
      /\ Len([apply.out EXCEPT ![i] = out]) = Len(apply.out)
      /\ \A j \in DOMAIN apply.docs :
           /\ [apply.of EXCEPT ![i] = f][j] = IF j = i THEN f ELSE apply.of[j]
           /\ [apply.out EXCEPT ![i] = out][j] = IF j = i THEN out ELSE apply.out[j]
  <2>1. i \in 1..Len(apply.of) /\ i \in 1..Len(apply.out)
    OBVIOUS
  <2> QED  BY <2>1, ExceptSeq
<1>2. /\ apply' \in Call /\ apply'.phase = apply.phase /\ apply'.docs = apply.docs
      /\ apply'.now = apply.now /\ apply'.keyed = apply.keyed /\ apply'.left = apply.left
      /\ apply'.of = [apply.of EXCEPT ![i] = f] /\ apply'.out = [apply.out EXCEPT ![i] = out]
  BY <1>1 DEF Call
<1>3. ETyped'
  BY <1>1, <1>2 DEF EInv, ETyped
<1>4. Asked'
  <2>1. ASSUME NEW j \in DOMAIN apply.docs, apply'.of[j] # 0
        PROVE  /\ apply'.of[j] \in DOMAIN lookups
               /\ lookups[apply'.of[j]].patch.for = Whom(apply.docs[j])
    <3>1. CASE j = i
      BY <1>1, <1>2, <2>1, <3>1
    <3>2. CASE j # i
      <4>1. apply'.of[j] = apply.of[j]
        BY <1>1, <1>2, <3>2
      <4> QED  BY <2>1, <4>1 DEF EInv, Asked
    <3> QED  BY <3>1, <3>2
  <2> QED  BY <1>2, <2>1 DEF EInv, Asked
<1>5. Answered'
  <2>1. ASSUME NEW j \in DOMAIN apply.docs PROVE Own([apply.out EXCEPT ![i] = out][j], apply.docs[j])
    <3>1. CASE j = i
      BY <1>1, <3>1
    <3>2. CASE j # i
      <4>1. Own(apply.out[j], apply.docs[j])
        BY DEF EInv, Answered
      <4> QED  BY <1>1, <3>2, <4>1
    <3> QED  BY <3>1, <3>2
  <2> QED  BY <1>2, <2>1 DEF Answered, Own
<1>6. Settling' /\ Kept(cache, now)' /\ (Len(cache) <= MaxCache)'
  BY <1>2 DEF EInv, Settling, State, Kept
<1> QED  BY <1>3, <1>4, <1>5, <1>6 DEF EInv

\* What the cache answers with was asked for the same key, not too long ago.
LEMMA HitIsOwn ==
  ASSUME EInv, apply.phase # "idle", NEW i \in DOMAIN apply.docs,
         apply.docs[i].key # None, NEW e \in Hit(apply.docs[i].key)
  PROVE  Patched(e.patch) \in Out /\ Own(Patched(e.patch), apply.docs[i])
<1>1. PICK j \in DOMAIN cache : cache[j] = e
  BY DEF Hit, Range
<1>2. /\ e \in Entry /\ e.key = apply.docs[i].key /\ e.expires > apply.now
      /\ e.patch.for = e.key /\ e.patch.at + TTL = e.expires
  BY <1>1, EParts DEF Hit, EInv, Kept
<1>3. apply.now \in Nat
  BY DEF EInv, ETyped
<1>4. apply.now - e.patch.at < TTL
  <2>1. e.patch.at \in Nat /\ e.expires \in Nat
    BY <1>2 DEF Entry, Patches
  <2> QED  BY <1>2, <1>3, <2>1, EnricherAssumption
<1> QED  BY <1>2, <1>4 DEF Patched, Out, Own, Entry, Whom

LEMMA AnswerKeepsEInv ==
  ASSUME EInv, UNCHANGED <<now, cache, lookups>>, apply.phase # "idle",
         NEW i \in DOMAIN apply.docs, Answer(i)
  PROVE  EInv'
<1> USE EParts
<1> DEFINE key == apply.docs[i].key
           hit == CHOOSE e \in Hit(key) : TRUE
           same == CHOOSE f \in AskedFor(key) : TRUE
<1>0. apply.of[i] \in Nat /\ apply.out[i] \in Out /\ i + 1 \in Nat \ {0}
  OBVIOUS
<1>1. /\ Own(apply.out[i], apply.docs[i])
      /\ apply.of[i] # 0 => /\ apply.of[i] \in DOMAIN lookups
                            /\ lookups[apply.of[i]].patch.for = Whom(apply.docs[i])
  BY DEF EInv, Answered, Asked
<1>2. CASE key # None /\ Hit(key) # {}
           /\ apply' = [[apply EXCEPT !.next = i + 1] EXCEPT !.out[i] = Patched(hit.patch)]
  <2>1. Patched(hit.patch) \in Out /\ Own(Patched(hit.patch), apply.docs[i])
    BY <1>2, HitIsOwn
  <2> DEFINE out == Patched(hit.patch)
  <2>2. apply' = [apply EXCEPT !.next = i + 1, !.of[i] = apply.of[i], !.out[i] = out]
    <3> HIDE DEF out
    <3>1. apply' = [apply EXCEPT !.next = i + 1, !.out[i] = out]
      BY <1>2 DEF out
    <3>2. [apply.of EXCEPT ![i] = apply.of[i]] = apply.of
      OBVIOUS
    <3>3. apply = [apply EXCEPT !.of = apply.of]
      BY DEF Call
    <3> QED  BY <3>1, <3>2 DEF Call
  <2> HIDE DEF out
  <2> QED  BY <1>0, <1>1, <2>1, <2>2, AnsweringKeepsEInv DEF out
<1>3. CASE key # None /\ AskedFor(key) # {}
           /\ apply' = [[apply EXCEPT !.next = i + 1] EXCEPT !.of[i] = same]
  <2>1. same \in AskedFor(key)
    BY <1>3
  <2> HIDE DEF same
  <2>2. PICK k \in DOMAIN apply.keyed : apply.keyed[k].key = key /\ apply.keyed[k].f = same
    BY <2>1 DEF AskedFor
  <2>3. same \in DOMAIN lookups /\ lookups[same].patch.for = key /\ same \in Nat
    BY <2>2 DEF EInv, Asked
  <2>4. apply' = [apply EXCEPT !.next = i + 1, !.of[i] = same, !.out[i] = apply.out[i]]
    <3>1. [apply.out EXCEPT ![i] = apply.out[i]] = apply.out
      OBVIOUS
    <3> QED  BY <1>3, <3>1 DEF Call, same
  <2> QED  BY <1>0, <1>1, <1>3, <2>3, <2>4, AnsweringKeepsEInv DEF Whom
<1>4. CASE apply' = [[apply EXCEPT !.next = i + 1] EXCEPT !.out[i] = Tagged]
  <2>1. Tagged \in Out /\ Own(Tagged, apply.docs[i])
    BY DEF Tagged, Out, Own
  <2>2. apply' = [apply EXCEPT !.next = i + 1, !.of[i] = apply.of[i], !.out[i] = Tagged]
    <3>1. [apply.of EXCEPT ![i] = apply.of[i]] = apply.of
      OBVIOUS
    <3> QED  BY <1>4, <3>1 DEF Call
  <2> QED  BY <1>0, <1>1, <2>1, <2>2, AnsweringKeepsEInv
<1> QED  BY <1>2, <1>3, <1>4 DEF Answer

LEMMA SubmitKeepsEInv ==
  ASSUME EInv, UNCHANGED <<now, cache>>, apply.phase = "planning",
         NEW i \in DOMAIN apply.docs, Submit(i)
  PROVE  EInv'
<1> USE EParts
<1> DEFINE d == apply.docs[i]
           n == Len(lookups) + 1
           asked == [state |-> "pending", by |-> None, patch |-> [for |-> Whom(d), at |-> apply.now]]
           keyed == IF d.key = None THEN apply.keyed
                    ELSE Append(apply.keyed, [key |-> d.key, f |-> n])
<1>1. /\ lookups' = Append(lookups, asked)
      /\ apply' = [apply EXCEPT !.next = i + 1, !.of[i] = n, !.keyed = keyed]
  BY DEF Submit
<1>2. asked \in Lookup /\ n \in Nat \ {0}
  BY DEF Lookup, Patches, EInv, ETyped, Call
<1>3. /\ lookups' \in Seq(Lookup) /\ DOMAIN lookups' = DOMAIN lookups \cup {n}
      /\ n \notin DOMAIN lookups /\ lookups'[n] = asked
      /\ \A f \in DOMAIN lookups : lookups'[f] = lookups[f]
  BY <1>1, <1>2
<1>4. keyed \in Seq([key : Keys, f : Nat])
  <2>1. CASE d.key # None
    BY <1>2, <2>1 DEF Keys
  <2> QED  BY <2>1
<1>5. \A k \in DOMAIN keyed : \/ k \in DOMAIN apply.keyed /\ keyed[k] = apply.keyed[k]
                              \/ keyed[k].f = n /\ keyed[k].key = Whom(d)
  <2>1. CASE d.key # None
    <3> DEFINE new == [key |-> d.key, f |-> n]
    <3>1. new.f = n /\ new.key = Whom(d) /\ keyed = Append(apply.keyed, new)
      BY <2>1 DEF Whom
    <3> HIDE DEF new, keyed, n
    <3>2. \A k \in DOMAIN keyed : \/ k \in DOMAIN apply.keyed /\ keyed[k] = apply.keyed[k]
                                  \/ keyed[k] = new
      BY <3>1
    <3> QED  BY <3>1, <3>2
  <2> QED  BY <2>1
<1> HIDE DEF keyed, n
<1>6. /\ [apply.of EXCEPT ![i] = n] \in Seq(Nat)
      /\ Len([apply.of EXCEPT ![i] = n]) = Len(apply.of)
      /\ \A j \in DOMAIN apply.docs :
           [apply.of EXCEPT ![i] = n][j] = IF j = i THEN n ELSE apply.of[j]
  <2>1. i \in 1..Len(apply.of)
    OBVIOUS
  <2> QED  BY <1>2, <2>1, ExceptSeq
<1>7. /\ apply' \in Call /\ apply'.phase = apply.phase /\ apply'.docs = apply.docs
      /\ apply'.now = apply.now /\ apply'.keyed = keyed /\ apply'.left = apply.left
      /\ apply'.of = [apply.of EXCEPT ![i] = n] /\ apply'.out = apply.out
  <2>1. i + 1 \in Nat \ {0}
    OBVIOUS
  <2> QED  BY <1>1, <1>4, <1>6, <2>1 DEF Call
<1>8. ETyped'
  BY <1>3, <1>6, <1>7 DEF EInv, ETyped
<1>9. Asked'
  <2>1. \A f \in DOMAIN lookups' : lookups'[f].patch.at = apply.now
    BY <1>3 DEF EInv, Asked
  <2>2. ASSUME NEW j \in DOMAIN apply.docs, apply'.of[j] # 0
        PROVE  /\ apply'.of[j] \in DOMAIN lookups'
               /\ lookups'[apply'.of[j]].patch.for = Whom(apply.docs[j])
    <3>1. CASE j = i
      <4>1. apply'.of[j] = n
        BY <1>6, <1>7, <3>1
      <4> QED  BY <1>3, <3>1, <4>1
    <3>2. CASE j # i
      <4>1. apply'.of[j] = apply.of[j]
        BY <1>6, <1>7, <3>2
      <4>2. /\ apply.of[j] \in DOMAIN lookups
            /\ lookups[apply.of[j]].patch.for = Whom(apply.docs[j])
        BY <2>2, <4>1 DEF EInv, Asked
      <4> QED  BY <1>3, <4>1, <4>2
    <3> QED  BY <3>1, <3>2
  <2>3. ASSUME NEW k \in DOMAIN keyed
        PROVE  keyed[k].f \in DOMAIN lookups' /\ lookups'[keyed[k].f].patch.for = keyed[k].key
    <3>1. CASE k \in DOMAIN apply.keyed /\ keyed[k] = apply.keyed[k]
      <4>1. /\ apply.keyed[k].f \in DOMAIN lookups
            /\ lookups[apply.keyed[k].f].patch.for = apply.keyed[k].key
        BY <3>1 DEF EInv, Asked
      <4> QED  BY <1>3, <3>1, <4>1
    <3>2. CASE keyed[k].f = n /\ keyed[k].key = Whom(d)
      BY <1>3, <3>2
    <3> QED  BY <1>5, <3>1, <3>2
  <2> QED  BY <1>7, <2>1, <2>2, <2>3 DEF Asked
<1>10. Answered'
  BY <1>7 DEF EInv, Answered, Own
<1>11. Settling' /\ Kept(cache, now)' /\ (Len(cache) <= MaxCache)'
  BY <1>7 DEF EInv, Settling, Kept
<1> QED  BY <1>8, <1>9, <1>10, <1>11 DEF EInv

-----------------------------------------------------------------------------
(* The cache.                                                              *)

\* Part of an ordered cache, in its order.
LEMMA PartOfCache ==
  ASSUME NEW s \in Seq(Entry), NEW t \in Seq(Entry), NEW bound, Kept(s, bound),
         NEW g \in [DOMAIN t -> DOMAIN s],
         \A i \in DOMAIN t : t[i] = s[g[i]],
         \A i, j \in DOMAIN t : i < j => g[i] < g[j]
  PROVE  Kept(t, bound)
<1>1. ASSUME NEW i \in DOMAIN t, NEW j \in DOMAIN t, i < j
      PROVE  t[i].key # t[j].key /\ t[i].expires <= t[j].expires
  <2>1. g[i] \in DOMAIN s /\ g[j] \in DOMAIN s /\ g[i] < g[j]
    BY <1>1
  <2>2. s[g[i]].key # s[g[j]].key /\ s[g[i]].expires <= s[g[j]].expires
    BY <2>1 DEF Kept
  <2> QED  BY <2>2
<1>2. ASSUME NEW i \in DOMAIN t
      PROVE  /\ t[i].patch.for = t[i].key /\ t[i].patch.at + TTL = t[i].expires
             /\ t[i].patch.at <= bound
  <2>1. g[i] \in DOMAIN s /\ t[i] = s[g[i]]
    OBVIOUS
  <2>2. /\ s[g[i]].patch.for = s[g[i]].key /\ s[g[i]].patch.at + TTL = s[g[i]].expires
        /\ s[g[i]].patch.at <= bound
    BY <2>1 DEF Kept
  <2> QED  BY <2>1, <2>2
<1> QED  BY <1>1, <1>2 DEF Kept

\* One entry less, and the entries with other keys are still there.
LEMMA ForgottenIsPart ==
  ASSUME cache \in Seq(Entry), NEW bound, Kept(cache, bound), NEW key
  PROVE  /\ Forgotten(key) \in Seq(Entry) /\ Len(Forgotten(key)) <= Len(cache)
         /\ Kept(Forgotten(key), bound)
         /\ \A i \in DOMAIN Forgotten(key) : Forgotten(key)[i].key # key
<1> DEFINE at == {i \in DOMAIN cache : cache[i].key = key}
           k == CHOOSE i \in at : TRUE
<1>1. CASE at = {}
  BY <1>1 DEF Forgotten
<1>2. CASE at # {}
  <2>1. Forgotten(key) = RemoveAt(cache, k) /\ k \in DOMAIN cache /\ cache[k].key = key
    BY <1>2 DEF Forgotten
  <2> HIDE DEF k, at
  <2> DEFINE t == RemoveAt(cache, k)
             g == [i \in DOMAIN t |-> IF i < k THEN i ELSE i + 1]
  <2>2. /\ t \in Seq(Entry) /\ Len(t) = Len(cache) - 1
        /\ \A i \in DOMAIN t : t[i] = cache[IF i < k THEN i ELSE i + 1]
    <3> DEFINE a == SubSeq(cache, 1, k - 1)
               b == SubSeq(cache, k + 1, Len(cache))
    <3>1. k \in 1..Len(cache) /\ Len(cache) \in Nat
      BY <2>1
    <3>2. /\ a \in Seq(Entry) /\ Len(a) = k - 1
          /\ \A i \in 1..(k - 1) : a[i] = cache[i]
      BY <3>1
    <3>3. /\ b \in Seq(Entry) /\ Len(b) = Len(cache) - k
          /\ \A i \in 1..(Len(cache) - k) : b[i] = cache[k + i]
      BY <3>1
    <3>4. t = a \o b
      BY DEF RemoveAt
    <3> HIDE DEF a, b, t, g
    <3>5. /\ t \in Seq(Entry) /\ Len(t) = Len(a) + Len(b)
          /\ \A i \in 1..(Len(a) + Len(b)) : t[i] = IF i <= Len(a) THEN a[i] ELSE b[i - Len(a)]
      BY <3>2, <3>3, <3>4, ConcatProperties
    <3>6. Len(t) = Len(cache) - 1 /\ DOMAIN t = 1..(Len(cache) - 1)
      BY <3>1, <3>2, <3>3, <3>5
    <3>7. ASSUME NEW i \in DOMAIN t PROVE t[i] = cache[IF i < k THEN i ELSE i + 1]
      <4>1. i \in 1..(Len(cache) - 1) /\ t[i] = IF i <= k - 1 THEN a[i] ELSE b[i - (k - 1)]
        <5>1. i \in 1..(Len(cache) - 1)
          BY <3>6
        <5>2. Len(a) = k - 1 /\ i \in 1..(Len(a) + Len(b))
          BY <3>1, <3>2, <3>3, <5>1
        <5> QED  BY <3>5, <5>1, <5>2
      <4>2. CASE i < k
        <5>1. i <= k - 1 /\ i \in 1..(k - 1)
          BY <3>1, <4>1, <4>2
        <5> QED  BY <3>2, <4>1, <4>2, <5>1
      <4>3. CASE ~(i < k)
        <5>1. i - (k - 1) \in 1..(Len(cache) - k) /\ k + (i - (k - 1)) = i + 1
          BY <3>1, <4>1, <4>3
        <5>2. ~(i <= k - 1)
          BY <3>1, <4>1, <4>3
        <5>3. t[i] = b[i - (k - 1)]
          BY <4>1, <5>2
        <5>4. b[i - (k - 1)] = cache[k + (i - (k - 1))]
          BY <3>3, <5>1
        <5> QED  BY <4>3, <5>1, <5>3, <5>4
      <4> QED  BY <4>2, <4>3
    <3> QED  BY <3>5, <3>6, <3>7
  <2>3. DOMAIN t = 1..(Len(cache) - 1) /\ DOMAIN cache = 1..Len(cache) /\ Len(cache) \in Nat
    BY <2>2
  <2> HIDE DEF t
  <2>4. /\ g \in [DOMAIN t -> DOMAIN cache] /\ \A i \in DOMAIN t : t[i] = cache[g[i]]
        /\ \A i, j \in DOMAIN t : i < j => g[i] < g[j]
        /\ \A i \in DOMAIN t : g[i] # k
    BY <2>1, <2>2, <2>3
  <2>5. Kept(t, bound)
    <3> HIDE DEF g
    <3> QED  BY <2>2, <2>4, PartOfCache
  <2>6. ASSUME NEW i \in DOMAIN t PROVE t[i].key # key
    <3>1. g[i] \in DOMAIN cache /\ g[i] # k /\ t[i] = cache[g[i]]
      BY <2>4
    <3> HIDE DEF g
    <3>2. g[i] < k \/ k < g[i]
      BY <2>1, <2>3, <3>1
    <3>3. cache[g[i]].key # cache[k].key
      BY <2>1, <3>1, <3>2 DEF Kept
    <3> QED  BY <2>1, <3>1, <3>3
  <2> QED  BY <2>1, <2>2, <2>3, <2>5, <2>6 DEF t
<1> QED  BY <1>1, <1>2

LEMMA RememberKeeps ==
  ASSUME cache \in Seq(Entry), Kept(cache, now), Len(cache) <= MaxCache,
         now \in Nat, apply.now = now,
         NEW key \in Keys, NEW f, lookups[f].patch \in Patches,
         lookups[f].patch.for = key, lookups[f].patch.at = now
  PROVE  /\ Remember(key, f) \in Seq(Entry) /\ Kept(Remember(key, f), now)
         /\ Len(Remember(key, f)) <= MaxCache
<1> USE EnricherAssumption
<1>1. CASE TTL = 0 \/ MaxCache = 0
  <2>1. Remember(key, f) = cache
    BY <1>1 DEF Remember
  <2> QED  BY <2>1
<1>2. CASE ~(TTL = 0 \/ MaxCache = 0)
  <2> DEFINE others == Forgotten(key)
             room == IF Len(others) < MaxCache THEN others
                     ELSE SubSeq(others, Len(others) - MaxCache + 2, Len(others))
             new == [key |-> key, expires |-> now + TTL, patch |-> lookups[f].patch]
  <2>1. Remember(key, f) = Append(room, new)
    BY <1>2 DEF Remember
  <2>2. /\ others \in Seq(Entry) /\ Kept(others, now) /\ Len(others) <= Len(cache)
        /\ \A i \in DOMAIN others : others[i].key # key
    BY ForgottenIsPart
  <2> HIDE DEF others
  <2>3. /\ room \in Seq(Entry) /\ Len(room) < MaxCache /\ Kept(room, now)
        /\ \A i \in DOMAIN room : room[i].key # key
    <3>1. CASE Len(others) < MaxCache
      BY <2>2, <3>1
    <3>2. CASE ~(Len(others) < MaxCache)
      <4> DEFINE m == Len(others) - MaxCache + 2
                 t == SubSeq(others, m, Len(others))
                 g == [i \in DOMAIN t |-> i + m - 1]
      <4>1. /\ m \in Nat \ {0} /\ Len(others) \in Nat /\ DOMAIN others = 1..Len(others)
            /\ m <= Len(others) + 1 /\ Len(others) - m + 1 < MaxCache
        BY <1>2, <2>2, <3>2
      <4> HIDE DEF m
      <4>2. /\ t \in Seq(Entry) /\ Len(t) = Len(others) - m + 1
            /\ \A i \in 1..Len(t) : t[i] = others[i + m - 1]
        BY <2>2, <4>1
      <4>3. DOMAIN t = 1..(Len(others) - m + 1)
        BY <4>1, <4>2
      <4> HIDE DEF t
      <4>4. /\ g \in [DOMAIN t -> DOMAIN others] /\ \A i \in DOMAIN t : t[i] = others[g[i]]
            /\ \A i, j \in DOMAIN t : i < j => g[i] < g[j]
        <5>1. \A i \in DOMAIN t : i \in 1..Len(t) /\ i + m - 1 \in DOMAIN others
          BY <4>1, <4>2, <4>3
        <5>2. \A i, j \in DOMAIN t : i < j => i + m - 1 < j + m - 1
          BY <4>1, <4>3
        <5> QED  BY <4>2, <5>1, <5>2
      <4> HIDE DEF g
      <4>5. Kept(t, now)
        BY <2>2, <4>2, <4>4, PartOfCache
      <4>6. \A i \in DOMAIN t : t[i].key # key
        BY <2>2, <4>4
      <4> QED  BY <3>2, <4>1, <4>2, <4>5, <4>6 DEF t, m
    <3> QED  BY <3>1, <3>2
  <2> HIDE DEF room
  <2>4. /\ new \in Entry /\ new.patch.for = new.key /\ new.patch.at + TTL = new.expires
        /\ new.patch.at = now /\ new.key = key /\ new.expires = now + TTL
    BY DEF Entry
  <2> HIDE DEF new
  <2> DEFINE s == Append(room, new)
             n == Len(room) + 1
  <2>5. /\ s \in Seq(Entry) /\ DOMAIN s = 1..n /\ s[n] = new /\ Len(s) = n /\ n \in Nat
        /\ DOMAIN room = 1..(n - 1) /\ \A i \in 1..(n - 1) : s[i] = room[i]
    BY <2>3, <2>4
  <2> HIDE DEF s, n
  <2>6. ASSUME NEW i \in 1..n, NEW j \in 1..n, i < j
        PROVE  s[i].key # s[j].key /\ s[i].expires <= s[j].expires
    <3>1. i \in DOMAIN room /\ s[i] = room[i]
      BY <2>5, <2>6
    <3>2. CASE j \in 1..(n - 1)
      <4>1. j \in DOMAIN room /\ s[j] = room[j]
        BY <2>5, <3>2
      <4> QED  BY <2>3, <2>6, <3>1, <4>1 DEF Kept
    <3>3. CASE j = n
      <4>1. room[i].patch.at <= now /\ room[i].patch.at + TTL = room[i].expires
        BY <2>3, <3>1 DEF Kept
      <4>2. room[i].patch.at \in Nat
        <5>1. room[i] \in Entry
          BY <2>3, <3>1
        <5> QED  BY <5>1 DEF Entry, Patches
      <4>3. room[i].expires <= now + TTL
        BY <4>1, <4>2
      <4>4. room[i].key # key
        BY <2>3, <3>1
      <4> QED  BY <2>4, <2>5, <3>1, <3>3, <4>3, <4>4
    <3> QED  BY <2>5, <3>2, <3>3
  <2>7. ASSUME NEW i \in 1..n
        PROVE  s[i].patch.for = s[i].key /\ s[i].patch.at + TTL = s[i].expires /\ s[i].patch.at <= now
    <3>1. CASE i = n
      BY <2>4, <2>5, <3>1
    <3>2. CASE i # n
      <4>1. i \in DOMAIN room /\ s[i] = room[i]
        BY <2>5, <3>2
      <4> QED  BY <2>3, <4>1 DEF Kept
    <3> QED  BY <3>1, <3>2
  <2>8. Kept(s, now)
    BY <2>5, <2>6, <2>7 DEF Kept
  <2>9. Len(s) <= MaxCache
    BY <2>3, <2>5 DEF n
  <2> QED  BY <2>1, <2>5, <2>8, <2>9 DEF s
<1> QED  BY <1>1, <1>2

-----------------------------------------------------------------------------
(* The other steps of apply.                                               *)

\* A step that moves apply on, and nothing of what it has found.
LEMMA MovingOnKeepsEInv ==
  ASSUME EInv, UNCHANGED <<now, cache, lookups>>, apply.phase # "idle",
         NEW phase \in Phases \ {"idle"}, NEW next \in Nat \ {0}, NEW left \in SUBSET Nat,
         apply' = [apply EXCEPT !.phase = phase, !.next = next, !.left = left],
         \A f \in DOMAIN lookups : State(f) = "pending" =>
           phase = "planning" \/ (phase \in {"waiting", "settling"} /\ f \in left)
  PROVE  EInv'
<1> USE EParts
<1>1. /\ apply' \in Call /\ apply'.phase = phase /\ apply'.docs = apply.docs
      /\ apply'.now = apply.now /\ apply'.keyed = apply.keyed /\ apply'.left = left
      /\ apply'.of = apply.of /\ apply'.out = apply.out
  BY DEF Call
<1>2. ETyped'
  BY <1>1 DEF EInv, ETyped
<1>3. Asked' /\ Answered'
  BY <1>1 DEF EInv, Asked, Answered, Own
<1>4. Settling'
  BY <1>1 DEF Settling, State
<1>5. Kept(cache, now)' /\ (Len(cache) <= MaxCache)'
  BY DEF EInv, Kept
<1> QED  BY <1>2, <1>3, <1>4, <1>5 DEF EInv

LEMMA SettleKeepsEInv ==
  ASSUME EInv, NEW f \in DOMAIN lookups, Settle(f)
  PROVE  EInv'
<1> USE EParts
<1> DEFINE after == [lookups[f] EXCEPT !.state = AfterCancel(f)]
<1>1. /\ apply.phase = "settling" /\ UNCHANGED <<now, cache>>
      /\ lookups' = [lookups EXCEPT ![f] = after]
      /\ apply' = [apply EXCEPT !.left = apply.left \ {f}]
  BY DEF Settle
<1>2. after \in Lookup /\ after.patch = lookups[f].patch /\ after.state # "pending"
  BY DEF Lookup, AfterCancel, State
<1> HIDE DEF after
<1>3. /\ lookups' \in Seq(Lookup) /\ Len(lookups') = Len(lookups) /\ DOMAIN lookups' = DOMAIN lookups
      /\ \A g \in DOMAIN lookups : lookups'[g] = IF g = f THEN after ELSE lookups[g]
  <2>1. f \in 1..Len(lookups)
    OBVIOUS
  <2> QED  BY <1>1, <1>2, <2>1, ExceptSeq
<1>4. /\ apply' \in Call /\ apply'.phase = apply.phase /\ apply'.docs = apply.docs
      /\ apply'.now = apply.now /\ apply'.keyed = apply.keyed /\ apply'.left = apply.left \ {f}
      /\ apply'.of = apply.of /\ apply'.out = apply.out
  BY <1>1 DEF Call
<1>5. ETyped'
  BY <1>1, <1>3, <1>4 DEF EInv, ETyped
<1>6. \A g \in DOMAIN lookups : lookups'[g].patch = lookups[g].patch
  BY <1>2, <1>3
<1>7. Asked' /\ Answered'
  <2>1. Asked'
    <3>1. \A i \in DOMAIN apply.docs : apply.of[i] # 0 =>
            /\ apply.of[i] \in DOMAIN lookups'
            /\ lookups'[apply.of[i]].patch.for = Whom(apply.docs[i])
      BY <1>3, <1>6 DEF EInv, Asked
    <3>2. \A k \in DOMAIN apply.keyed :
            /\ apply.keyed[k].f \in DOMAIN lookups'
            /\ lookups'[apply.keyed[k].f].patch.for = apply.keyed[k].key
      BY <1>3, <1>6 DEF EInv, Asked
    <3>3. \A g \in DOMAIN lookups' : lookups'[g].patch.at = apply.now
      BY <1>3, <1>6 DEF EInv, Asked
    <3> QED  BY <1>4, <3>1, <3>2, <3>3 DEF Asked
  <2>2. Answered'
    BY <1>4 DEF EInv, Answered, Own
  <2> QED  BY <2>1, <2>2
<1>8. Settling'
  BY <1>1, <1>2, <1>3, <1>4 DEF EInv, Settling, State
<1>9. Kept(cache, now)' /\ (Len(cache) <= MaxCache)'
  BY <1>1 DEF EInv, Kept
<1> QED  BY <1>5, <1>7, <1>8, <1>9 DEF EInv

\* What a document gets from the lookup it was given is for it.
LEMMA CollectKeepsEInv == EInv /\ Collect => EInv'
<1> SUFFICES ASSUME EInv, Collect PROVE EInv'
  OBVIOUS
<1> USE EParts
<1> DEFINE i == apply.next
<1>1. apply.phase = "collecting" /\ UNCHANGED <<now, cache, lookups>>
  BY DEF Collect
<1>2. \A f \in DOMAIN lookups : State(f) # "pending"
  BY <1>1 DEF EInv, Settling
<1>3. CASE i > Len(apply.docs)
  <2>1. apply' = [apply EXCEPT !.phase = "remembering", !.next = 1]
    BY <1>3 DEF Collect
  <2>2. apply' = [apply EXCEPT !.phase = "remembering", !.next = 1, !.left = apply.left]
    BY <2>1 DEF Call
  <2>3. "remembering" \in Phases \ {"idle"} /\ apply.left \in SUBSET Nat /\ 1 \in Nat \ {0}
    BY DEF Phases
  <2> HIDE DEF i
  <2> QED  BY <1>1, <1>2, <2>2, <2>3, MovingOnKeepsEInv, Zenon
<1>4. CASE ~(i > Len(apply.docs))
  <2>1. apply' = [apply EXCEPT !.out[i] = Outcome(i), !.next = i + 1]
    BY <1>4 DEF Collect
  <2>2. CASE i \notin DOMAIN apply.docs
    <3>1. [apply.out EXCEPT ![i] = Outcome(i)] = apply.out
      BY <2>2
    <3>2. apply' = [apply EXCEPT !.phase = apply.phase, !.next = i + 1, !.left = apply.left]
      BY <2>1, <3>1 DEF Call
    <3>3. apply.phase \in Phases \ {"idle"} /\ i + 1 \in Nat \ {0}
      BY <1>1 DEF Call
    <3>4. i + 1 \in Nat \ {0} /\ apply.left \in SUBSET Nat
      OBVIOUS
    <3> QED  BY <1>1, <1>2, <3>2, <3>3, <3>4, MovingOnKeepsEInv
  <2>3. CASE i \in DOMAIN apply.docs
    <3>1. /\ apply.of[i] \in Nat /\ apply.out[i] \in Out /\ i + 1 \in Nat \ {0}
          /\ Own(apply.out[i], apply.docs[i])
          /\ apply.of[i] # 0 => /\ apply.of[i] \in DOMAIN lookups
                                /\ lookups[apply.of[i]].patch.for = Whom(apply.docs[i])
                                /\ lookups[apply.of[i]].patch.at = apply.now
      <4>1. apply.of[i] \in Nat /\ apply.out[i] \in Out /\ i + 1 \in Nat \ {0}
        <5>1. i + 1 \in Nat \ {0}
          OBVIOUS
        <5> HIDE DEF i
        <5> QED  BY <2>3, <5>1
      <4>2. Own(apply.out[i], apply.docs[i])
        BY <2>3 DEF EInv, Answered
      <4> QED  BY <2>3, <4>1, <4>2 DEF EInv, Asked
    <3>2. Outcome(i) \in Out /\ Own(Outcome(i), apply.docs[i])
      <4> HIDE DEF i
      <4>1. CASE apply.of[i] = 0
        BY <3>1, <4>1 DEF Outcome
      <4>2. CASE apply.of[i] # 0
        <5>1. lookups[apply.of[i]].patch \in Patches
          <6>1. lookups[apply.of[i]] \in Lookup
            BY <3>1, <4>2
          <6> QED  BY <6>1 DEF Lookup
        <5>2. Outcome(i) \in {Patched(lookups[apply.of[i]].patch), Unpatched, Tagged}
          BY <4>2 DEF Outcome
        <5>3. Patched(lookups[apply.of[i]].patch) \in Out /\ Unpatched \in Out /\ Tagged \in Out
          BY <5>1 DEF Patched, Unpatched, Tagged, Out
        <5>4. /\ Own(Unpatched, apply.docs[i]) /\ Own(Tagged, apply.docs[i])
              /\ Own(Patched(lookups[apply.of[i]].patch), apply.docs[i])
          BY <3>1, <4>2 DEF Patched, Unpatched, Tagged, Own
        <5> QED  BY <5>2, <5>3, <5>4
      <4> QED  BY <4>1, <4>2
    <3> DEFINE out == Outcome(i)
    <3>3. apply' = [apply EXCEPT !.next = i + 1, !.of[i] = apply.of[i], !.out[i] = out]
      <4>1. [apply.of EXCEPT ![i] = apply.of[i]] = apply.of
        BY <2>3
      <4> HIDE DEF out
      <4>2. apply' = [apply EXCEPT !.out[i] = out, !.next = i + 1]
        BY <2>1 DEF out
      <4> QED  BY <4>1, <4>2 DEF Call
    <3> HIDE DEF out
    <3> QED  BY <1>1, <2>3, <3>1, <3>2, <3>3, AnsweringKeepsEInv DEF out
  <2> QED  BY <2>2, <2>3
<1> QED  BY <1>3, <1>4

LEMMA RecallKeepsEInv == EInv /\ Recall => EInv'
<1> SUFFICES ASSUME EInv, Recall PROVE EInv'
  OBVIOUS
<1> USE EParts
<1>1. apply.phase = "remembering" /\ UNCHANGED <<now, lookups>>
  BY DEF Recall
<1>2. \A f \in DOMAIN lookups : State(f) # "pending"
  BY <1>1 DEF EInv, Settling
<1>3. CASE apply.next > Len(apply.keyed)
  <2>1. UNCHANGED cache /\ apply' = [apply EXCEPT !.phase = "returned"]
    BY <1>3 DEF Recall
  <2>2. apply' = [apply EXCEPT !.phase = "returned", !.next = apply.next, !.left = apply.left]
    BY <2>1 DEF Call
  <2>3. "returned" \in Phases \ {"idle"} /\ apply.left \in SUBSET Nat /\ apply.next \in Nat \ {0}
    BY DEF Phases
  <2>4. apply.phase # "idle" /\ UNCHANGED <<now, cache, lookups>>
    BY <1>1, <2>1
  <2> QED  BY <1>2, <2>2, <2>3, <2>4, MovingOnKeepsEInv, Zenon
<1>4. CASE ~(apply.next > Len(apply.keyed))
  <2> DEFINE k == apply.keyed[apply.next]
  <2>1. /\ apply' = [apply EXCEPT !.next = apply.next + 1]
        /\ cache' = IF State(k.f) = "returned" THEN Remember(k.key, k.f) ELSE cache
    BY <1>4 DEF Recall
  <2>2. /\ apply' \in Call /\ apply'.phase = apply.phase /\ apply'.docs = apply.docs
        /\ apply'.now = apply.now /\ apply'.keyed = apply.keyed /\ apply'.left = apply.left
        /\ apply'.of = apply.of /\ apply'.out = apply.out
    <3>1. apply.next + 1 \in Nat \ {0}
      OBVIOUS
    <3> QED  BY <2>1, <3>1 DEF Call
  <2>3. cache' \in Seq(Entry) /\ Kept(cache', now) /\ Len(cache') <= MaxCache
    <3>1. /\ cache \in Seq(Entry) /\ Kept(cache, now) /\ Len(cache) <= MaxCache
          /\ now \in Nat /\ apply.now = now
      BY <1>1 DEF EInv, ETyped
    <3>2. CASE apply.next \in DOMAIN apply.keyed
      <4>1. /\ k.key \in Keys /\ lookups[k.f].patch \in Patches
            /\ lookups[k.f].patch.for = k.key /\ lookups[k.f].patch.at = now
        <5>1. /\ k.f \in DOMAIN lookups /\ lookups[k.f].patch.for = k.key
              /\ k \in [key : Keys, f : Nat]
          BY <3>2 DEF EInv, Asked
        <5>2. lookups[k.f] \in Lookup /\ lookups[k.f].patch.at = apply.now
          BY <5>1 DEF EInv, Asked
        <5> QED  BY <3>1, <5>1, <5>2 DEF Lookup
      <4>2. /\ Remember(k.key, k.f) \in Seq(Entry) /\ Kept(Remember(k.key, k.f), now)
            /\ Len(Remember(k.key, k.f)) <= MaxCache
        <5> HIDE DEF k
        <5> QED  BY <3>1, <4>1, RememberKeeps
      <4> QED  BY <2>1, <3>1, <4>2
    <3>3. CASE apply.next \notin DOMAIN apply.keyed
      <4>1. DOMAIN apply.keyed = 1..Len(apply.keyed) /\ Len(apply.keyed) \in Nat
        OBVIOUS
      <4> QED  BY <1>4, <3>3, <4>1
    <3> QED  BY <3>2, <3>3
  <2>4. ETyped'
    BY <1>1, <2>2, <2>3 DEF EInv, ETyped
  <2>5. Asked' /\ Answered' /\ Settling'
    BY <1>1, <2>2 DEF EInv, Asked, Answered, Own, Settling, State
  <2>6. Kept(cache, now)' /\ (Len(cache) <= MaxCache)'
    BY <1>1, <2>3 DEF Kept
  <2> QED  BY <2>4, <2>5, <2>6 DEF EInv
<1> QED  BY <1>3, <1>4

LEMMA ApplyKeepsEInv == EInv /\ ApplyNext => EInv'
<1> SUFFICES ASSUME EInv, ApplyNext PROVE EInv'
  OBVIOUS
<1> USE EParts
<1>1. CASE PlanOne
  <2>1. /\ apply.phase = "planning" /\ UNCHANGED <<now, cache>>
        /\ apply.next \in DOMAIN apply.docs
    BY <1>1 DEF PlanOne
  <2>2. CASE Answer(apply.next) /\ UNCHANGED lookups
    BY <2>1, <2>2, AnswerKeepsEInv
  <2>3. CASE Submit(apply.next)
    BY <2>1, <2>3, SubmitKeepsEInv
  <2> QED  BY <1>1, <2>2, <2>3 DEF PlanOne
<1>2. CASE StartWaiting
  <2> DEFINE left == DOMAIN lookups
  <2>1. /\ apply.phase = "planning" /\ UNCHANGED <<now, cache, lookups>>
        /\ apply' = [apply EXCEPT !.phase = "waiting", !.next = 1, !.left = left]
    BY <1>2 DEF StartWaiting
  <2>2. "waiting" \in Phases \ {"idle"} /\ left \in SUBSET Nat /\ 1 \in Nat \ {0}
    BY DEF Phases
  <2> HIDE DEF left
  <2>3. \A f \in DOMAIN lookups : f \in left
    BY DEF left
  <2> QED  BY <2>1, <2>2, <2>3, MovingOnKeepsEInv
<1>3. ASSUME NEW timeout \in BOOLEAN, StopWaiting(timeout) PROVE EInv'
  <2>1. /\ apply.phase = "waiting" /\ UNCHANGED <<now, cache, lookups>>
        /\ apply' = [apply EXCEPT !.phase = "settling"]
    BY <1>3 DEF StopWaiting
  <2>2. apply' = [apply EXCEPT !.phase = "settling", !.next = apply.next, !.left = apply.left]
    BY <2>1 DEF Call
  <2>3. "settling" \in Phases \ {"idle"} /\ apply.left \in SUBSET Nat /\ apply.next \in Nat \ {0}
    BY DEF Phases
  <2>4. \A f \in DOMAIN lookups : State(f) = "pending" => f \in apply.left
    BY <2>1 DEF EInv, Settling
  <2> QED  BY <2>1, <2>2, <2>3, <2>4, MovingOnKeepsEInv
<1>4. CASE Settled
  <2>1. /\ apply.phase = "settling" /\ apply.left = {} /\ UNCHANGED <<now, cache, lookups>>
        /\ apply' = [apply EXCEPT !.phase = "collecting"]
    BY <1>4 DEF Settled
  <2>2. apply' = [apply EXCEPT !.phase = "collecting", !.next = apply.next, !.left = apply.left]
    BY <2>1 DEF Call
  <2>3. "collecting" \in Phases \ {"idle"} /\ apply.left \in SUBSET Nat /\ apply.next \in Nat \ {0}
    BY DEF Phases
  <2>4. \A f \in DOMAIN lookups : State(f) # "pending"
    BY <2>1 DEF EInv, Settling
  <2>5. apply.phase # "idle" /\ UNCHANGED <<now, cache, lookups>>
    BY <2>1
  <2> QED  BY <2>2, <2>3, <2>4, <2>5, MovingOnKeepsEInv
<1>5. ASSUME NEW f \in DOMAIN lookups, Settle(f) PROVE EInv'
  BY <1>5, SettleKeepsEInv
<1>6. CASE Collect
  BY <1>6, CollectKeepsEInv
<1>7. CASE Recall
  BY <1>7, RecallKeepsEInv
<1> QED  BY <1>1, <1>2, <1>3, <1>4, <1>5, <1>6, <1>7 DEF ApplyNext

\* Nothing in hand: apply has returned to its caller, or the process is new.
LEMMA NothingInHand ==
  ASSUME EInv, apply' = Idle, lookups' = <<>>, UNCHANGED now, cache' \in {cache, <<>>}
  PROVE  EInv'
<1>1. Idle \in Call /\ Idle.phase = "idle" /\ Idle.of = <<>> /\ Idle.docs = <<>> /\ Idle.out = <<>>
  BY DEF Idle, Call, Phases
<1>2. cache' \in Seq(Entry) /\ Kept(cache', now) /\ Len(cache') <= MaxCache
  <2>1. /\ cache \in Seq(Entry) /\ Kept(cache, now) /\ Len(cache) <= MaxCache
    BY DEF EInv, ETyped
  <2>2. <<>> \in Seq(Entry) /\ Kept(<<>>, now) /\ Len(<<>>) <= MaxCache
    BY EnricherAssumption DEF Kept
  <2> QED  BY <2>1, <2>2
<1>3. ETyped'
  BY <1>1, <1>2 DEF EInv, ETyped
<1>4. Asked' /\ Answered' /\ Settling'
  BY DEF Idle, Asked, Answered, Settling
<1>5. Kept(cache, now)'
  BY <1>2 DEF Kept
<1> QED  BY <1>2, <1>3, <1>4, <1>5 DEF EInv

-----------------------------------------------------------------------------
(* The enricher in the sink's writer.                                      *)

PatchInv == /\ EInv
            /\ drained \in Nat /\ writer.docs \in Seq(Docs)

LEMMA PatchInvInit == Init => PatchInv
<1> SUFFICES ASSUME Init PROVE PatchInv
  OBVIOUS
<1>1. EInv
  BY EInvInit DEF Init
<1> QED  BY <1>1 DEF Init, NoBatch, PatchInv

LEMMA PatchInvNext == PatchInv /\ [Next]_vars => PatchInv'
<1> SUFFICES ASSUME PatchInv, [Next]_vars PROVE PatchInv'
  OBVIOUS
<1>0. EInv /\ drained \in Nat /\ writer.docs \in Seq(Docs) /\ Documents \in Seq(Docs)
  BY BatchAssumption DEF PatchInv, Docs
<1>1. UNCHANGED evars => EInv'
  <2> SUFFICES ASSUME UNCHANGED evars PROVE EInv'
    OBVIOUS
  <2>1. UNCHANGED <<now, cache, lookups, apply>>
    BY DEF evars
  <2>2. lookups' \in Seq(Lookup) /\ Len(lookups') = Len(lookups)
    BY <1>0, <2>1, EParts
  <2> QED  BY <1>0, <2>1, <2>2, LookupsGoOn DEF State
<1>2. CASE UNCHANGED vars
  BY <1>0, <1>1, <1>2 DEF vars, bvars, PatchInv
<1>3. CASE (PoolNext \/ ApplyNext) /\ UNCHANGED bvars
  BY <1>0, <1>3, PoolKeepsEInv, ApplyKeepsEInv DEF bvars, PatchInv
<1>4. ASSUME NEW n \in BatchSizes, Drain(n) PROVE PatchInv'
  <2>1. /\ UNCHANGED evars /\ drained' = drained + n /\ drained + n <= Len(Documents)
        /\ writer'.docs = SubSeq(Documents, drained + 1, drained + n)
    BY <1>4 DEF Drain, NoBatch, Upcoming
  <2>2. n \in Nat
    BY BatchAssumption
  <2>3. SubSeq(Documents, drained + 1, drained + n) \in Seq(Docs) /\ drained + n \in Nat
    BY <1>0, <2>1, <2>2
  <2> QED  BY <1>1, <2>1, <2>3 DEF PatchInv
<1>5. CASE Begin
  <2>1. Enter(writer.docs) /\ UNCHANGED drained /\ writer'.docs = writer.docs
    BY <1>5 DEF Begin
  <2> QED  BY <1>0, <2>1, EnterKeepsEInv DEF PatchInv
<1>6. CASE Cancelled \/ Retry \/ (\E n \in 0..Len(writer.lines) : Write(n))
  <2>1. UNCHANGED <<evars, drained>> /\ writer'.docs = <<>>
    <3>1. NoBatch.docs = <<>>
      BY DEF NoBatch
    <3>2. UNCHANGED <<evars, drained>> /\ (writer' = NoBatch \/ Retry)
      BY <1>6, Zenon DEF Cancelled, Retry, Write
    <3> QED  BY <3>1, <3>2 DEF Retry, NoBatch
  <2> QED  BY <1>0, <1>1, <2>1 DEF PatchInv
<1>7. CASE StampOne
  <2>1. UNCHANGED <<evars, drained>> /\ writer'.docs = writer.docs
    BY <1>7 DEF StampOne
  <2> QED  BY <1>0, <1>1, <2>1 DEF PatchInv
<1>8. CASE Prepared
  <2>1. /\ apply' = Idle /\ lookups' = <<>> /\ UNCHANGED <<now, cache, drained>>
        /\ writer'.docs = <<>>
    BY <1>8 DEF Prepared, Return
  <2> QED  BY <1>0, <2>1, NothingInHand DEF PatchInv
<1>9. CASE Restart
  <2>1. /\ apply' = Idle /\ lookups' = <<>> /\ cache' = <<>> /\ UNCHANGED <<now, drained>>
        /\ writer'.docs = <<>>
    BY <1>9 DEF Restart, NoBatch
  <2> QED  BY <1>0, <2>1, NothingInHand DEF PatchInv
<1> QED  BY <1>2, <1>3, <1>4, <1>5, <1>6, <1>7, <1>8, <1>9 DEF Next

\* A batch leaves no lookup behind, and the cache keeps its order and its bound
\* (enricher.py:217-289, with close() at any time).
THEOREM NothingIsLeftBehind == Spec => []NothingLeftBehind
<1>1. PatchInv => NothingLeftBehind
  <2> SUFFICES ASSUME PatchInv PROVE NothingLeftBehind
    OBVIOUS
  <2>1. EInv
    BY DEF PatchInv
  <2>2. apply.phase \in {"idle", "returned"} => \A f \in DOMAIN lookups : State(f) # "pending"
    BY <2>1 DEF EInv, Settling
  <2>3. Kept(cache, now) /\ Len(cache) <= MaxCache
    BY <2>1 DEF EInv
  <2> QED  BY <2>2, <2>3 DEF Kept, NothingLeftBehind
<1> QED  BY <1>1, PatchInvInit, PatchInvNext, PTL DEF Spec

\* FR-55: whatever the workers, the deadline, the cache and close() do, a document
\* carries the patch that was looked up for it.
THEOREM PatchesAreTheirOwn == Spec => []PatchIsItsOwn
<1>1. PatchInv => PatchIsItsOwn
  BY DEF PatchInv, EInv, Answered, Own, PatchIsItsOwn
<1> QED  BY <1>1, PatchInvInit, PatchInvNext, PTL DEF Spec

-----------------------------------------------------------------------------
(* Induction, stated over a set, the values for which the claim holds; it  *)
(* follows from the well-foundedness of the naturals.                      *)

LEMMA Minimal ==
  ASSUME NEW R, NEW U, IsWellFoundedOn(R, U), NEW S, S \subseteq U, S # {}
  PROVE  \E n \in S : \A m \in S : <<m, n>> \notin R
  BY WFMin

LEMMA NaturalsDescend ==
  \E R : IsWellFoundedOn(R, Nat) /\ \A x, y \in Nat : x < y => <<x, y>> \in R
<1>1. \A x, y \in Nat : x < y => <<x, y>> \in OpToRel(<, Nat)
  BY DEF OpToRel
<1> QED  BY <1>1, NatLessThanWellFounded, Zenon

LEMMA Least ==
  ASSUME NEW S, S \subseteq Nat, S # {}
  PROVE  \E n \in S : \A m \in S : n <= m
<1>1. PICK R : IsWellFoundedOn(R, Nat) /\ \A x, y \in Nat : x < y => <<x, y>> \in R
  BY NaturalsDescend, Zenon
<1>2. PICK n \in S : \A m \in S : <<m, n>> \notin R
  <2>1. IsWellFoundedOn(R, Nat)
    BY <1>1
  <2> QED  BY <2>1, Minimal
<1>3. ASSUME NEW m \in S PROVE n <= m
  <2>1. m \in Nat /\ n \in Nat
    OBVIOUS
  <2>2. ~(m < n)
    BY <1>1, <1>2, <2>1, Zenon
  <2> QED  BY <2>1, <2>2
<1> QED  BY <1>3

\* A set of naturals with 0 and the successors of its members has them all.
LEMMA Induction ==
  ASSUME NEW S, 0 \in S, \A n \in Nat : n \in S => n + 1 \in S
  PROVE  Nat \subseteq S
<1> SUFFICES ASSUME ~ Nat \subseteq S PROVE FALSE
  OBVIOUS
<1>1. PICK n \in Nat \ S : \A m \in Nat \ S : n <= m
  BY Least
<1>2. n - 1 \in Nat /\ n - 1 \notin Nat \ S
  BY <1>1
<1> QED  BY <1>1, <1>2

\* A set of subsets of S has them all when it has the empty one, and every one
\* of which it has all those with one element less.
LEMMA SubsetInduction ==
  ASSUME NEW S, IsFiniteSet(S), NEW G, {} \in G,
         \A s \in SUBSET S : s # {} /\ (\A x \in s : s \ {x} \in G) => s \in G
  PROVE  SUBSET S \subseteq G
<1> DEFINE Bad == (SUBSET S) \ G
           Sizes == {n \in Nat : \E s \in Bad : Cardinality(s) = n}
<1> SUFFICES ASSUME Bad # {} PROVE FALSE
  OBVIOUS
<1>1. \A s \in SUBSET S : IsFiniteSet(s) /\ Cardinality(s) \in Nat
  BY FS_Subset, FS_CardinalityType
<1>2. Sizes # {} /\ Sizes \subseteq Nat
  BY <1>1
<1>3. PICK n \in Sizes : \A m \in Sizes : n <= m
  BY <1>2, Least
<1>4. PICK s \in Bad : Cardinality(s) = n
  BY <1>3
<1>5. PICK x \in s : s \ {x} \notin G
  OBVIOUS
<1>6. Cardinality(s \ {x}) = n - 1 /\ s \ {x} \in Bad /\ n - 1 \in Nat
  <2>1. Cardinality(s \ {x}) = Cardinality(s) - 1 /\ s \ {x} \in SUBSET S
    BY <1>1, FS_RemoveElement
  <2>2. Cardinality(s \ {x}) \in Nat
    BY <1>1, <2>1
  <2> QED  BY <1>4, <1>5, <2>1, <2>2
<1> QED  BY <1>3, <1>6

-----------------------------------------------------------------------------
(* verify: the order of a chain.                                           *)

\* Positions of documents whose integrity blocks have a number.
Numbered(docs, P) == /\ IsFiniteSet(P) /\ P \subseteq Nat
                     /\ \A i \in P : docs[i].integ.seq \in Nat \ {0}

LEMMA LastExists ==
  ASSUME NEW docs, NEW P, Numbered(docs, P)
  PROVE  \A S \in SUBSET P : S # {} =>
           /\ LastOf(docs, S) \in S /\ \A j \in S : InOrder(docs, j, LastOf(docs, S))
           /\ FirstOf(docs, S) \in S /\ \A j \in S : InOrder(docs, FirstOf(docs, S), j)
<1> DEFINE G == {S \in SUBSET P : S # {} => /\ \E i \in S : \A j \in S : InOrder(docs, j, i)
                                           /\ \E i \in S : \A j \in S : InOrder(docs, i, j)}
<1>1. {} \in G
  OBVIOUS
<1>2. \A i, j, k \in P : /\ InOrder(docs, i, i)
                         /\ InOrder(docs, i, j) \/ InOrder(docs, j, i)
                         /\ InOrder(docs, i, j) /\ InOrder(docs, j, k) => InOrder(docs, i, k)
  BY DEF Numbered, InOrder
<1>3. ASSUME NEW S \in SUBSET P, S # {}, \A x \in S : S \ {x} \in G PROVE S \in G
  <2>1. PICK x \in S : TRUE
    BY <1>3
  <2>2. CASE S \ {x} = {}
    <3>1. \A j \in S : j = x
      BY <2>2
    <3>2. InOrder(docs, x, x)
      BY <1>2, <2>1
    <3>3. (\A j \in S : InOrder(docs, j, x)) /\ (\A j \in S : InOrder(docs, x, j))
      BY <3>1, <3>2, Zenon
    <3> QED  BY <2>1, <3>3
  <2>3. CASE S \ {x} # {}
    <3>1. /\ \E i \in S \ {x} : \A j \in S \ {x} : InOrder(docs, j, i)
          /\ \E i \in S \ {x} : \A j \in S \ {x} : InOrder(docs, i, j)
      BY <1>3, <2>1, <2>3
    <3>2. PICK a \in S \ {x} : \A j \in S \ {x} : InOrder(docs, j, a)
      BY <3>1
    <3>3. PICK b \in S \ {x} : \A j \in S \ {x} : InOrder(docs, b, j)
      BY <3>1
    <3>4. \E i \in S : \A j \in S : InOrder(docs, j, i)
      <4>1. CASE InOrder(docs, x, a)
        BY <3>2, <4>1
      <4>2. CASE InOrder(docs, a, x)
        <5>1. \A j \in S : InOrder(docs, j, x)
          BY <1>2, <2>1, <3>2, <4>2
        <5> QED  BY <2>1, <5>1
      <4> QED  BY <1>2, <2>1, <3>2, <4>1, <4>2
    <3>5. \E i \in S : \A j \in S : InOrder(docs, i, j)
      <4>1. CASE InOrder(docs, b, x)
        BY <3>3, <4>1
      <4>2. CASE InOrder(docs, x, b)
        <5>1. \A j \in S : InOrder(docs, x, j)
          BY <1>2, <2>1, <3>3, <4>2
        <5> QED  BY <2>1, <5>1
      <4> QED  BY <1>2, <2>1, <3>3, <4>1, <4>2
    <3> QED  BY <3>4, <3>5
  <2> QED  BY <2>2, <2>3
<1> HIDE DEF G
<1>4. SUBSET P \subseteq G
  <2>1. IsFiniteSet(P)
    BY DEF Numbered
  <2> QED  BY <1>1, <1>3, <2>1, SubsetInduction
<1>5. ASSUME NEW S \in SUBSET P, S # {}
      PROVE  /\ LastOf(docs, S) \in S /\ \A j \in S : InOrder(docs, j, LastOf(docs, S))
             /\ FirstOf(docs, S) \in S /\ \A j \in S : InOrder(docs, FirstOf(docs, S), j)
  <2>1. /\ \E i \in S : \A j \in S : InOrder(docs, j, i)
        /\ \E i \in S : \A j \in S : InOrder(docs, i, j)
    BY <1>4, <1>5 DEF G
  <2>2. LastOf(docs, S) \in S /\ \A j \in S : InOrder(docs, j, LastOf(docs, S))
    BY <2>1, Zenon DEF LastOf
  <2>3. FirstOf(docs, S) \in S /\ \A j \in S : InOrder(docs, FirstOf(docs, S), j)
    BY <2>1, Zenon DEF FirstOf
  <2> QED  BY <2>2, <2>3
<1> QED  BY <1>5

-----------------------------------------------------------------------------
(* verify: the walk over a chain.                                          *)

WalkStep(docs, first, F, S) ==
  IF S = {} THEN Anchor(docs[first].integ)
  ELSE Checked(F[S \ {LastOf(docs, S)}], docs[LastOf(docs, S)])

\* F has what the walk over every part of P ends with.
Walks(F, docs, first, P) == F = [S \in SUBSET P |-> WalkStep(docs, first, F, S)]

LEMMA WalksExist ==
  ASSUME NEW docs, NEW first, NEW P, Numbered(docs, P)
  PROVE  \E F : Walks(F, docs, first, P)
<1> DEFINE Small(n) == {S \in SUBSET P : Cardinality(S) <= n}
           N == {n \in Nat : \E F : F = [S \in Small(n) |-> WalkStep(docs, first, F, S)]}
<1>0. IsFiniteSet(P)
  BY DEF Numbered
<1>1. \A S \in SUBSET P : /\ IsFiniteSet(S) /\ Cardinality(S) \in Nat
                          /\ Cardinality(S) <= Cardinality(P)
                          /\ Cardinality(S) = 0 <=> S = {}
  BY <1>0, FS_Subset, FS_CardinalityType, FS_EmptySet
<1>2. 0 \in N
  <2> DEFINE F == [S \in Small(0) |-> Anchor(docs[first].integ)]
  <2>1. \A S \in Small(0) : S = {}
    BY <1>1
  <2>2. F = [S \in Small(0) |-> WalkStep(docs, first, F, S)]
    BY <2>1 DEF WalkStep
  <2> QED  BY <2>2
<1>3. ASSUME NEW n \in N PROVE n + 1 \in N
  <2>1. PICK F : F = [S \in Small(n) |-> WalkStep(docs, first, F, S)]
    BY <1>3
  <2> DEFINE G == [S \in Small(n + 1) |-> WalkStep(docs, first, F, S)]
  <2>2. ASSUME NEW S \in Small(n + 1)
        PROVE  WalkStep(docs, first, G, S) = WalkStep(docs, first, F, S)
    <3>1. CASE S = {}
      BY <3>1 DEF WalkStep
    <3>2. CASE S # {}
      <4> DEFINE x == LastOf(docs, S)
      <4>1. x \in S
        BY <3>2, LastExists
      <4>2. S \ {x} \in Small(n)
        <5>1. Cardinality(S \ {x}) = Cardinality(S) - 1
          BY <1>1, <4>1, FS_RemoveElement
        <5> QED  BY <1>1, <5>1
      <4>3. S \ {x} \in Small(n + 1)
        BY <1>1, <4>2
      <4>4. G[S \ {x}] = F[S \ {x}]
        BY <2>1, <4>2, <4>3
      <4> QED  BY <4>4 DEF WalkStep
    <3> QED  BY <3>1, <3>2
  <2>3. G = [S \in Small(n + 1) |-> WalkStep(docs, first, G, S)]
    BY <2>2
  <2>4. n + 1 \in Nat
    OBVIOUS
  <2> HIDE DEF G
  <2> QED  BY <2>3, <2>4, Zenon
<1>4. Cardinality(P) \in N
  <2> HIDE DEF N
  <2>1. Nat \subseteq N
    BY <1>2, <1>3, Induction
  <2> QED  BY <1>1, <2>1
<1>5. Small(Cardinality(P)) = SUBSET P
  BY <1>1
<1> QED  BY <1>4, <1>5 DEF Walks

LEMMA WalkByDefinition ==
  ASSUME NEW docs, NEW id, Numbered(docs, Entries(docs, id))
  PROVE  \E F : /\ Walks(F, docs, FirstOf(docs, Entries(docs, id)), Entries(docs, id))
               /\ Broken(docs, id) = F[Entries(docs, id)].broken
<1> DEFINE P == Entries(docs, id)
           first == FirstOf(docs, P)
<1>1. PICK F : Walks(F, docs, first, P) /\ F = CHOOSE G : Walks(G, docs, first, P)
  <2> HIDE DEF P, first
  <2>1. Numbered(docs, P)
    BY DEF P
  <2>2. \E F : Walks(F, docs, first, P)
    BY <2>1, WalksExist
  <2> QED  BY <2>2
<1>2. Broken(docs, id) = (CHOOSE G : Walks(G, docs, first, P))[P].broken
  BY DEF Broken, MapThenFoldSet, Walks, WalkStep
<1> QED  BY <1>1, <1>2

-----------------------------------------------------------------------------
(* verify: what it accepts, in terms of no order.                          *)

Intact(d) == d.integ.hash = Hash(d.integ.chain, d.integ.seq, d.integ.prev_hash, d.content)

Follows(d, e) == d.integ.seq = e.integ.seq + 1 /\ d.integ.prev_hash = e.integ.hash

\* Each is what was hashed, no number comes twice, and each but the first follows one.
Linked(docs, S, first) ==
  /\ \A i \in S : Intact(docs[i])
  /\ \A i, j \in S : i # j => docs[i].integ.seq # docs[j].integ.seq
  /\ \A i \in S : i = first \/ \E j \in S : Follows(docs[i], docs[j])
  /\ docs[first].integ.seq = 1 => docs[first].integ.prev_hash = GENESIS

IsAccount(acc) ==
  acc = [expected |-> acc.expected, prev |-> acc.prev, broken |-> acc.broken]

LEMMA CheckedExactly ==
  ASSUME NEW acc, IsAccount(acc), NEW d, d.integ.seq \in Nat \ {0}
  PROVE  /\ IsAccount(Checked(acc, d))
         /\ acc.broken # {} => Checked(acc, d).broken # {}
         /\ acc.broken = {} /\ acc.expected \in Nat =>
              /\ Checked(acc, d).broken = {} <=>
                   Intact(d) /\ d.integ.seq = acc.expected /\ d.integ.prev_hash = acc.prev
              /\ Checked(acc, d).broken = {} =>
                   Checked(acc, d).expected = d.integ.seq + 1 /\ Checked(acc, d).prev = d.integ.hash
<1> DEFINE i == d.integ
           mismatch == IF Intact(d) THEN {} ELSE {<<i.seq, "hash mismatch">>}
           link == CASE i.seq > acc.expected -> {<<i.seq, "seq gap">>}
                     [] i.seq = acc.expected /\ i.prev_hash # acc.prev -> {<<i.seq, "prev mismatch">>}
                     [] OTHER -> {}
<1>1. CASE i.seq < acc.expected
  <2>1. Checked(acc, d) = [acc EXCEPT !.broken = acc.broken \cup mismatch \cup {<<i.seq, "seq repeat">>}]
    BY <1>1 DEF Checked, Intact
  <2> DEFINE found == acc.broken \cup mismatch \cup {<<i.seq, "seq repeat">>}
             new == [expected |-> acc.expected, prev |-> acc.prev, broken |-> found]
  <2>2. found # {}
    OBVIOUS
  <2> HIDE DEF found
  <2>3. Checked(acc, d) = new
    BY <2>1 DEF IsAccount, found
  <2>5. new.broken = found /\ IsAccount(new)
    BY DEF IsAccount
  <2>6. IsAccount(Checked(acc, d)) /\ Checked(acc, d).broken # {}
    BY <2>2, <2>3, <2>5
  <2>4. acc.expected \in Nat => i.seq # acc.expected
    BY <1>1
  <2> QED  BY <2>4, <2>6
<1>2. CASE ~(i.seq < acc.expected)
  <2>1. Checked(acc, d) = [expected |-> i.seq + 1, prev |-> i.hash,
                           broken |-> acc.broken \cup mismatch \cup link]
    BY <1>2 DEF Checked, Intact
  <2>2. IsAccount(Checked(acc, d)) /\ Checked(acc, d).broken = acc.broken \cup mismatch \cup link
        /\ Checked(acc, d).expected = i.seq + 1 /\ Checked(acc, d).prev = i.hash
    <3> HIDE DEF mismatch, link
    <3> DEFINE found == acc.broken \cup mismatch \cup link
               new == [expected |-> i.seq + 1, prev |-> i.hash, broken |-> found]
    <3>1. Checked(acc, d) = new
      BY <2>1
    <3> HIDE DEF found
    <3>2. IsAccount(new) /\ new.broken = found /\ new.expected = i.seq + 1 /\ new.prev = i.hash
      BY DEF IsAccount
    <3> HIDE DEF new
    <3> QED  BY <3>1, <3>2 DEF found
  <2>3. mismatch = {} <=> Intact(d)
    OBVIOUS
  <2>4. acc.expected \in Nat => (link = {} <=> i.seq = acc.expected /\ i.prev_hash = acc.prev)
    <3> SUFFICES ASSUME acc.expected \in Nat
                 PROVE  link = {} <=> i.seq = acc.expected /\ i.prev_hash = acc.prev
      OBVIOUS
    <3>1. i.seq \in Nat /\ (i.seq > acc.expected \/ i.seq = acc.expected)
      BY <1>2
    <3>2. CASE i.seq > acc.expected
      <4>1. i.seq # acc.expected
        BY <3>1, <3>2
      <4>2. link = {<<i.seq, "seq gap">>}
        BY <3>2, <4>1
      <4> HIDE DEF link
      <4> QED  BY <4>1, <4>2
    <3>3. CASE i.seq = acc.expected
      <4>1. ~(i.seq > acc.expected)
        BY <3>1, <3>3
      <4> QED  BY <3>3, <4>1
    <3> QED  BY <3>1, <3>2, <3>3
  <2> HIDE DEF mismatch, link
  <2> QED  BY <2>2, <2>3, <2>4
<1> QED  BY <1>1, <1>2

\* The last of a linked part follows the last of the others.
LEMMA LinkedByLast ==
  ASSUME NEW docs, NEW P, Numbered(docs, P), NEW S \in SUBSET P, NEW first \in S,
         \A j \in S : InOrder(docs, first, j),
         NEW i \in S, \A j \in S : InOrder(docs, j, i), i # first,
         NEW k \in S \ {i}, \A j \in S \ {i} : InOrder(docs, j, k)
  PROVE  Linked(docs, S, first) <=>
           Linked(docs, S \ {i}, first) /\ Intact(docs[i]) /\ Follows(docs[i], docs[k])
<1> DEFINE T == S \ {i}
<1>0. /\ \A j \in S : docs[j].integ.seq \in Nat \ {0}
      /\ \A j \in S : docs[j].integ.seq <= docs[i].integ.seq
      /\ \A j \in T : docs[j].integ.seq <= docs[k].integ.seq
  <2>1. \A j \in S : docs[j].integ.seq \in Nat \ {0}
    BY DEF Numbered
  <2>2. \A j \in S : docs[j].integ.seq <= docs[i].integ.seq
    BY <2>1 DEF InOrder
  <2>3. \A j \in T : docs[j].integ.seq <= docs[k].integ.seq
    BY <2>1 DEF InOrder
  <2> QED  BY <2>1, <2>2, <2>3
<1>1. ASSUME Linked(docs, S, first) PROVE Follows(docs[i], docs[k]) /\ Intact(docs[i])
  <2>1. PICK j \in S : Follows(docs[i], docs[j])
    BY <1>1 DEF Linked
  <2>2. docs[i].integ.seq = docs[j].integ.seq + 1
    BY <2>1 DEF Follows
  <2>3. j \in T
    BY <1>0, <2>2
  <2>4. docs[k].integ.seq # docs[i].integ.seq
    BY <1>1 DEF Linked
  <2>5. docs[k].integ.seq = docs[j].integ.seq
    BY <1>0, <2>2, <2>3, <2>4
  <2>6. k = j
    BY <1>1, <2>5 DEF Linked
  <2> QED  BY <1>1, <2>1, <2>6 DEF Linked
<1>2. ASSUME Linked(docs, S, first) PROVE Linked(docs, T, first)
  <2>1. ASSUME NEW m \in T, m # first PROVE \E j \in T : Follows(docs[m], docs[j])
    <3>1. PICK j \in S : Follows(docs[m], docs[j])
      BY <1>2, <2>1 DEF Linked
    <3>2. docs[m].integ.seq = docs[j].integ.seq + 1
      BY <3>1 DEF Follows
    <3>3. j # i
      BY <1>0, <3>2
    <3> QED  BY <3>1, <3>3
  <2> QED  BY <1>2, <2>1 DEF Linked
<1>3. ASSUME Linked(docs, T, first), Intact(docs[i]), Follows(docs[i], docs[k])
      PROVE  Linked(docs, S, first)
  <2>1. \A j \in T : docs[j].integ.seq # docs[i].integ.seq
    <3>1. docs[i].integ.seq = docs[k].integ.seq + 1
      BY <1>3 DEF Follows
    <3> QED  BY <1>0, <3>1
  <2>2. \A a, b \in S : a # b => docs[a].integ.seq # docs[b].integ.seq
    BY <1>3, <2>1 DEF Linked
  <2>3. \A a \in S : Intact(docs[a])
    BY <1>3 DEF Linked
  <2>4. \A a \in S : a = first \/ \E j \in S : Follows(docs[a], docs[j])
    BY <1>3 DEF Linked
  <2> QED  BY <1>3, <2>2, <2>3, <2>4 DEF Linked
<1> QED  BY <1>1, <1>2, <1>3

LEMMA WalkExactly ==
  ASSUME NEW docs, NEW P, Numbered(docs, P), P # {}, NEW first, first = FirstOf(docs, P),
         NEW F, Walks(F, docs, first, P)
  PROVE  F[P].broken = {} <=> Linked(docs, P, first)
<1> DEFINE Exact(S) == /\ F[S].broken = {} <=> Linked(docs, S, first)
                       /\ F[S].broken = {} => /\ F[S].expected = docs[LastOf(docs, S)].integ.seq + 1
                                              /\ F[S].prev = docs[LastOf(docs, S)].integ.hash
           G == {S \in SUBSET P : IsAccount(F[S]) /\ (first \in S => Exact(S))}
<1>1. F[{}] = Anchor(docs[first].integ)
  <2>1. {} \in SUBSET P
    OBVIOUS
  <2> QED  BY <2>1 DEF Walks, WalkStep
<1>2. /\ IsAccount(F[{}]) /\ F[{}].broken = {}
      /\ F[{}].expected = docs[first].integ.seq
      /\ F[{}].prev = IF docs[first].integ.seq > 1 THEN docs[first].integ.prev_hash ELSE GENESIS
  BY <1>1 DEF Anchor, IsAccount
<1>3. first \in P /\ \A j \in P : InOrder(docs, first, j)
  BY LastExists
<1>4. ASSUME NEW S \in SUBSET P, S # {}, \A x \in S : S \ {x} \in G PROVE S \in G
  <2> DEFINE i == LastOf(docs, S)
             T == S \ {i}
  <2>1. i \in S /\ \A j \in S : InOrder(docs, j, i)
    BY <1>4, LastExists
  <2>2. F[S] = Checked(F[T], docs[i])
    BY <1>4 DEF Walks, WalkStep
  <2>3. T \in G /\ docs[i].integ.seq \in Nat \ {0}
    BY <1>4, <2>1 DEF Numbered
  <2> HIDE DEF i
  <2>4. IsAccount(F[T]) /\ IsAccount(F[S])
    <3>1. IsAccount(F[T])
      BY <2>3
    <3> QED  BY <2>2, <2>3, <3>1, CheckedExactly
  <2>5. /\ F[T].broken # {} => F[S].broken # {}
        /\ F[T].broken = {} /\ F[T].expected \in Nat =>
             /\ F[S].broken = {} <=>
                  /\ Intact(docs[i]) /\ docs[i].integ.seq = F[T].expected
                  /\ docs[i].integ.prev_hash = F[T].prev
             /\ F[S].broken = {} => /\ F[S].expected = docs[i].integ.seq + 1
                                    /\ F[S].prev = docs[i].integ.hash
    <3> DEFINE acc == F[T]
               d == docs[i]
    <3>1. IsAccount(acc) /\ d.integ.seq \in Nat \ {0}
      BY <2>3, <2>4
    <3> HIDE DEF acc, d
    <3>2. /\ acc.broken # {} => Checked(acc, d).broken # {}
          /\ acc.broken = {} /\ acc.expected \in Nat =>
               /\ Checked(acc, d).broken = {} <=>
                    Intact(d) /\ d.integ.seq = acc.expected /\ d.integ.prev_hash = acc.prev
               /\ Checked(acc, d).broken = {} =>
                    Checked(acc, d).expected = d.integ.seq + 1 /\ Checked(acc, d).prev = d.integ.hash
      BY <3>1, CheckedExactly
    <3>3. F[S] = Checked(acc, d)
      BY <2>2 DEF acc, d
    <3>4. acc = F[T] /\ d = docs[i]
      BY DEF acc, d
    <3> HIDE DEF T
    <3> QED  BY <3>2, <3>3, <3>4
  <2>6. ASSUME first \in S PROVE Exact(S)
    <3>1. CASE i = first
      <4>1. ASSUME NEW j \in S PROVE j = first
        <5>1. InOrder(docs, first, j) /\ InOrder(docs, j, first)
          BY <1>3, <2>1, <3>1
        <5>2. docs[j].integ.seq \in Nat /\ docs[first].integ.seq \in Nat /\ j \in Nat /\ first \in Nat
          BY <1>3 DEF Numbered
        <5> QED  BY <5>1, <5>2 DEF InOrder
      <4>2. T = {} /\ S = {first}
        BY <2>1, <3>1, <4>1
      <4>3. /\ F[S].broken = {} <=>
                 /\ Intact(docs[first])
                 /\ docs[first].integ.seq > 1 \/ docs[first].integ.prev_hash = GENESIS
            /\ F[S].broken = {} => /\ F[S].expected = docs[i].integ.seq + 1
                                   /\ F[S].prev = docs[i].integ.hash
        BY <1>2, <2>3, <2>5, <3>1, <4>2
      <4>4. docs[first].integ.seq > 1 <=> docs[first].integ.seq # 1
        BY <2>3, <3>1
      <4>5. Linked(docs, S, first) <=>
              /\ Intact(docs[first])
              /\ docs[first].integ.seq # 1 \/ docs[first].integ.prev_hash = GENESIS
        BY <4>2 DEF Linked
      <4> QED  BY <4>3, <4>4, <4>5 DEF i
    <3>2. CASE i # first
      <4> DEFINE k == LastOf(docs, T)
      <4>1. first \in T /\ T \in SUBSET P
        BY <2>6, <3>2
      <4>2. k \in T /\ \A j \in T : InOrder(docs, j, k)
        <5> HIDE DEF T
        <5> QED  BY <4>1, LastExists
      <4> HIDE DEF k
      <4>3. /\ F[T].broken = {} <=> Linked(docs, T, first)
            /\ F[T].broken = {} => /\ F[T].expected = docs[k].integ.seq + 1
                                   /\ F[T].prev = docs[k].integ.hash
        BY <2>3, <4>1 DEF k
      <4>4. docs[k].integ.seq + 1 \in Nat
        BY <4>2 DEF Numbered
      <4>5. Linked(docs, S, first) <=>
              Linked(docs, T, first) /\ Intact(docs[i]) /\ Follows(docs[i], docs[k])
        <5>1. \A j \in S : InOrder(docs, first, j)
          BY <1>3
        <5> QED  BY <2>1, <2>6, <3>2, <4>2, <5>1, LinkedByLast
      <4>6. F[S].broken = {} <=> F[T].broken = {} /\ Intact(docs[i]) /\ Follows(docs[i], docs[k])
        BY <2>5, <4>3, <4>4 DEF Follows
      <4>7. F[S].broken = {} => /\ F[S].expected = docs[i].integ.seq + 1
                                /\ F[S].prev = docs[i].integ.hash
        BY <2>5, <4>3, <4>4
      <4> QED  BY <4>3, <4>5, <4>6, <4>7 DEF i
    <3> QED  BY <3>1, <3>2
  <2> QED  BY <2>4, <2>6
<1>5. {} \in G
  BY <1>2
<1> HIDE DEF G
<1>6. SUBSET P \subseteq G
  <2>1. IsFiniteSet(P)
    BY DEF Numbered
  <2> QED  BY <1>4, <1>5, <2>1, SubsetInduction
<1>7. P \in G
  BY <1>6
<1> QED  BY <1>3, <1>7 DEF G


\* What verify says of documents, without its walk: each stamped one is what was
\* hashed, has a number of its own, and is the first of its chain that is left or
\* follows another.
Legible(docs) ==
  /\ \E n \in Nat : DOMAIN docs = 1..n
  /\ \A i \in StampedAt(docs) : docs[i].integ.seq \in Nat \ {0}

Whole(docs) ==
  \A i \in StampedAt(docs) :
    LET kin == Entries(docs, docs[i].integ.chain) IN
    /\ Intact(docs[i])
    /\ \A j \in kin : j # i => docs[j].integ.seq # docs[i].integ.seq
    /\ \/ \A j \in kin : docs[i].integ.seq <= docs[j].integ.seq
       \/ \E j \in kin : Follows(docs[i], docs[j])
    /\ docs[i].integ.seq = 1 => docs[i].integ.prev_hash = GENESIS

LEMMA LegibleEntries ==
  ASSUME NEW docs, Legible(docs), NEW id
  PROVE  Numbered(docs, Entries(docs, id))
<1>1. PICK n \in Nat : DOMAIN docs = 1..n
  BY DEF Legible
<1>2. IsFiniteSet(1..n) /\ Entries(docs, id) \subseteq 1..n
  BY <1>1, FS_Interval DEF Entries, StampedAt
<1>3. IsFiniteSet(Entries(docs, id))
  BY <1>2, FS_Subset
<1>4. \A i \in Entries(docs, id) : docs[i].integ.seq \in Nat \ {0}
  BY DEF Entries, Legible
<1> QED  BY <1>2, <1>3, <1>4 DEF Numbered

\* verify (integrity.py:102-147) finds documents in order exactly when they are whole.
THEOREM VerifiesExactly ==
  ASSUME NEW docs, Legible(docs)
  PROVE  Verifies(docs) <=> Whole(docs)
<1>1. ASSUME NEW id \in Chains(docs)
      PROVE  /\ Entries(docs, id) # {}
             /\ Numbered(docs, Entries(docs, id))
             /\ Broken(docs, id) = {} <=>
                  Linked(docs, Entries(docs, id), FirstOf(docs, Entries(docs, id)))
  <2> DEFINE P == Entries(docs, id)
             first == FirstOf(docs, P)
  <2>1. P # {}
    BY DEF Chains, Entries
  <2>2. Numbered(docs, P)
    BY LegibleEntries
  <2>3. PICK F : Walks(F, docs, first, P) /\ Broken(docs, id) = F[P].broken
    BY <2>2, WalkByDefinition
  <2>4. F[P].broken = {} <=> Linked(docs, P, first)
    <3> DEFINE f == first
    <3>1. f = FirstOf(docs, P) /\ Walks(F, docs, f, P)
      BY <2>3
    <3> HIDE DEF f, P
    <3>2. F[P].broken = {} <=> Linked(docs, P, f)
      BY <2>1, <2>2, <3>1, WalkExactly
    <3> QED  BY <3>2 DEF f
  <2> QED  BY <2>1, <2>2, <2>3, <2>4
<1>2. ASSUME Verifies(docs), NEW i \in StampedAt(docs)
      PROVE  LET kin == Entries(docs, docs[i].integ.chain) IN
             /\ Intact(docs[i])
             /\ \A j \in kin : j # i => docs[j].integ.seq # docs[i].integ.seq
             /\ \/ \A j \in kin : docs[i].integ.seq <= docs[j].integ.seq
                \/ \E j \in kin : Follows(docs[i], docs[j])
             /\ docs[i].integ.seq = 1 => docs[i].integ.prev_hash = GENESIS
  <2> DEFINE id == docs[i].integ.chain
             P == Entries(docs, id)
             first == FirstOf(docs, P)
  <2>1. id \in Chains(docs) /\ i \in P
    BY DEF Chains, Entries
  <2>2. Numbered(docs, P) /\ Linked(docs, P, first) /\ P # {}
    BY <1>1, <1>2, <2>1 DEF Verifies
  <2> HIDE DEF P
  <2>3. first \in P /\ \A j \in P : InOrder(docs, first, j)
    <3>1. P \in SUBSET P
      OBVIOUS
    <3> QED  BY <2>2, <3>1, LastExists
  <2> HIDE DEF first
  <2>4. \A j \in P : docs[first].integ.seq <= docs[j].integ.seq /\ docs[j].integ.seq \in Nat \ {0}
    <3>1. \A j \in P : docs[j].integ.seq \in Nat \ {0}
      BY <2>2 DEF Numbered
    <3> QED  BY <2>3, <3>1 DEF InOrder
  <2>5. \A j \in P : j # i => docs[j].integ.seq # docs[i].integ.seq
    BY <2>1, <2>2 DEF Linked
  <2>6. \/ \A j \in P : docs[i].integ.seq <= docs[j].integ.seq
        \/ \E j \in P : Follows(docs[i], docs[j])
    BY <2>1, <2>2, <2>4 DEF Linked
  <2>7. ASSUME docs[i].integ.seq = 1 PROVE docs[i].integ.prev_hash = GENESIS
    <3>1. docs[first].integ.seq = 1
      BY <2>1, <2>3, <2>4, <2>7
    <3>2. first = i
      BY <2>3, <2>5, <2>7, <3>1
    <3> QED  BY <2>2, <2>7, <3>2 DEF Linked
  <2> QED  BY <2>1, <2>2, <2>5, <2>6, <2>7 DEF Linked, P
<1>3. ASSUME Whole(docs), NEW id \in Chains(docs) PROVE Broken(docs, id) = {}
  <2> DEFINE P == Entries(docs, id)
             first == FirstOf(docs, P)
  <2>1. Numbered(docs, P) /\ P # {}
    BY <1>1
  <2>2. \A i \in P : i \in StampedAt(docs) /\ Entries(docs, docs[i].integ.chain) = P
    BY DEF Entries
  <2>3. \A i \in P : /\ Intact(docs[i])
                     /\ \A j \in P : j # i => docs[j].integ.seq # docs[i].integ.seq
                     /\ \/ \A j \in P : docs[i].integ.seq <= docs[j].integ.seq
                        \/ \E j \in P : Follows(docs[i], docs[j])
                     /\ docs[i].integ.seq = 1 => docs[i].integ.prev_hash = GENESIS
    <3> HIDE DEF P
    <3> QED  BY <1>3, <2>2 DEF Whole
  <2>4. Broken(docs, id) = {} <=> Linked(docs, P, first)
    BY <1>1
  <2> HIDE DEF P
  <2>5. first \in P /\ \A j \in P : InOrder(docs, first, j)
    <3>1. P \in SUBSET P
      OBVIOUS
    <3> QED  BY <2>1, <3>1, LastExists
  <2> HIDE DEF first
  <2>6. \A j \in P : docs[first].integ.seq <= docs[j].integ.seq /\ docs[j].integ.seq \in Nat \ {0}
    <3>1. \A j \in P : docs[j].integ.seq \in Nat \ {0}
      BY <2>1 DEF Numbered
    <3> QED  BY <2>5, <3>1 DEF InOrder
  <2>7. ASSUME NEW i \in P, i # first PROVE \E j \in P : Follows(docs[i], docs[j])
    <3>1. docs[first].integ.seq # docs[i].integ.seq
      BY <2>3, <2>5, <2>7
    <3>2. ~(docs[i].integ.seq <= docs[first].integ.seq)
      BY <2>5, <2>6, <3>1
    <3> QED  BY <2>3, <2>5, <3>2
  <2>8. Linked(docs, P, first)
    BY <2>3, <2>5, <2>7 DEF Linked
  <2> QED  BY <2>4, <2>8
<1>4. Verifies(docs) => Whole(docs)
  BY <1>2 DEF Whole
<1> QED  BY <1>3, <1>4 DEF Verifies


-----------------------------------------------------------------------------
(* What was stamped: the lines, and what is noticed when they are changed. *)

IsBlock(b) ==
  /\ b = [chain |-> b.chain, seq |-> b.seq, prev_hash |-> b.prev_hash, hash |-> b.hash]
  /\ b.chain \in Nat /\ b.seq \in Nat \ {0}

IsContent(c) ==
  /\ c = [id |-> c.id, tags |-> c.tags, skewed |-> FALSE, stream |-> c.stream]
  /\ c.tags \in {<<>>, <<"enrich_timeout">>}

IsLine(l) ==
  /\ l = [content |-> l.content, integ |-> l.integ] /\ IsContent(l.content)
  /\ l.integ # Unstamped => IsBlock(l.integ) /\ Intact(l)

AreLines(s) == s \in Seq(Range(s)) /\ \A i \in DOMAIN s : IsLine(s[i])

LEMMA LinesAreLegible ==
  ASSUME NEW docs, AreLines(docs)
  PROVE  /\ Legible(docs) /\ DOMAIN docs = 1..Len(docs) /\ Len(docs) \in Nat
         /\ \A i \in StampedAt(docs) : IsLine(docs[i]) /\ IsBlock(docs[i].integ)
<1>1. DOMAIN docs = 1..Len(docs) /\ Len(docs) \in Nat
  BY LenProperties DEF AreLines
<1>2. \A i \in StampedAt(docs) : IsLine(docs[i]) /\ IsBlock(docs[i].integ)
  BY DEF AreLines, StampedAt, IsLine
<1>3. \A i \in StampedAt(docs) : docs[i].integ.seq \in Nat \ {0}
  BY <1>2 DEF IsBlock
<1>4. Legible(docs)
  <2>1. \E n \in Nat : DOMAIN docs = 1..n
    BY <1>1, Zenon
  <2> QED  BY <1>3, <2>1 DEF Legible
<1> QED  BY <1>1, <1>2, <1>4

\* Between two numbers of a chain that is whole, every number is there, and is followed.
LEMMA NoneBetween ==
  ASSUME NEW docs, Legible(docs), Whole(docs), NEW id,
         NEW a \in Entries(docs, id), NEW b \in Entries(docs, id), NEW n \in Nat,
         docs[a].integ.seq <= n, n < docs[b].integ.seq
  PROVE  \E j, k \in Entries(docs, id) : docs[j].integ.seq = n /\ Follows(docs[k], docs[j])
<1> DEFINE P == Entries(docs, id)
           Above == {m \in Nat : n < m /\ \E k \in P : docs[k].integ.seq = m}
<1>1. \A k \in P : /\ k \in StampedAt(docs) /\ docs[k].integ.chain = id
                   /\ docs[k].integ.seq \in Nat
  BY DEF Entries, Legible
<1>2. Above # {} /\ Above \subseteq Nat
  BY <1>1
<1>3. PICK m \in Above : \A x \in Above : m <= x
  BY <1>2, Least
<1>4. PICK k \in P : docs[k].integ.seq = m /\ n < m /\ m \in Nat
  BY <1>3
<1>5. ~(docs[k].integ.seq <= docs[a].integ.seq)
  BY <1>1, <1>4
<1>6. PICK j \in P : Follows(docs[k], docs[j])
  BY <1>1, <1>4, <1>5 DEF Whole
<1>7. docs[j].integ.seq + 1 = m
  BY <1>4, <1>6 DEF Follows
<1>8. docs[j].integ.seq \notin Above
  BY <1>1, <1>3, <1>4, <1>7
<1>9. docs[j].integ.seq = n
  BY <1>1, <1>4, <1>7, <1>8
<1> QED  BY <1>6, <1>9

LEMMA OtherLine ==
  ASSUME NEW l, IsLine(l), l.integ # Unstamped
  PROVE  /\ OtherContent(l).integ = l.integ /\ OtherContent(l).content # l.content
         /\ Rehashed(l).integ # Unstamped
         /\ Rehashed(l).integ.chain = l.integ.chain /\ Rehashed(l).integ.seq = l.integ.seq
         /\ Rehashed(l).integ.hash # l.integ.hash
<1> DEFINE c == l.content
           b == l.integ
           other == Changed(c)
           h == Hash(b.chain, b.seq, b.prev_hash, other)
<1>1. /\ l = [content |-> c, integ |-> b]
      /\ c = [id |-> c.id, tags |-> c.tags, skewed |-> FALSE, stream |-> c.stream]
      /\ b = [chain |-> b.chain, seq |-> b.seq, prev_hash |-> b.prev_hash, hash |-> b.hash]
      /\ b.hash = Hash(b.chain, b.seq, b.prev_hash, c)
  BY DEF IsLine, IsContent, IsBlock, Intact
<1>2. Append(c.tags, "changed") # c.tags
  <2>1. c.tags \in Seq({"enrich_timeout", "changed"})
    <3>1. c.tags = <<>> \/ c.tags = <<"enrich_timeout">>
      BY DEF IsLine, IsContent
    <3>2. <<>> \in Seq({"enrich_timeout", "changed"})
          /\ <<"enrich_timeout">> \in Seq({"enrich_timeout", "changed"})
      OBVIOUS
    <3> QED  BY <3>1, <3>2
  <2>2. Len(Append(c.tags, "changed")) = Len(c.tags) + 1 /\ Len(c.tags) \in Nat
    BY <2>1, AppendProperties, LenProperties
  <2> QED  BY <2>2
<1>3. other.tags = Append(c.tags, "changed")
  BY <1>1 DEF Changed
<1>4. other # c
  BY <1>2, <1>3
<1>5. OtherContent(l) = [content |-> other, integ |-> b]
  <2> HIDE DEF other
  <2>1. OtherContent(l) = [l EXCEPT !.content = other]
    BY DEF OtherContent, other
  <2> QED  BY <1>1, <2>1
<1>6. Rehashed(l) = [content |-> other,
                     integ |-> [chain |-> b.chain, seq |-> b.seq, prev_hash |-> b.prev_hash, hash |-> h]]
  <2>1. OtherContent(l).content = other
    BY <1>5
  <2>2. Rehashed(l) = [OtherContent(l) EXCEPT !.integ.hash = h]
    BY <2>1 DEF Rehashed
  <2> HIDE DEF h, other
  <2>3. OtherContent(l) = [content |-> other, integ |-> [chain |-> b.chain, seq |-> b.seq,
                                                         prev_hash |-> b.prev_hash, hash |-> b.hash]]
    BY <1>1, <1>5
  <2> QED  BY <2>2, <2>3
<1>7. h # b.hash
  BY <1>1, <1>4 DEF Hash
<1>8. Rehashed(l).integ # Unstamped
  BY <1>6 DEF Unstamped
<1> HIDE DEF other, h
<1> QED  BY <1>4, <1>5, <1>6, <1>7, <1>8


LEMMA RemovedAt ==
  ASSUME NEW S, NEW s \in Seq(S), NEW i \in 1..Len(s)
  PROVE  /\ RemoveAt(s, i) \in Seq(S) /\ Len(RemoveAt(s, i)) = Len(s) - 1
         /\ DOMAIN RemoveAt(s, i) = 1..(Len(s) - 1)
         /\ \A j \in 1..(Len(s) - 1) : RemoveAt(s, i)[j] = IF j < i THEN s[j] ELSE s[j + 1]
<1> DEFINE a == SubSeq(s, 1, i - 1)
           b == SubSeq(s, i + 1, Len(s))
<1>1. Len(s) \in Nat /\ \A j \in 1..Len(s) : s[j] \in S
  BY LenProperties
<1>2. /\ a \in Seq(S) /\ Len(a) = i - 1 /\ \A j \in 1..(i - 1) : a[j] = s[j]
  <2>1. \A j \in 1..(i - 1) : s[j] \in S
    BY <1>1
  <2>2. /\ SubSeq(s, 1, i - 1) \in Seq(S)
        /\ Len(SubSeq(s, 1, i - 1)) = IF 1 <= i - 1 THEN i - 1 - 1 + 1 ELSE 0
        /\ \A j \in 1..(i - 1 - 1 + 1) : SubSeq(s, 1, i - 1)[j] = s[1 + j - 1]
    BY <1>1, <2>1, SubSeqProperties
  <2> QED  BY <2>2
<1>3. /\ b \in Seq(S) /\ Len(b) = Len(s) - i /\ \A j \in 1..(Len(s) - i) : b[j] = s[i + j]
  <2>1. \A j \in (i + 1)..Len(s) : s[j] \in S
    BY <1>1
  <2>2. /\ SubSeq(s, i + 1, Len(s)) \in Seq(S)
        /\ Len(SubSeq(s, i + 1, Len(s))) = IF i + 1 <= Len(s) THEN Len(s) - (i + 1) + 1 ELSE 0
        /\ \A j \in 1..(Len(s) - (i + 1) + 1) : SubSeq(s, i + 1, Len(s))[j] = s[i + 1 + j - 1]
    BY <1>1, <2>1, SubSeqProperties
  <2> QED  BY <1>1, <2>2
<1>4. RemoveAt(s, i) = a \o b
  BY DEF RemoveAt
<1> HIDE DEF a, b
<1>5. /\ a \o b \in Seq(S) /\ Len(a \o b) = Len(s) - 1
      /\ \A j \in 1..(Len(s) - 1) : (a \o b)[j] = IF j <= i - 1 THEN a[j] ELSE b[j - (i - 1)]
  <2>1. a \in Seq(S) /\ b \in Seq(S)
    BY <1>2, <1>3
  <2>2. /\ a \o b \in Seq(S) /\ Len(a \o b) = Len(a) + Len(b)
        /\ \A j \in 1..(Len(a) + Len(b)) : (a \o b)[j] = IF j <= Len(a) THEN a[j] ELSE b[j - Len(a)]
    BY <2>1, ConcatProperties
  <2>3. Len(a) = i - 1 /\ Len(a) + Len(b) = Len(s) - 1
    BY <1>1, <1>2, <1>3
  <2> QED  BY <2>2, <2>3
<1>6. \A j \in 1..(Len(s) - 1) : (a \o b)[j] = IF j < i THEN s[j] ELSE s[j + 1]
  <2> SUFFICES ASSUME NEW j \in 1..(Len(s) - 1)
               PROVE  (a \o b)[j] = IF j < i THEN s[j] ELSE s[j + 1]
    OBVIOUS
  <2>1. CASE j < i
    <3>1. j \in 1..(i - 1) /\ j <= i - 1
      BY <2>1
    <3> QED  BY <1>2, <1>5, <2>1, <3>1
  <2>2. CASE ~(j < i)
    <3> DEFINE k == j - (i - 1)
    <3>1. k \in 1..(Len(s) - i) /\ i + k = j + 1 /\ ~(j <= i - 1)
      BY <1>1, <2>2
    <3>2. (a \o b)[j] = b[k]
      BY <1>5, <3>1
    <3> HIDE DEF k
    <3>3. b[k] = s[i + k]
      BY <1>3, <3>1
    <3> QED  BY <2>2, <3>1, <3>2, <3>3
  <2> QED  BY <2>1, <2>2
<1>7. DOMAIN (a \o b) = 1..(Len(s) - 1)
  BY <1>5, LenProperties
<1> QED  BY <1>4, <1>5, <1>6, <1>7

LEMMA TamperedIsSeen ==
  ASSUME NEW docs, AreLines(docs), Whole(docs), NEW i \in StampedAt(docs)
  PROVE  LET mine == docs[i].integ
             earlier == \E j \in Entries(docs, mine.chain) : docs[j].integ.seq < mine.seq
             later == \E j \in Entries(docs, mine.chain) : docs[j].integ.seq > mine.seq
         IN /\ ~Verifies([docs EXCEPT ![i] = OtherContent(@)])
            /\ ~Verifies(Append(docs, docs[i]))
            /\ earlier /\ later => ~Verifies(RemoveAt(docs, i))
            /\ later => ~Verifies([docs EXCEPT ![i] = Rehashed(@)])
<1> DEFINE l == docs[i]
           id == l.integ.chain
           n == l.integ.seq
           P == Entries(docs, id)
<1>1. /\ Legible(docs) /\ DOMAIN docs = 1..Len(docs) /\ Len(docs) \in Nat
      /\ \A j \in StampedAt(docs) : IsLine(docs[j]) /\ IsBlock(docs[j].integ)
      /\ docs \in Seq(Range(docs))
  BY LinesAreLegible DEF AreLines
<1>2. /\ i \in DOMAIN docs /\ l.integ # Unstamped /\ IsLine(l) /\ Intact(l) /\ i \in P
      /\ n \in Nat \ {0}
  BY <1>1 DEF StampedAt, Entries, Whole, Legible
<1>3. /\ OtherContent(l).integ = l.integ /\ OtherContent(l).content # l.content
      /\ Rehashed(l).integ # Unstamped
      /\ Rehashed(l).integ.chain = id /\ Rehashed(l).integ.seq = n
      /\ Rehashed(l).integ.hash # l.integ.hash
  <2>1. IsLine(l) /\ l.integ # Unstamped
    BY <1>2
  <2> HIDE DEF l
  <2> QED  BY <2>1, OtherLine
<1>4. \A j \in StampedAt(docs) : docs[j].integ.seq \in Nat \ {0}
  BY <1>1 DEF Legible
<1>5. \A j \in P : j # i => docs[j].integ.seq # n
  BY DEF Whole
<1> HIDE DEF P
\* Changed.
<1>6. ~Verifies([docs EXCEPT ![i] = OtherContent(@)])
  <2> DEFINE new == [docs EXCEPT ![i] = OtherContent(@)]
  <2>1. DOMAIN new = DOMAIN docs /\ \A j \in DOMAIN docs : new[j] = IF j = i THEN OtherContent(l) ELSE docs[j]
    OBVIOUS
  <2> HIDE DEF new
  <2>2. StampedAt(new) = StampedAt(docs) /\ \A j \in StampedAt(docs) : new[j].integ = docs[j].integ
    BY <1>3, <2>1 DEF StampedAt
  <2>3. Legible(new)
    BY <1>1, <2>1, <2>2 DEF Legible
  <2>4. ~Intact(new[i])
    <3>1. new[i].integ = l.integ /\ new[i].content # l.content
      BY <1>2, <1>3, <2>1
    <3> QED  BY <1>2, <3>1 DEF Intact, Hash
  <2>5. ~Whole(new)
    BY <2>2, <2>4 DEF Whole
  <2> QED  BY <2>3, <2>5, VerifiesExactly DEF new
\* Stored twice.
<1>7. ~Verifies(Append(docs, l))
  <2> DEFINE new == Append(docs, l)
             k == Len(docs) + 1
  <2>1. /\ DOMAIN new = 1..(Len(docs) + 1) /\ new[k] = l
        /\ \A j \in DOMAIN docs : new[j] = docs[j]
    <3>1. l \in Range(docs)
      BY <1>2 DEF Range
    <3>2. new \in Seq(Range(docs)) /\ Len(new) = Len(docs) + 1
          /\ \A j \in 1..Len(docs) : new[j] = docs[j]
          /\ new[Len(docs) + 1] = l
      <4> HIDE DEF l
      <4> QED  BY <1>1, <3>1, AppendProperties
    <3>3. DOMAIN new = 1..Len(new)
      <4> HIDE DEF new
      <4> QED  BY <3>2, LenProperties
    <3> QED  BY <1>1, <3>2, <3>3
  <2> HIDE DEF new
  <2>2. i \in Entries(new, id) /\ k \in Entries(new, id) /\ i # k /\ i \in StampedAt(new)
    BY <1>1, <1>2, <2>1 DEF Entries, StampedAt
  <2>3. \A j \in StampedAt(new) : new[j].integ.seq \in Nat \ {0}
    <3> SUFFICES ASSUME NEW j \in StampedAt(new) PROVE new[j].integ.seq \in Nat \ {0}
      OBVIOUS
    <3>1. CASE j = k
      BY <1>2, <2>1, <3>1
    <3>2. CASE j # k
      <4>1. j \in DOMAIN docs /\ new[j] = docs[j] /\ docs[j].integ # Unstamped
        BY <1>1, <2>1, <3>2 DEF StampedAt
      <4> QED  BY <1>4, <4>1 DEF StampedAt
    <3> QED  BY <3>1, <3>2
  <2>4. Legible(new)
    <3>1. Len(docs) + 1 \in Nat
      BY <1>1
    <3> QED  BY <2>1, <2>3, <3>1 DEF Legible
  <2>5. ~Whole(new)
    <3>1. new[i].integ.chain = id /\ new[i].integ.seq = new[k].integ.seq
      BY <1>2, <2>1
    <3> QED  BY <2>2, <3>1 DEF Whole
  <2> QED  BY <2>4, <2>5, VerifiesExactly DEF new
\* Taken away.
<1>8. ASSUME NEW a \in P, NEW b \in P, docs[a].integ.seq < n, docs[b].integ.seq > n
      PROVE  ~Verifies(RemoveAt(docs, i))
  <2> DEFINE new == RemoveAt(docs, i)
             old(x) == IF x < i THEN x ELSE x + 1
             at(x) == IF x < i THEN x ELSE x - 1
  <2>1. /\ DOMAIN new = 1..(Len(docs) - 1) /\ Len(docs) - 1 \in Nat
        /\ \A x \in DOMAIN new : new[x] = docs[old(x)] /\ old(x) \in DOMAIN docs \ {i}
        /\ \A x \in DOMAIN docs \ {i} : at(x) \in DOMAIN new /\ old(at(x)) = x
    <3>1. i \in 1..Len(docs)
      BY <1>1, <1>2
    <3>2. /\ DOMAIN new = 1..(Len(docs) - 1)
          /\ \A j \in 1..(Len(docs) - 1) : new[j] = IF j < i THEN docs[j] ELSE docs[j + 1]
      BY <1>1, <3>1, RemovedAt
    <3> HIDE DEF new
    <3> QED  BY <1>1, <3>1, <3>2
  <2> HIDE DEF new, old, at
  <2>2. \A x \in DOMAIN docs \ {i} : new[at(x)] = docs[x]
    BY <2>1
  <2>3. Legible(new)
    BY <1>4, <2>1 DEF Legible, StampedAt
  <2>4. \A x \in Entries(new, id) : old(x) \in P /\ old(x) # i /\ new[x] = docs[old(x)]
    BY <2>1 DEF Entries, StampedAt, P
  <2>5. a # i /\ b # i
    BY <1>2, <1>8
  <2>6. at(a) \in Entries(new, id) /\ at(b) \in Entries(new, id)
    BY <2>1, <2>2, <2>5 DEF Entries, StampedAt, P
  <2>7. new[at(a)] = docs[a] /\ new[at(b)] = docs[b]
    BY <2>2, <2>5 DEF Entries, StampedAt, P
  <2>8. docs[a].integ.seq <= n /\ n < docs[b].integ.seq
    BY <1>2, <1>4, <1>8 DEF P, Entries
  <2>9. ASSUME Whole(new) PROVE FALSE
    <3>1. PICK j \in Entries(new, id) : new[j].integ.seq = n
      <4> DEFINE x == at(a)
                 y == at(b)
                 m == n
      <4>1. /\ x \in Entries(new, id) /\ y \in Entries(new, id) /\ m \in Nat
            /\ new[x].integ.seq <= m /\ m < new[y].integ.seq
        BY <1>2, <2>6, <2>7, <2>8
      <4> HIDE DEF x, y, m
      <4>2. \E j, k \in Entries(new, id) : new[j].integ.seq = m /\ Follows(new[k], new[j])
        BY <2>3, <2>9, <4>1, NoneBetween
      <4> QED  BY <4>2 DEF m
    <3> QED  BY <1>5, <2>4, <3>1
  <2> QED  BY <2>3, <2>9, VerifiesExactly DEF new
\* Changed and hashed again.
<1>9. ASSUME NEW b \in P, docs[b].integ.seq > n
      PROVE  ~Verifies([docs EXCEPT ![i] = Rehashed(@)])
  <2> DEFINE new == [docs EXCEPT ![i] = Rehashed(@)]
  <2>1. DOMAIN new = DOMAIN docs /\ \A j \in DOMAIN docs : new[j] = IF j = i THEN Rehashed(l) ELSE docs[j]
    OBVIOUS
  <2> HIDE DEF new
  <2>2. StampedAt(new) = StampedAt(docs)
        /\ \A j \in StampedAt(docs) : /\ new[j].integ.chain = docs[j].integ.chain
                                      /\ new[j].integ.seq = docs[j].integ.seq
    BY <1>2, <1>3, <2>1 DEF StampedAt
  <2>3. Legible(new)
    BY <1>1, <2>1, <2>2 DEF Legible
  <2>4. Entries(new, id) = P
    BY <2>2 DEF Entries, P
  <2>5. ASSUME Whole(new) PROVE FALSE
    <3> DEFINE m == n
    <3>0. /\ i \in Entries(docs, id) /\ b \in Entries(docs, id) /\ m \in Nat
          /\ docs[i].integ.seq <= m /\ m < docs[b].integ.seq
      BY <1>2, <1>4, <1>9 DEF P, Entries
    <3> HIDE DEF m
    <3>1. PICK j, k \in Entries(docs, id) : docs[j].integ.seq = m /\ Follows(docs[k], docs[j])
      <4> DEFINE x == id
      <4>1. i \in Entries(docs, x) /\ b \in Entries(docs, x)
        BY <3>0
      <4> HIDE DEF x
      <4>2. \E j, k \in Entries(docs, x) : docs[j].integ.seq = m /\ Follows(docs[k], docs[j])
        BY <1>1, <3>0, <4>1, NoneBetween
      <4> QED  BY <4>2 DEF x
    <3>2. j = i
      BY <1>5, <3>1 DEF m, P
    <3>3. docs[k].integ.seq = n + 1 /\ docs[k].integ.prev_hash = l.integ.hash /\ k \in P /\ k # i
      BY <1>2, <3>1, <3>2 DEF Follows, P
    <3>4. k \in StampedAt(new) /\ new[k] = docs[k] /\ new[k].integ.chain = id
      BY <2>1, <2>2, <3>3 DEF P, Entries, StampedAt
    <3>5. ~(new[k].integ.seq <= new[i].integ.seq)
      BY <1>2, <2>2, <3>3, <3>4
    <3>6. PICK h \in P : Follows(new[k], new[h])
      BY <1>2, <2>4, <2>5, <3>4, <3>5 DEF Whole
    <3>7. new[h].integ.seq + 1 = n + 1 /\ new[h].integ.seq = docs[h].integ.seq
          /\ docs[h].integ.seq \in Nat
      BY <1>4, <2>2, <3>3, <3>4, <3>6 DEF Follows, P, Entries
    <3>8. docs[h].integ.seq = n
      BY <1>2, <3>7
    <3>9. h = i
      BY <1>5, <3>8
    <3>10. new[k].integ.prev_hash = Rehashed(l).integ.hash
      BY <1>2, <2>1, <3>6, <3>9 DEF Follows
    <3> QED  BY <1>3, <3>3, <3>4, <3>10
  <2> QED  BY <2>3, <2>5, VerifiesExactly DEF new
<1> QED  BY <1>6, <1>7, <1>8, <1>9 DEF P


LEMMA TamperingIsSeen == AreLines(disk) => TamperingShows
<1> SUFFICES ASSUME AreLines(disk), Verifies(disk), NEW i \in StampedAt(disk)
             PROVE  LET mine == disk[i].integ
                        earlier == \E j \in Entries(disk, mine.chain) : disk[j].integ.seq < mine.seq
                        later == \E j \in Entries(disk, mine.chain) : disk[j].integ.seq > mine.seq
                    IN /\ ~Verifies([disk EXCEPT ![i] = OtherContent(@)])
                       /\ ~Verifies(Append(disk, disk[i]))
                       /\ earlier /\ later => ~Verifies(RemoveAt(disk, i))
                       /\ later => ~Verifies([disk EXCEPT ![i] = Rehashed(@)])
  BY DEF TamperingShows
<1>1. Whole(disk)
  BY LinesAreLegible, VerifiesExactly
<1> QED  BY <1>1, TamperedIsSeen

-----------------------------------------------------------------------------
(* Lines in a row.                                                         *)

LEMMA ConcatLines ==
  ASSUME NEW s, AreLines(s), NEW t, AreLines(t)
  PROVE  /\ AreLines(s \o t) /\ Len(s \o t) = Len(s) + Len(t)
         /\ \A i \in DOMAIN s : i \in DOMAIN (s \o t) /\ (s \o t)[i] = s[i]
         /\ \A i \in DOMAIN t : Len(s) + i \in DOMAIN (s \o t) /\ (s \o t)[Len(s) + i] = t[i]
         /\ \A i \in DOMAIN (s \o t) : i \in DOMAIN s \/ \E j \in DOMAIN t : i = Len(s) + j
<1> DEFINE S == Range(s) \cup Range(t)
           u == s \o t
<1>1. s \in Seq(S) /\ t \in Seq(S)
  BY SeqMonotonic DEF AreLines
<1> HIDE DEF S
<1>2. /\ u \in Seq(S) /\ Len(u) = Len(s) + Len(t)
      /\ \A i \in 1..(Len(s) + Len(t)) : u[i] = IF i <= Len(s) THEN s[i] ELSE t[i - Len(s)]
  BY <1>1, ConcatProperties
<1>3. /\ Len(s) \in Nat /\ Len(t) \in Nat /\ DOMAIN s = 1..Len(s) /\ DOMAIN t = 1..Len(t)
  BY <1>1, LenProperties
<1>4. DOMAIN u = 1..(Len(s) + Len(t))
  <2> HIDE DEF u
  <2>1. DOMAIN u = 1..Len(u)
    BY <1>2, LenProperties
  <2> QED  BY <1>2, <2>1
<1>5. u \in Seq(Range(u))
  <2> HIDE DEF u
  <2> QED  BY <1>2, SeqOfRange
<1> HIDE DEF u
<1>6. \A i \in DOMAIN s : i \in DOMAIN u /\ u[i] = s[i]
  BY <1>2, <1>3, <1>4
<1>7. \A i \in DOMAIN t : Len(s) + i \in DOMAIN u /\ u[Len(s) + i] = t[i]
  <2> SUFFICES ASSUME NEW i \in DOMAIN t PROVE Len(s) + i \in DOMAIN u /\ u[Len(s) + i] = t[i]
    OBVIOUS
  <2>1. /\ Len(s) + i \in 1..(Len(s) + Len(t)) /\ ~(Len(s) + i <= Len(s))
        /\ (Len(s) + i) - Len(s) = i
    BY <1>3
  <2> QED  BY <1>2, <1>4, <2>1
<1>8. \A i \in DOMAIN u : i \in DOMAIN s \/ \E j \in DOMAIN t : i = Len(s) + j
  <2> SUFFICES ASSUME NEW i \in DOMAIN u, i \notin DOMAIN s PROVE \E j \in DOMAIN t : i = Len(s) + j
    OBVIOUS
  <2>1. i - Len(s) \in DOMAIN t /\ i = Len(s) + (i - Len(s))
    BY <1>3, <1>4
  <2> QED  BY <2>1
<1>9. \A i \in DOMAIN u : IsLine(u[i])
  <2> SUFFICES ASSUME NEW i \in DOMAIN u PROVE IsLine(u[i])
    OBVIOUS
  <2>1. CASE i \in DOMAIN s
    BY <1>6, <2>1 DEF AreLines
  <2>2. CASE \E j \in DOMAIN t : i = Len(s) + j
    BY <1>7, <2>2 DEF AreLines
  <2> QED  BY <1>8, <2>1, <2>2
<1> QED  BY <1>2, <1>5, <1>6, <1>7, <1>8, <1>9 DEF AreLines, u

LEMMA ConcatStamped ==
  ASSUME NEW s, AreLines(s), NEW t, AreLines(t)
  PROVE  /\ StampedAt(s \o t) = StampedAt(s) \cup {Len(s) + i : i \in StampedAt(t)}
         /\ \A i \in StampedAt(s) : (s \o t)[i] = s[i]
         /\ \A i \in StampedAt(t) : (s \o t)[Len(s) + i] = t[i]
         /\ \A i \in StampedAt(s), j \in StampedAt(t) : i < Len(s) + j
         /\ Holes(s \o t) = Holes(s) \cup Holes(t)
<1> DEFINE u == s \o t
           end == Len(s)
<1>1. /\ \A i \in DOMAIN s : i \in DOMAIN u /\ u[i] = s[i]
      /\ \A i \in DOMAIN t : end + i \in DOMAIN u /\ u[end + i] = t[i]
      /\ \A i \in DOMAIN u : i \in DOMAIN s \/ \E j \in DOMAIN t : i = end + j
  <2>1. \A i \in DOMAIN s : i \in DOMAIN (s \o t) /\ (s \o t)[i] = s[i]
    BY ConcatLines
  <2>2. \A i \in DOMAIN t : Len(s) + i \in DOMAIN (s \o t) /\ (s \o t)[Len(s) + i] = t[i]
    BY ConcatLines
  <2>3. \A i \in DOMAIN (s \o t) : i \in DOMAIN s \/ \E j \in DOMAIN t : i = Len(s) + j
    BY ConcatLines
  <2> QED  BY <2>1, <2>2, <2>3
<1>2. \A i \in DOMAIN s, j \in DOMAIN t : i < end + j
  BY LinesAreLegible
<1> HIDE DEF u, end
<1>3. StampedAt(u) = StampedAt(s) \cup {end + i : i \in StampedAt(t)}
  <2>1. ASSUME NEW i \in StampedAt(u) PROVE i \in StampedAt(s) \cup {end + j : j \in StampedAt(t)}
    <3>1. i \in DOMAIN u /\ u[i].integ # Unstamped
      BY DEF StampedAt
    <3>2. CASE i \in DOMAIN s
      BY <1>1, <3>1, <3>2 DEF StampedAt
    <3>3. CASE \E j \in DOMAIN t : i = end + j
      <4>1. PICK j \in DOMAIN t : i = end + j
        BY <3>3
      <4>2. j \in StampedAt(t)
        BY <1>1, <3>1, <4>1 DEF StampedAt
      <4> QED  BY <4>1, <4>2
    <3> QED  BY <1>1, <3>1, <3>2, <3>3
  <2>2. ASSUME NEW i \in StampedAt(s) PROVE i \in StampedAt(u)
    BY <1>1 DEF StampedAt
  <2>3. ASSUME NEW i \in StampedAt(t) PROVE end + i \in StampedAt(u)
    BY <1>1 DEF StampedAt
  <2> QED  BY <2>1, <2>2, <2>3
<1>4. /\ \A i \in StampedAt(s) : u[i] = s[i]
      /\ \A i \in StampedAt(t) : u[end + i] = t[i]
  BY <1>1 DEF StampedAt
<1>5. Holes(u) = Holes(s) \cup Holes(t)
  <2>1. \A m \in Holes(u) : m \in Holes(s) \cup Holes(t)
    BY <1>3, <1>4 DEF Holes
  <2>2. \A m \in Holes(s) : m \in Holes(u)
    BY <1>3, <1>4 DEF Holes
  <2>3. \A m \in Holes(t) : m \in Holes(u)
    BY <1>3, <1>4 DEF Holes
  <2> QED  BY <2>1, <2>2, <2>3
<1>6. \A i \in StampedAt(s), j \in StampedAt(t) : i < end + j
  BY <1>2 DEF StampedAt
<1> QED  BY <1>3, <1>4, <1>5, <1>6 DEF u, end


-----------------------------------------------------------------------------
(* Chains as they are stamped.                                             *)

\* The entries of a chain are numbered upwards, and the next number is linked.
InSequence(s) ==
  /\ \A i \in StampedAt(s) : s[i].integ.seq = 1 => s[i].integ.prev_hash = GENESIS
  /\ \A i, j \in StampedAt(s) : s[i].integ.chain = s[j].integ.chain /\ i < j =>
       /\ s[i].integ.seq < s[j].integ.seq
       /\ s[j].integ.seq = s[i].integ.seq + 1 => s[j].integ.prev_hash = s[i].integ.hash

\* A number given before is there or is lost, never both.
Accounted(s, lost) ==
  /\ \A i \in StampedAt(s) : \A n \in 1..s[i].integ.seq :
       <<s[i].integ.chain, n>> \in Holes(s) \cup lost
  /\ Holes(s) \cap lost = {}

\* The chain that the process of this start continues.
Current(s, lost, own, born) ==
  /\ own = [id |-> born, seq |-> own.seq, prev |-> own.prev, born |-> born]
  /\ born \in Nat /\ own.seq \in Nat /\ (own.seq = 0 => own.prev = GENESIS)
  /\ \A i \in StampedAt(s) : s[i].integ.chain <= born
  /\ \A m \in lost : m \in Nat \X Nat /\ m[1] <= born
  /\ \A i \in StampedAt(s) : s[i].integ.chain = born =>
       /\ s[i].integ.seq <= own.seq
       /\ s[i].integ.seq = own.seq => s[i].integ.hash = own.prev
  /\ \A n \in 1..own.seq : <<born, n>> \in Holes(s) \cup lost
  /\ \A m \in lost : m[1] = born => m[2] <= own.seq

Chained(s, lost, own, born) ==
  /\ AreLines(s) /\ InSequence(s) /\ Accounted(s, lost) /\ Current(s, lost, own, born)

LEMMA ChainedWithPlain ==
  ASSUME NEW s, NEW t, NEW lost, NEW own, NEW born, Chained(s, lost, own, born),
         AreLines(t), StampedAt(t) = {}
  PROVE  Chained(s \o t, lost, own, born)
<1> DEFINE u == s \o t
<1>1. AreLines(s) /\ InSequence(s) /\ Accounted(s, lost) /\ Current(s, lost, own, born)
  BY DEF Chained
<1>2. AreLines(u)
  BY <1>1, ConcatLines
<1>3. StampedAt(u) = StampedAt(s)
  <2>1. StampedAt(s \o t) = StampedAt(s) \cup {Len(s) + i : i \in StampedAt(t)}
    BY <1>1, ConcatStamped
  <2> QED  BY <2>1
<1>4. \A i \in StampedAt(s) : u[i] = s[i]
  BY <1>1, ConcatStamped
<1>5. Holes(u) = Holes(s)
  BY <1>3, <1>4 DEF Holes
<1> HIDE DEF u
<1>6. InSequence(u)
  BY <1>1, <1>3, <1>4 DEF InSequence
<1>7. Accounted(u, lost)
  BY <1>1, <1>3, <1>4, <1>5 DEF Accounted
<1>8. Current(u, lost, own, born)
  BY <1>1, <1>3, <1>4, <1>5 DEF Current
<1> QED  BY <1>2, <1>6, <1>7, <1>8 DEF Chained, u

\* What does not land is lost.
LEMMA ChainedWithoutTheRest ==
  ASSUME NEW s, NEW t, NEW lost, NEW own, NEW born, Chained(s \o t, lost, own, born),
         AreLines(s), AreLines(t)
  PROVE  Chained(s, lost \cup Holes(t), own, born)
<1> DEFINE u == s \o t
           end == Len(s)
<1>1. AreLines(u) /\ InSequence(u) /\ Accounted(u, lost) /\ Current(u, lost, own, born)
  BY DEF Chained
<1>2. /\ StampedAt(u) = StampedAt(s) \cup {end + i : i \in StampedAt(t)}
      /\ \A i \in StampedAt(s) : u[i] = s[i]
      /\ \A i \in StampedAt(t) : u[end + i] = t[i]
      /\ \A i \in StampedAt(s), j \in StampedAt(t) : i < end + j
      /\ Holes(u) = Holes(s) \cup Holes(t)
  BY ConcatStamped
<1> HIDE DEF u, end
<1>3. \A i \in StampedAt(s) : i \in StampedAt(u) /\ u[i] = s[i]
  BY <1>2
<1>4. \A m \in Holes(t) : \E i \in StampedAt(t) :
        /\ end + i \in StampedAt(u)
        /\ m = <<u[end + i].integ.chain, u[end + i].integ.seq>>
  BY <1>2 DEF Holes
<1>5. \A i \in StampedAt(u) : u[i].integ.chain \in Nat /\ u[i].integ.seq \in Nat \ {0}
  <2>1. \A i \in StampedAt(u) : IsBlock(u[i].integ)
    BY <1>1, LinesAreLegible
  <2> QED  BY <2>1 DEF IsBlock
<1>6. InSequence(s)
  BY <1>1, <1>3 DEF InSequence
<1>7. Accounted(s, lost \cup Holes(t))
  <2>1. Holes(s) \cap Holes(t) = {}
    <3> SUFFICES ASSUME NEW i \in StampedAt(s), NEW m \in Holes(t),
                        m = <<s[i].integ.chain, s[i].integ.seq>>
                 PROVE  FALSE
      BY DEF Holes
    <3>1. PICK j \in StampedAt(t) : /\ end + j \in StampedAt(u)
                                    /\ m = <<u[end + j].integ.chain, u[end + j].integ.seq>>
      BY <1>4
    <3>2. i < end + j /\ i \in StampedAt(u) /\ u[i] = s[i]
      BY <1>2, <1>3
    <3>3. u[i].integ.chain = u[end + j].integ.chain /\ u[i].integ.seq = u[end + j].integ.seq
      BY <3>1, <3>2
    <3>4. u[i].integ.seq < u[end + j].integ.seq
      BY <1>1, <3>1, <3>2, <3>3 DEF InSequence
    <3> QED  BY <1>5, <3>2, <3>3, <3>4
  <2>2. Holes(s) \cap lost = {}
    BY <1>1, <1>2 DEF Accounted
  <2>3. \A i \in StampedAt(s) : \A n \in 1..s[i].integ.seq :
          <<s[i].integ.chain, n>> \in Holes(s) \cup (lost \cup Holes(t))
    BY <1>1, <1>2, <1>3 DEF Accounted
  <2> QED  BY <2>1, <2>2, <2>3 DEF Accounted
<1>8. Current(s, lost \cup Holes(t), own, born)
  <2>1. \A m \in Holes(t) : /\ m \in Nat \X Nat /\ m[1] <= born
                            /\ m[1] = born => m[2] <= own.seq
    <3> SUFFICES ASSUME NEW m \in Holes(t)
                 PROVE  /\ m \in Nat \X Nat /\ m[1] <= born
                        /\ m[1] = born => m[2] <= own.seq
      OBVIOUS
    <3>1. PICK j \in StampedAt(t) : /\ end + j \in StampedAt(u)
                                    /\ m = <<u[end + j].integ.chain, u[end + j].integ.seq>>
      BY <1>4
    <3>2. m[1] = u[end + j].integ.chain /\ m[2] = u[end + j].integ.seq
      BY <3>1
    <3> QED  BY <1>1, <1>5, <3>1, <3>2 DEF Current
  <2>2. \A n \in 1..own.seq : <<born, n>> \in Holes(s) \cup (lost \cup Holes(t))
    BY <1>1, <1>2 DEF Current
  <2> QED  BY <1>1, <1>3, <2>1, <2>2 DEF Current
<1> QED  BY <1>6, <1>7, <1>8 DEF Chained

\* Another process begins another chain.
LEMMA ChainedAnew ==
  ASSUME NEW s, NEW lost, NEW own, NEW born, Chained(s, lost, own, born)
  PROVE  Chained(s, lost, NewChain(born + 1, born + 1), born + 1)
<1> DEFINE new == NewChain(born + 1, born + 1)
<1>1. AreLines(s) /\ InSequence(s) /\ Accounted(s, lost) /\ Current(s, lost, own, born)
  BY DEF Chained
<1>2. /\ born \in Nat /\ \A i \in StampedAt(s) : s[i].integ.chain <= born
      /\ \A m \in lost : m \in Nat \X Nat /\ m[1] <= born
  BY <1>1 DEF Current
<1>3. \A i \in StampedAt(s) : s[i].integ.chain \in Nat
  BY <1>1, LinesAreLegible DEF IsBlock
<1>4. new = [id |-> born + 1, seq |-> 0, prev |-> GENESIS, born |-> born + 1]
  BY DEF NewChain
<1> HIDE DEF new
<1>5. Current(s, lost, new, born + 1)
  <2>1. /\ new = [id |-> born + 1, seq |-> new.seq, prev |-> new.prev, born |-> born + 1]
        /\ new.seq = 0 /\ new.prev = GENESIS
    BY <1>4
  <2>2. \A i \in StampedAt(s) : s[i].integ.chain <= born + 1 /\ s[i].integ.chain # born + 1
    BY <1>2, <1>3
  <2>3. \A m \in lost : m[1] \in Nat /\ m[1] <= born + 1 /\ m[1] # born + 1
    BY <1>2
  <2> QED  BY <1>2, <2>1, <2>2, <2>3 DEF Current
<1> QED  BY <1>1, <1>5 DEF Chained, new


LEMMA OneLine ==
  ASSUME NEW l, IsLine(l)
  PROVE  /\ AreLines(<<l>>) /\ DOMAIN <<l>> = {1} /\ <<l>>[1] = l /\ Len(<<l>>) = 1
         /\ StampedAt(<<l>>) = IF l.integ = Unstamped THEN {} ELSE {1}
<1>1. DOMAIN <<l>> = {1} /\ <<l>>[1] = l /\ Len(<<l>>) = 1 /\ <<l>> \in Seq({l})
  OBVIOUS
<1>2. <<l>> \in Seq(Range(<<l>>))
  BY <1>1, SeqOfRange
<1>3. AreLines(<<l>>)
  BY <1>1, <1>2 DEF AreLines
<1>4. StampedAt(<<l>>) = {i \in {1} : l.integ # Unstamped}
  BY <1>1 DEF StampedAt
<1> QED  BY <1>1, <1>3, <1>4

LEMMA ChainedWithStamped ==
  ASSUME NEW s, NEW lost, NEW own, NEW born, Chained(s, lost, own, born),
         NEW content, IsContent(content), NEW l,
         l = [content |-> content, integ |-> Integrity(own, content)]
  PROVE  IsLine(l) /\ Chained(s \o <<l>>, lost, After(own, content), born)
<1> DEFINE b == l.integ
           u == s \o <<l>>
           k == Len(s) + 1
           h == Hash(born, own.seq + 1, own.prev, content)
           new == After(own, content)
<1>1. AreLines(s) /\ InSequence(s) /\ Accounted(s, lost) /\ Current(s, lost, own, born)
  BY DEF Chained
<1>2. /\ own = [id |-> born, seq |-> own.seq, prev |-> own.prev, born |-> born]
      /\ born \in Nat /\ own.seq \in Nat /\ (own.seq = 0 => own.prev = GENESIS)
      /\ \A i \in StampedAt(s) : s[i].integ.chain <= born
      /\ \A m \in lost : m \in Nat \X Nat /\ m[1] <= born
      /\ \A i \in StampedAt(s) : s[i].integ.chain = born =>
           /\ s[i].integ.seq <= own.seq
           /\ s[i].integ.seq = own.seq => s[i].integ.hash = own.prev
      /\ \A n \in 1..own.seq : <<born, n>> \in Holes(s) \cup lost
      /\ \A m \in lost : m[1] = born => m[2] <= own.seq
  BY <1>1 DEF Current
<1>3. /\ Integrity(own, content) = [chain |-> born, seq |-> own.seq + 1, prev_hash |-> own.prev, hash |-> h]
      /\ own.id = born
  <2>1. own.id = born
    BY <1>2
  <2> QED  BY <2>1 DEF Integrity
<1>4. /\ b = [chain |-> born, seq |-> own.seq + 1, prev_hash |-> own.prev, hash |-> h]
      /\ l = [content |-> content, integ |-> b] /\ l.content = content
  BY <1>3
<1>5. b # Unstamped
  BY <1>4 DEF Unstamped
<1>6. new = [id |-> born, seq |-> own.seq + 1, prev |-> h, born |-> born]
  <2>1. Integrity(own, content).hash = h
    BY <1>3
  <2>2. new = [own EXCEPT !.seq = own.seq + 1, !.prev = h]
    <3> HIDE DEF h
    <3> QED  BY <1>2, <2>1 DEF After
  <2> HIDE DEF h, new
  <2> DEFINE q == own.seq
             p == own.prev
  <2>4. own = [id |-> born, seq |-> q, prev |-> p, born |-> born]
    BY <1>2
  <2> HIDE DEF q, p
  <2> QED  BY <2>2, <2>4
<1>7. /\ b.chain = born /\ b.seq = own.seq + 1 /\ b.prev_hash = own.prev /\ b.hash = h
      /\ b.seq \in Nat \ {0}
  BY <1>2, <1>4
<1>8. IsLine(l)
  <2>1. IsBlock(b)
    BY <1>2, <1>4, <1>7 DEF IsBlock
  <2>2. Intact(l)
    BY <1>4, <1>7 DEF Intact
  <2> HIDE DEF b
  <2> QED  BY <1>4, <2>1, <2>2 DEF IsLine, b
<1> HIDE DEF u, k, b, h, new
<1>9. AreLines(<<l>>) /\ StampedAt(<<l>>) = {1} /\ <<l>>[1] = l
  BY <1>5, <1>8, OneLine DEF b
<1>10. /\ StampedAt(u) = StampedAt(s) \cup {k} /\ u[k] = l
       /\ \A i \in StampedAt(s) : u[i] = s[i] /\ i < k
       /\ AreLines(u)
       /\ Holes(u) = Holes(s) \cup Holes(<<l>>)
  <2> DEFINE t == <<l>>
  <2>1. AreLines(s) /\ AreLines(t) /\ StampedAt(t) = {1} /\ t[1] = l
    BY <1>1, <1>9
  <2> HIDE DEF t
  <2>2. /\ StampedAt(s \o t) = StampedAt(s) \cup {Len(s) + i : i \in StampedAt(t)}
        /\ \A i \in StampedAt(s) : (s \o t)[i] = s[i]
        /\ \A i \in StampedAt(t) : (s \o t)[Len(s) + i] = t[i]
        /\ \A i \in StampedAt(s), j \in StampedAt(t) : i < Len(s) + j
        /\ Holes(s \o t) = Holes(s) \cup Holes(t)
    BY <2>1, ConcatStamped
  <2>3. AreLines(s \o t)
    BY <2>1, ConcatLines
  <2>4. {Len(s) + i : i \in StampedAt(t)} = {k}
    BY <2>1 DEF k
  <2>5. (s \o t)[k] = l
    BY <2>1, <2>2 DEF k
  <2>6. \A i \in StampedAt(s) : i < k
    BY <2>1, <2>2 DEF k
  <2>7. s \o t = u /\ t = <<l>>
    BY DEF t, u
  <2> QED  BY <2>2, <2>3, <2>4, <2>5, <2>6, <2>7
<1>11. Holes(<<l>>) = {<<born, own.seq + 1>>}
  <2>1. <<l>>[1].integ.chain = born /\ <<l>>[1].integ.seq = own.seq + 1
    BY <1>7, <1>9 DEF b
  <2> QED  BY <1>9, <2>1 DEF Holes
<1>12. \A i \in StampedAt(s) : s[i].integ.seq \in Nat \ {0} /\ s[i].integ.chain \in Nat
  BY <1>1, LinesAreLegible DEF IsBlock
<1>13. /\ u[k].integ.chain = born /\ u[k].integ.seq = own.seq + 1
       /\ u[k].integ.prev_hash = own.prev /\ u[k].integ.hash = h
  BY <1>7, <1>10 DEF b
<1>14. InSequence(u)
  <2>1. \A i \in StampedAt(u) : u[i].integ.seq = 1 => u[i].integ.prev_hash = GENESIS
    BY <1>1, <1>2, <1>10, <1>13 DEF InSequence
  <2>2. ASSUME NEW i \in StampedAt(u), NEW j \in StampedAt(u),
               u[i].integ.chain = u[j].integ.chain, i < j
        PROVE  /\ u[i].integ.seq < u[j].integ.seq
               /\ u[j].integ.seq = u[i].integ.seq + 1 => u[j].integ.prev_hash = u[i].integ.hash
    <3>0. k \in Int /\ \A x \in StampedAt(s) : x \in Int
      BY <1>1, LinesAreLegible DEF k, StampedAt
    <3>1. i \in StampedAt(s)
      BY <1>10, <2>2, <3>0
    <3>2. CASE j \in StampedAt(s)
      BY <1>1, <1>10, <2>2, <3>1, <3>2 DEF InSequence
    <3>3. CASE j = k
      <4>1. /\ s[i].integ.chain = born /\ s[i].integ.seq <= own.seq /\ s[i].integ.seq \in Nat
            /\ s[i].integ.seq = own.seq => s[i].integ.hash = own.prev
        BY <1>2, <1>10, <1>12, <1>13, <2>2, <3>1, <3>3
      <4> QED  BY <1>2, <1>10, <1>13, <3>1, <3>3, <4>1
    <3> QED  BY <1>10, <3>2, <3>3
  <2> QED  BY <2>1, <2>2 DEF InSequence
<1>15. \A n \in 1..(own.seq + 1) : <<born, n>> \in Holes(u) \cup lost
  <2> SUFFICES ASSUME NEW n \in 1..(own.seq + 1), n # own.seq + 1
               PROVE  <<born, n>> \in Holes(s) \cup lost
    BY <1>10, <1>11
  <2>1. n \in 1..own.seq
    BY <1>2
  <2> QED  BY <1>2, <2>1
<1>16. Accounted(u, lost)
  <2>1. \A i \in StampedAt(u) : \A n \in 1..u[i].integ.seq : <<u[i].integ.chain, n>> \in Holes(u) \cup lost
    <3> SUFFICES ASSUME NEW i \in StampedAt(u), NEW n \in 1..u[i].integ.seq
                 PROVE  <<u[i].integ.chain, n>> \in Holes(u) \cup lost
      OBVIOUS
    <3>1. CASE i = k
      BY <1>13, <1>15, <3>1
    <3>2. CASE i \in StampedAt(s)
      BY <1>1, <1>10, <3>2 DEF Accounted
    <3> QED  BY <1>10, <3>1, <3>2
  <2>2. <<born, own.seq + 1>> \notin lost
    <3> DEFINE m == <<born, own.seq + 1>>
    <3>1. m[1] = born /\ ~(m[2] <= own.seq)
      BY <1>2
    <3> HIDE DEF m
    <3>2. m \notin lost
      BY <1>2, <3>1
    <3> QED  BY <3>2 DEF m
  <2>3. Holes(s) \cap lost = {}
    BY <1>1 DEF Accounted
  <2> QED  BY <1>10, <1>11, <2>1, <2>2, <2>3 DEF Accounted
<1>17. Current(u, lost, new, born)
  <2>1. /\ new = [id |-> born, seq |-> new.seq, prev |-> new.prev, born |-> born]
        /\ new.seq = own.seq + 1 /\ new.prev = h
    BY <1>6
  <2>2. \A i \in StampedAt(u) : u[i].integ.chain <= born
    BY <1>2, <1>10, <1>13
  <2>3. \A i \in StampedAt(u) : u[i].integ.chain = born =>
          /\ u[i].integ.seq <= own.seq + 1
          /\ u[i].integ.seq = own.seq + 1 => u[i].integ.hash = h
    BY <1>2, <1>10, <1>12, <1>13
  <2>4. \A m \in lost : m[1] = born => m[2] <= own.seq + 1
    BY <1>2
  <2>5. own.seq + 1 \in Nat /\ own.seq + 1 # 0
    BY <1>2
  <2> QED  BY <1>2, <1>15, <2>1, <2>2, <2>3, <2>4, <2>5 DEF Current
<1> QED  BY <1>8, <1>10, <1>14, <1>16, <1>17 DEF Chained, u, new


LEMMA LineParts ==
  ASSUME NEW s, AreLines(s), NEW n \in 0..Len(s)
  PROVE  /\ AreLines(SubSeq(s, 1, n)) /\ AreLines(SubSeq(s, n + 1, Len(s)))
         /\ SubSeq(s, 1, n) \o SubSeq(s, n + 1, Len(s)) = s
<1> DEFINE S == Range(s)
<1>1. s \in Seq(S) /\ Len(s) \in Nat /\ DOMAIN s = 1..Len(s) /\ \A i \in DOMAIN s : s[i] \in S /\ IsLine(s[i])
  BY LenProperties DEF AreLines
<1> HIDE DEF S
<1>2. ASSUME NEW m \in Int, NEW k \in Int, m >= 1, k <= Len(s) PROVE AreLines(SubSeq(s, m, k))
  <2> DEFINE u == SubSeq(s, m, k)
  <2>1. \A i \in m..k : s[i] \in S
    BY <1>1, <1>2
  <2>2. /\ u \in Seq(S)
        /\ Len(u) = IF m <= k THEN k - m + 1 ELSE 0
        /\ \A i \in 1..(k - m + 1) : u[i] = s[m + i - 1]
    BY <2>1, SubSeqProperties
  <2> HIDE DEF u
  <2>3. u \in Seq(Range(u)) /\ DOMAIN u = 1..Len(u)
    BY <2>2, SeqOfRange, LenProperties
  <2>4. \A i \in DOMAIN u : i \in 1..(k - m + 1) /\ m + i - 1 \in DOMAIN s
    <3>1. Len(u) \in {0, k - m + 1} /\ (Len(u) = k - m + 1 \/ DOMAIN u = {})
      BY <1>2, <2>2, <2>3
    <3> SUFFICES ASSUME NEW i \in DOMAIN u PROVE i \in 1..(k - m + 1) /\ m + i - 1 \in DOMAIN s
      OBVIOUS
    <3>2. i \in 1..(k - m + 1)
      BY <2>3, <3>1
    <3> QED  BY <1>1, <1>2, <3>2
  <2>5. \A i \in DOMAIN u : IsLine(u[i])
    BY <1>1, <2>2, <2>4
  <2> QED  BY <2>3, <2>5 DEF AreLines, u
<1>3. AreLines(SubSeq(s, 1, n)) /\ AreLines(SubSeq(s, n + 1, Len(s)))
  <2>1. n <= Len(s) /\ n + 1 \in Int /\ n + 1 >= 1 /\ Len(s) \in Int /\ Len(s) <= Len(s)
    BY <1>1
  <2> QED  BY <1>2, <2>1
<1>4. SubSeq(s, 1, n) \o SubSeq(s, n + 1, Len(s)) = s
  <2>1. /\ 1 \in 1..(Len(s) + 1) /\ n \in (1 - 1)..Len(s) /\ Len(s) \in n..Len(s)
    BY <1>1
  <2> DEFINE m == 1
             e == Len(s)
  <2>2. m \in 1..(Len(s) + 1) /\ n \in (m - 1)..Len(s) /\ e \in n..Len(s)
    BY <2>1
  <2> HIDE DEF m, e
  <2>3. SubSeq(s, m, n) \o SubSeq(s, n + 1, e) = SubSeq(s, m, e)
    BY <1>1, <2>2, ConcatAdjacentSubSeq
  <2>4. SubSeq(s, 1, Len(s)) = s
    BY <1>1, SubSeqFull
  <2>5. m = 1 /\ e = Len(s)
    BY DEF m, e
  <2> QED  BY <2>3, <2>4, <2>5, Zenon
<1> QED  BY <1>3, <1>4

LEMMA LinesAssociate ==
  ASSUME NEW s, AreLines(s), NEW t, AreLines(t), NEW u, AreLines(u),
         NEW v, v = s \o t, NEW w, w = t \o u
  PROVE  v \o u = s \o w
<1> DEFINE S == Range(s) \cup Range(t) \cup Range(u)
<1>1. s \in Seq(S) /\ t \in Seq(S) /\ u \in Seq(S)
  BY SeqMonotonic DEF AreLines
<1> HIDE DEF S
<1> QED  BY <1>1, ConcatAssociative

LEMMA LinesJoin ==
  /\ AreLines(<<>>) /\ StampedAt(<<>>) = {} /\ Holes(<<>>) = {}
  /\ \A s : AreLines(s) => s \o <<>> = s /\ <<>> \o s = s
  /\ \A s, l : AreLines(s) /\ IsLine(l) => Append(s, l) = s \o <<l>>
<1>1. AreLines(<<>>) /\ StampedAt(<<>>) = {}
  BY DEF AreLines, StampedAt
<1>2. Holes(<<>>) = {}
  BY <1>1 DEF Holes
<1>3. ASSUME NEW s, AreLines(s) PROVE s \o <<>> = s /\ <<>> \o s = s
  BY <1>3, ConcatEmptySeq DEF AreLines
<1>5. ASSUME NEW s, NEW l, AreLines(s), IsLine(l) PROVE Append(s, l) = s \o <<l>>
  <2> DEFINE S == Range(s) \cup {l}
  <2>1. s \in Seq(S) /\ l \in S
    BY <1>5, SeqMonotonic DEF AreLines
  <2> HIDE DEF S
  <2> QED  BY <2>1, AppendIsConcat
<1>6. \A s : AreLines(s) => s \o <<>> = s /\ <<>> \o s = s
  BY <1>3
<1>8. \A s, l : AreLines(s) /\ IsLine(l) => Append(s, l) = s \o <<l>>
  BY <1>5
<1> QED  BY <1>1, <1>2, <1>6, <1>8

-----------------------------------------------------------------------------
(* The chains of the file, of the batch in hand and of what is parked.     *)

\* The process's chain, as it is when the next document is stamped.
Continued == Reborn(chain, starts, starts)

Held == writer.lines \o retry

ChainInv ==
  /\ starts \in Nat
  /\ AreLines(disk) /\ AreLines(writer.lines) /\ AreLines(retry)
  /\ writer = [phase |-> writer.phase, docs |-> writer.docs, lines |-> writer.lines,
               again |-> writer.again]
  /\ writer.phase # "idle" => retry = <<>>
  /\ writer.phase \in {"idle", "starting"} => writer.lines = <<>>
  /\ Chained(disk \o Held, missing, Continued, starts)

LEMMA ChainInvInit == Init => ChainInv
<1> SUFFICES ASSUME Init PROVE ChainInv
  OBVIOUS
<1>1. /\ writer = [phase |-> "idle", docs |-> <<>>, lines |-> <<>>, again |-> FALSE]
      /\ retry = <<>> /\ disk = <<>> /\ missing = {} /\ starts = 1 /\ chain = NewChain(0, 0)
  BY DEF Init, NoBatch
<1>2. Held = <<>> /\ disk \o Held = <<>>
  BY <1>1, LinesJoin DEF Held
<1>3. Continued = [id |-> 1, seq |-> 0, prev |-> GENESIS, born |-> 1]
  BY <1>1 DEF Continued, Reborn, NewChain
<1>4. Chained(<<>>, {}, Continued, 1)
  <2>1. InSequence(<<>>) /\ Accounted(<<>>, {})
    BY LinesJoin DEF InSequence, Accounted
  <2>2. Current(<<>>, {}, Continued, 1)
    BY <1>3, LinesJoin DEF Current
  <2> QED  BY <2>1, <2>2, LinesJoin DEF Chained
<1> QED  BY <1>1, <1>2, <1>4, LinesJoin DEF ChainInv

LEMMA PlainLine ==
  ASSUME NEW doc, NEW out
  PROVE  IsLine(Line(doc, out, Unstamped)) /\ Line(doc, out, Unstamped).integ = Unstamped
<1> DEFINE tags == IF out.tag THEN <<"enrich_timeout">> ELSE <<>>
           c == [id |-> doc.id, tags |-> tags, skewed |-> FALSE, stream |-> Stream[starts]]
<1>1. tags \in {<<>>, <<"enrich_timeout">>}
  OBVIOUS
<1>2. Line(doc, out, Unstamped) = [content |-> c, integ |-> Unstamped]
  BY DEF Line
<1> HIDE DEF tags
<1>3. IsContent(c)
  BY <1>1 DEF IsContent
<1> HIDE DEF c
<1> QED  BY <1>2, <1>3 DEF IsLine

\* Steps that leave the chains alone.
LEMMA UnstampedStep ==
  ASSUME ChainInv, UNCHANGED <<disk, chain, missing, starts>>, AreLines(writer'.lines), AreLines(retry'),
         writer' = [phase |-> writer'.phase, docs |-> writer'.docs, lines |-> writer'.lines,
                    again |-> writer'.again],
         writer'.phase # "idle" => retry' = <<>>,
         writer'.phase \in {"idle", "starting"} => writer'.lines = <<>>,
         writer'.lines \o retry' = Held
  PROVE  ChainInv'
<1>1. Held' = Held /\ Continued' = Continued
  BY DEF Held, Continued
<1>2. Chained(disk \o Held, missing, Continued, starts)'
  BY <1>1 DEF ChainInv
<1> QED  BY <1>2 DEF ChainInv

LEMMA HeldIs ==
  ASSUME ChainInv
  PROVE  /\ retry = <<>> => Held = writer.lines
         /\ writer.lines = <<>> => Held = retry
         /\ AreLines(Held) /\ AreLines(disk \o Held)
  BY LinesJoin, ConcatLines DEF ChainInv, Held


LEMMA StampOneKeepsChains == ChainInv /\ StampOne => ChainInv'
<1> SUFFICES ASSUME ChainInv, StampOne PROVE ChainInv'
  OBVIOUS
<1> DEFINE i == Len(writer.lines) + 1
           d == apply.docs[i]
           plain == Line(d, apply.out[i], Unstamped)
           stamped == [plain EXCEPT !.integ = Integrity(Continued, plain.content)]
           l == IF d.id \in Unhashable THEN plain ELSE stamped
           s == disk \o Held
<1>1. /\ writer.phase = "preparing" /\ UNCHANGED <<retry, disk, missing, starts>>
      /\ chain' = IF d.id \in Unhashable THEN Continued ELSE After(Continued, plain.content)
      /\ writer' = [writer EXCEPT !.lines = Append(@, l)]
  BY DEF StampOne, Continued
<1>2. /\ retry = <<>> /\ Held = writer.lines /\ AreLines(Held) /\ AreLines(s)
      /\ Chained(s, missing, Continued, starts)
      /\ AreLines(disk) /\ starts \in Nat /\ AreLines(retry)
      /\ writer = [phase |-> "preparing", docs |-> writer.docs, lines |-> writer.lines,
                   again |-> writer.again]
  BY <1>1, HeldIs DEF ChainInv
<1> HIDE DEF d, i
<1>3. /\ IsLine(plain) /\ plain.integ = Unstamped
      /\ plain = [content |-> plain.content, integ |-> Unstamped] /\ IsContent(plain.content)
  <2>1. IsLine(plain) /\ plain.integ = Unstamped
    BY PlainLine
  <2> HIDE DEF plain
  <2> QED  BY <2>1 DEF IsLine
<1> HIDE DEF plain
<1>4. stamped = [content |-> plain.content, integ |-> Integrity(Continued, plain.content)]
  <2> DEFINE c == plain.content
             b == Integrity(Continued, c)
  <2>1. plain = [content |-> c, integ |-> Unstamped] /\ stamped = [plain EXCEPT !.integ = b]
    BY <1>3
  <2> HIDE DEF c, b, stamped
  <2>2. stamped = [content |-> c, integ |-> b]
    BY <2>1
  <2> QED  BY <2>2 DEF c, b
<1>5. /\ IsLine(stamped)
      /\ Chained(s \o <<stamped>>, missing, After(Continued, plain.content), starts)
  <2> DEFINE c == plain.content
  <2>1. IsContent(c) /\ stamped = [content |-> c, integ |-> Integrity(Continued, c)]
    BY <1>3, <1>4
  <2> HIDE DEF c, stamped, s
  <2>2. IsLine(stamped) /\ Chained(s \o <<stamped>>, missing, After(Continued, c), starts)
    BY <1>2, <2>1, ChainedWithStamped
  <2> QED  BY <2>2 DEF c
<1>6. Chained(s \o <<plain>>, missing, Continued, starts)
  <2>1. AreLines(<<plain>>) /\ StampedAt(<<plain>>) = {}
    BY <1>3, OneLine
  <2> HIDE DEF s
  <2> QED  BY <1>2, <2>1, ChainedWithPlain
<1> HIDE DEF stamped, s
<1>7. IsLine(l) /\ Chained(s \o <<l>>, missing, chain', starts)
  BY <1>1, <1>3, <1>5, <1>6
<1> HIDE DEF l
<1>8. AreLines(<<l>>) /\ Append(Held, l) = Held \o <<l>> /\ AreLines(Held \o <<l>>)
  <2>1. AreLines(<<l>>)
    BY <1>7, OneLine
  <2> QED  BY <1>2, <1>7, <2>1, LinesJoin, ConcatLines
<1>9. writer' = [phase |-> "preparing", docs |-> writer.docs, lines |-> Held \o <<l>>,
                 again |-> writer.again]
  BY <1>1, <1>2, <1>8
<1>10. disk' \o Held' = s \o <<l>>
  <2>1. Held' = Held \o <<l>>
    <3>1. writer'.lines = Held \o <<l>> /\ retry' = <<>>
      BY <1>1, <1>2, <1>9
    <3> QED  BY <1>8, <3>1, LinesJoin DEF Held
  <2> DEFINE w == Held \o <<l>>
             one == <<l>>
  <2>2. /\ s = disk \o Held /\ w = Held \o one
        /\ AreLines(disk) /\ AreLines(Held) /\ AreLines(one)
    BY <1>2, <1>8 DEF s
  <2> HIDE DEF w, one
  <2>3. s \o one = disk \o w
    BY <2>2, LinesAssociate
  <2> QED  BY <1>1, <2>1, <2>3 DEF one, w
<1>11. Continued' = chain'
  <2>1. chain'.born = starts
    BY <1>7 DEF Chained, Current
  <2> QED  BY <1>1, <2>1 DEF Continued, Reborn
<1>12. Chained(disk \o Held, missing, Continued, starts)'
  BY <1>1, <1>7, <1>10, <1>11
<1> QED  BY <1>1, <1>2, <1>8, <1>9, <1>12 DEF ChainInv

LEMMA WriteKeepsChains ==
  ASSUME ChainInv, NEW n \in 0..Len(writer.lines), Write(n)
  PROVE  ChainInv'
<1> DEFINE a == SubSeq(writer.lines, 1, n)
           rest == SubSeq(writer.lines, n + 1, Len(writer.lines))
<1>1. /\ disk' = disk \o a /\ writer' = NoBatch /\ UNCHANGED <<chain, starts>>
      /\ retry' = IF writer.again THEN <<>> ELSE rest
      /\ missing' = IF writer.again THEN missing \cup Holes(rest) ELSE missing
      /\ writer.phase = "writing"
  BY DEF Write
<1>2. /\ AreLines(a) /\ AreLines(rest) /\ a \o rest = writer.lines
      /\ AreLines(disk) /\ AreLines(disk \o a)
  BY LineParts, ConcatLines DEF ChainInv
<1>3. Chained(disk \o writer.lines, missing, Continued, starts)
  BY <1>1, HeldIs DEF ChainInv
<1> HIDE DEF a, rest
<1>4. disk \o writer.lines = (disk \o a) \o rest
  <2> DEFINE v == disk \o a
             w == a \o rest
  <2>1. v = disk \o a /\ w = a \o rest /\ AreLines(disk) /\ AreLines(a) /\ AreLines(rest)
    BY <1>2
  <2> HIDE DEF v, w
  <2>2. v \o rest = disk \o w
    BY <2>1, LinesAssociate
  <2> QED  BY <1>2, <2>1, <2>2
<1>5. Chained((disk \o a) \o rest, missing, Continued, starts)
  BY <1>3, <1>4
<1>6. Chained(disk \o a, missing \cup Holes(rest), Continued, starts)
  <2> DEFINE s == disk \o a
  <2>1. Chained(s \o rest, missing, Continued, starts) /\ AreLines(s) /\ AreLines(rest)
    BY <1>2, <1>5
  <2> HIDE DEF s
  <2>2. Chained(s, missing \cup Holes(rest), Continued, starts)
    BY <2>1, ChainedWithoutTheRest
  <2> QED  BY <2>2 DEF s
<1>7. /\ writer' = [phase |-> "idle", docs |-> <<>>, lines |-> <<>>, again |-> FALSE]
      /\ Held' = retry'
  <2>1. writer' = [phase |-> "idle", docs |-> <<>>, lines |-> <<>>, again |-> FALSE]
    BY <1>1 DEF NoBatch
  <2>2. AreLines(retry')
    BY <1>1, <1>2, LinesJoin
  <2> QED  BY <2>1, <2>2, LinesJoin DEF Held
<1>8. Continued' = Continued
  BY <1>1 DEF Continued
<1>9. Chained(disk \o Held, missing, Continued, starts)'
  <2>1. CASE writer.again
    <3>1. disk' \o Held' = disk \o a
      BY <1>1, <1>2, <1>7, <2>1, LinesJoin
    <3> QED  BY <1>1, <1>6, <1>8, <2>1, <3>1
  <2>2. CASE ~writer.again
    BY <1>1, <1>5, <1>7, <1>8, <2>2
  <2> QED  BY <2>1, <2>2
<1> QED  BY <1>1, <1>2, <1>7, <1>9, LinesJoin DEF ChainInv

LEMMA RestartKeepsChains == ChainInv /\ Restart => ChainInv'
<1> SUFFICES ASSUME ChainInv, Restart PROVE ChainInv'
  OBVIOUS
<1>1. /\ disk' = disk /\ writer' = NoBatch /\ retry' = <<>> /\ starts' = starts + 1
      /\ chain' = NewChain(starts + 1, starts + 1)
      /\ missing' = missing \cup Holes(writer.lines) \cup Holes(retry)
  BY DEF Restart
<1>2. /\ AreLines(disk) /\ AreLines(Held) /\ Chained(disk \o Held, missing, Continued, starts)
      /\ starts \in Nat
  BY HeldIs DEF ChainInv
<1>3. missing' = missing \cup Holes(Held)
  <2>1. retry = <<>> \/ writer.lines = <<>>
    BY DEF ChainInv
  <2> QED  BY <1>1, <2>1, HeldIs, LinesJoin
<1>4. Chained(disk, missing', Continued, starts)
  <2> HIDE DEF Held
  <2> QED  BY <1>2, <1>3, ChainedWithoutTheRest
<1>5. Chained(disk, missing', NewChain(starts + 1, starts + 1), starts + 1)
  BY <1>4, ChainedAnew
<1>6. Continued' = NewChain(starts + 1, starts + 1)
  BY <1>1 DEF Continued, Reborn, NewChain
<1>7. /\ writer' = [phase |-> "idle", docs |-> <<>>, lines |-> <<>>, again |-> FALSE]
      /\ Held' = <<>> /\ disk' \o Held' = disk
  <2>1. writer' = [phase |-> "idle", docs |-> <<>>, lines |-> <<>>, again |-> FALSE]
    BY <1>1 DEF NoBatch
  <2>2. Held' = <<>>
    BY <1>1, <2>1, LinesJoin DEF Held
  <2> QED  BY <1>1, <1>2, <2>1, <2>2, LinesJoin
<1>8. Chained(disk \o Held, missing, Continued, starts)'
  BY <1>1, <1>5, <1>6, <1>7
<1> QED  BY <1>1, <1>2, <1>7, <1>8, LinesJoin DEF ChainInv

LEMMA ChainInvNext == PatchInv /\ ChainInv /\ [Next]_vars => ChainInv'
<1> SUFFICES ASSUME PatchInv, ChainInv, [Next]_vars PROVE ChainInv'
  OBVIOUS
<1>0. /\ AreLines(disk) /\ AreLines(writer.lines) /\ AreLines(retry)
      /\ writer = [phase |-> writer.phase, docs |-> writer.docs, lines |-> writer.lines,
                   again |-> writer.again]
      /\ writer.phase # "idle" => retry = <<>>
      /\ writer.phase \in {"idle", "starting"} => writer.lines = <<>>
      /\ writer.docs \in Seq(Docs)
  BY DEF ChainInv, PatchInv
<1>1. CASE UNCHANGED <<writer, retry, disk, chain, missing, starts>>
  BY <1>0, <1>1, UnstampedStep DEF Held
<1>2. ASSUME NEW n \in BatchSizes, Drain(n) PROVE ChainInv'
  <2>1. /\ writer' = [phase |-> "starting", docs |-> Upcoming(n), lines |-> <<>>, again |-> FALSE]
        /\ retry = <<>> /\ writer.lines = <<>> /\ UNCHANGED <<retry, disk, chain, missing, starts>>
    BY <1>0, <1>2 DEF Drain, MayFlush, NoBatch
  <2>2. Held = <<>> /\ writer'.lines \o retry' = <<>>
    BY <2>1, LinesJoin DEF Held
  <2> QED  BY <2>1, <2>2, LinesJoin, UnstampedStep
<1>3. CASE Begin
  <2>1. /\ writer' = [phase |-> "preparing", docs |-> writer.docs, lines |-> writer.lines,
                      again |-> writer.again]
        /\ retry = <<>> /\ UNCHANGED <<retry, disk, chain, missing, starts>>
    BY <1>0, <1>3 DEF Begin
  <2> QED  BY <1>0, <2>1, UnstampedStep DEF Held
<1>4. CASE Cancelled
  <2> DEFINE t == [i \in DOMAIN writer.docs |-> Line(writer.docs[i], Unpatched, Unstamped)]
  <2>1. /\ retry' = t /\ writer' = NoBatch /\ retry = <<>> /\ writer.lines = <<>>
        /\ UNCHANGED <<disk, chain, missing, starts>>
    BY <1>0, <1>4 DEF Cancelled
  <2>2. AreLines(t) /\ StampedAt(t) = {}
    <3>1. \A i \in DOMAIN t : IsLine(t[i]) /\ t[i].integ = Unstamped
      BY PlainLine
    <3>2. DOMAIN t = 1..Len(writer.docs) /\ Len(writer.docs) \in Nat
      BY <1>0, LenProperties
    <3>3. t \in Seq(Range(t))
      <4>1. \A i \in DOMAIN t : t[i] \in Range(t)
        BY DEF Range
      <4>2. t \in [1..Len(writer.docs) -> Range(t)]
        BY <3>2, <4>1
      <4> HIDE DEF t
      <4> QED  BY <3>2, <4>2
    <3> HIDE DEF t
    <3> QED  BY <3>1, <3>3 DEF AreLines, StampedAt
  <2> HIDE DEF t
  <2>3. Chained(disk \o t, missing, Continued, starts)
    <3>1. Held = <<>> /\ disk \o Held = disk
      BY <1>0, <2>1, LinesJoin DEF Held
    <3>2. Chained(disk, missing, Continued, starts)
      BY <3>1 DEF ChainInv
    <3> QED  BY <2>2, <3>2, ChainedWithPlain
  <2>4. /\ writer' = [phase |-> "idle", docs |-> <<>>, lines |-> <<>>, again |-> FALSE]
        /\ Held' = t /\ Continued' = Continued
    <3>1. writer' = [phase |-> "idle", docs |-> <<>>, lines |-> <<>>, again |-> FALSE]
      BY <2>1 DEF NoBatch
    <3> QED  BY <2>1, <2>2, <3>1, LinesJoin DEF Held, Continued
  <2>5. Chained(disk \o Held, missing, Continued, starts)'
    BY <2>1, <2>3, <2>4
  <2> QED  BY <1>0, <2>1, <2>2, <2>4, <2>5, LinesJoin DEF ChainInv
<1>5. CASE Prepared
  <2>1. /\ writer' = [phase |-> "writing", docs |-> <<>>, lines |-> writer.lines, again |-> writer.again]
        /\ retry = <<>> /\ UNCHANGED <<retry, disk, chain, missing, starts>>
    BY <1>0, <1>5 DEF Prepared
  <2> QED  BY <1>0, <2>1, UnstampedStep DEF Held
<1>6. CASE Retry
  <2>1. /\ writer' = [phase |-> "writing", docs |-> <<>>, lines |-> retry, again |-> TRUE]
        /\ retry' = <<>> /\ writer.lines = <<>> /\ UNCHANGED <<disk, chain, missing, starts>>
    BY <1>0, <1>6 DEF Retry, MayFlush, NoBatch
  <2>2. Held = retry /\ writer'.lines \o retry' = retry
    BY <1>0, <2>1, LinesJoin DEF Held
  <2> QED  BY <1>0, <2>1, <2>2, LinesJoin, UnstampedStep
<1>7. CASE (PoolNext \/ ApplyNext) /\ UNCHANGED bvars
  BY <1>1, <1>7 DEF bvars
<1>8. CASE UNCHANGED vars
  BY <1>1, <1>8 DEF vars, bvars
<1> QED  BY <1>2, <1>3, <1>4, <1>5, <1>6, <1>7, <1>8, StampOneKeepsChains, WriteKeepsChains,
            RestartKeepsChains DEF Next


-----------------------------------------------------------------------------
(* What verify says of what is left of a file.                             *)

LEMMA PartTells ==
  ASSUME NEW front, AreLines(front), NEW left, AreLines(left), NEW lost,
         NEW d, d = front \o left, InSequence(d), Accounted(d, lost), lost \subseteq Nat \X Nat
  PROVE  Whole(left) <=>
           ~ \E id \in Chains(left) : \E m \in lost : \E i, j \in Entries(left, id) :
               m[1] = id /\ left[i].integ.seq < m[2] /\ m[2] < left[j].integ.seq
<1> DEFINE end == Len(front)
           Hole(id) == \E m \in lost : \E i, j \in Entries(left, id) :
                         m[1] = id /\ left[i].integ.seq < m[2] /\ m[2] < left[j].integ.seq
<1>1. /\ StampedAt(d) = StampedAt(front) \cup {end + i : i \in StampedAt(left)}
      /\ \A i \in StampedAt(left) : d[end + i] = left[i]
      /\ \A i \in StampedAt(front), j \in StampedAt(left) : i < end + j
  <2>1. /\ StampedAt(front \o left) = StampedAt(front) \cup {Len(front) + i : i \in StampedAt(left)}
        /\ \A i \in StampedAt(front) : (front \o left)[i] = front[i]
        /\ \A i \in StampedAt(left) : (front \o left)[Len(front) + i] = left[i]
        /\ \A i \in StampedAt(front), j \in StampedAt(left) : i < Len(front) + j
        /\ Holes(front \o left) = Holes(front) \cup Holes(left)
    BY ConcatStamped
  <2> QED  BY <2>1
<1>2. /\ Legible(left) /\ \A i \in StampedAt(left) : Intact(left[i]) /\ i \in Nat
      /\ Len(front) \in Nat
  BY LinesAreLegible DEF StampedAt, IsLine
<1> HIDE DEF end
<1>3. \A i \in StampedAt(left) : left[i].integ.seq \in Nat \ {0}
  BY <1>2 DEF Legible
<1>4. \A i \in StampedAt(left) : end + i \in StampedAt(d) /\ d[end + i] = left[i]
  BY <1>1
<1>5. \A i, j \in StampedAt(left) : left[i].integ.chain = left[j].integ.chain /\ i < j =>
        /\ left[i].integ.seq < left[j].integ.seq
        /\ left[j].integ.seq = left[i].integ.seq + 1 => left[j].integ.prev_hash = left[i].integ.hash
  <2> SUFFICES ASSUME NEW i \in StampedAt(left), NEW j \in StampedAt(left),
                      left[i].integ.chain = left[j].integ.chain, i < j
               PROVE  /\ left[i].integ.seq < left[j].integ.seq
                      /\ left[j].integ.seq = left[i].integ.seq + 1 =>
                           left[j].integ.prev_hash = left[i].integ.hash
    OBVIOUS
  <2> DEFINE x == end + i
             y == end + j
  <2>1. x < y
    BY <1>2 DEF end
  <2>2. x \in StampedAt(d) /\ y \in StampedAt(d) /\ d[x] = left[i] /\ d[y] = left[j]
    BY <1>4
  <2> HIDE DEF x, y
  <2>3. d[x].integ.chain = d[y].integ.chain
    BY <2>2
  <2>4. /\ d[x].integ.seq < d[y].integ.seq
        /\ d[y].integ.seq = d[x].integ.seq + 1 => d[y].integ.prev_hash = d[x].integ.hash
    BY <2>1, <2>2, <2>3 DEF InSequence
  <2> QED  BY <2>2, <2>4
<1>6. \A i \in StampedAt(left) : /\ <<left[i].integ.chain, left[i].integ.seq>> \in Holes(d)
                                 /\ <<left[i].integ.chain, left[i].integ.seq>> \notin lost
  <2>1. \A i \in StampedAt(left) : <<left[i].integ.chain, left[i].integ.seq>> \in Holes(d)
    <3> SUFFICES ASSUME NEW i \in StampedAt(left)
                 PROVE  <<left[i].integ.chain, left[i].integ.seq>> \in Holes(d)
      OBVIOUS
    <3> DEFINE x == end + i
    <3>1. x \in StampedAt(d) /\ d[x] = left[i]
      BY <1>4
    <3> HIDE DEF x
    <3> QED  BY <3>1 DEF Holes
  <2> QED  BY <2>1 DEF Accounted
\* Something is missing.
<1>7. ASSUME Whole(left), NEW id \in Chains(left), Hole(id) PROVE FALSE
  <2>1. PICK m \in lost, a \in Entries(left, id), b \in Entries(left, id) :
          m[1] = id /\ left[a].integ.seq < m[2] /\ m[2] < left[b].integ.seq
    BY <1>7
  <2> DEFINE q == m[2]
  <2>2. q \in Nat /\ m = <<id, q>>
    BY <2>1
  <2> HIDE DEF q
  <2>3. left[a].integ.seq <= q /\ q < left[b].integ.seq
    BY <1>3, <2>1, <2>2 DEF Entries, q
  <2>4. PICK j \in Entries(left, id) : left[j].integ.seq = q
    BY <1>2, <1>7, <2>2, <2>3, NoneBetween
  <2> QED  BY <1>6, <2>2, <2>4 DEF Entries
\* Nothing is missing.
<1>8. ASSUME \A id \in Chains(left) : ~Hole(id), NEW i \in StampedAt(left)
      PROVE  LET kin == Entries(left, left[i].integ.chain) IN
             /\ Intact(left[i])
             /\ \A j \in kin : j # i => left[j].integ.seq # left[i].integ.seq
             /\ \/ \A j \in kin : left[i].integ.seq <= left[j].integ.seq
                \/ \E j \in kin : Follows(left[i], left[j])
             /\ left[i].integ.seq = 1 => left[i].integ.prev_hash = GENESIS
  <2> DEFINE id == left[i].integ.chain
             P == Entries(left, id)
  <2>1. \A j \in P : j \in StampedAt(left) /\ left[j].integ.chain = id /\ j \in Nat
    BY <1>2 DEF Entries
  <2>2. i \in P /\ id \in Chains(left)
    BY DEF Entries, Chains
  <2>3. \A j \in P : j # i => left[j].integ.seq # left[i].integ.seq
    <3> SUFFICES ASSUME NEW j \in P, j # i PROVE left[j].integ.seq # left[i].integ.seq
      OBVIOUS
    <3>1. i < j \/ j < i
      BY <1>2, <2>1
    <3>2. left[i].integ.seq < left[j].integ.seq \/ left[j].integ.seq < left[i].integ.seq
      BY <1>5, <2>1, <3>1
    <3> QED  BY <1>3, <2>1, <3>2
  <2>4. ASSUME NEW j \in P, ~(left[i].integ.seq <= left[j].integ.seq)
        PROVE  \E k \in P : Follows(left[i], left[k])
    <3> DEFINE q == left[i].integ.seq - 1
    <3>1. /\ q \in 1..left[i].integ.seq /\ q \in Nat /\ left[i].integ.seq = q + 1
          /\ left[j].integ.seq <= q /\ left[j].integ.seq \in Nat
      BY <1>3, <2>1, <2>4
    <3> HIDE DEF q
    <3>2. <<id, q>> \in Holes(d) \cup lost
      <4> DEFINE x == end + i
      <4>1. x \in StampedAt(d) /\ d[x] = left[i]
        BY <1>4
      <4> HIDE DEF x
      <4> QED  BY <3>1, <4>1 DEF Accounted
    <3>3. <<id, q>> \notin lost
      <4> SUFFICES ASSUME <<id, q>> \in lost PROVE FALSE
        OBVIOUS
      <4>1. left[j].integ.seq # q
        BY <1>6, <2>1
      <4>2. left[j].integ.seq < q /\ q < left[i].integ.seq
        BY <3>1, <4>1
      <4> DEFINE m == <<id, q>>
      <4>3. m \in lost /\ m[1] = id /\ m[2] = q
        OBVIOUS
      <4> HIDE DEF m, P, id
      <4>4. Hole(id)
        BY <2>2, <4>2, <4>3 DEF P
      <4> QED  BY <1>8, <2>2, <4>4
    <3>4. PICK x \in StampedAt(d) : d[x].integ.chain = id /\ d[x].integ.seq = q
      BY <3>2, <3>3 DEF Holes
    <3>5. x \notin StampedAt(front)
      <4> SUFFICES ASSUME x \in StampedAt(front) PROVE FALSE
        OBVIOUS
      <4> DEFINE y == end + j
      <4>1. x < y /\ y \in StampedAt(d) /\ d[y] = left[j]
        BY <1>1, <1>4, <2>1
      <4> HIDE DEF y
      <4>2. q < left[j].integ.seq
        <5>1. x \in StampedAt(d) /\ d[x].integ.chain = d[y].integ.chain
          BY <2>1, <3>4, <4>1
        <5>2. d[x].integ.seq < d[y].integ.seq
          BY <4>1, <5>1 DEF InSequence
        <5> QED  BY <3>4, <4>1, <5>2
      <4> QED  BY <3>1, <4>2
    <3>6. PICK k \in StampedAt(left) : x = end + k
      BY <1>1, <3>4, <3>5
    <3>7. left[k].integ.chain = id /\ left[k].integ.seq = q /\ k \in P /\ k \in Nat /\ i \in Nat
      BY <1>2, <1>4, <3>4, <3>6 DEF Entries
    <3>8. k < i
      <4>1. k # i
        BY <3>1, <3>7
      <4>2. ~(i < k)
        <5> SUFFICES ASSUME i < k PROVE FALSE
          OBVIOUS
        <5>1. left[i].integ.seq < left[k].integ.seq
          BY <1>5, <3>7
        <5> QED  BY <3>1, <3>7, <5>1
      <4> QED  BY <3>7, <4>1, <4>2
    <3>9. left[i].integ.prev_hash = left[k].integ.hash
      BY <1>5, <3>1, <3>7, <3>8
    <3> QED  BY <3>1, <3>7, <3>9 DEF Follows
  <2>5. left[i].integ.seq = 1 => left[i].integ.prev_hash = GENESIS
    <3> DEFINE x == end + i
    <3>1. x \in StampedAt(d) /\ d[x] = left[i]
      BY <1>4
    <3> HIDE DEF x
    <3> QED  BY <3>1 DEF InSequence
  <2> QED  BY <1>2, <2>3, <2>4, <2>5
<1>9. (\A id \in Chains(left) : ~Hole(id)) => Whole(left)
  <2> HIDE DEF Hole
  <2> QED  BY <1>8 DEF Whole
<1> QED  BY <1>7, <1>9


\* What was parked or is in hand comes after all of the file.
LEMMA FileIsChained ==
  ASSUME ChainInv
  PROVE  AreLines(disk) /\ InSequence(disk) /\ Accounted(disk, missing) /\ missing \subseteq Nat \X Nat
<1> DEFINE u == disk \o Held
           end == Len(disk)
<1>1. /\ AreLines(disk) /\ AreLines(Held) /\ AreLines(u)
      /\ InSequence(u) /\ Accounted(u, missing) /\ missing \subseteq Nat \X Nat
  <2>1. AreLines(disk) /\ AreLines(Held) /\ Chained(disk \o Held, missing, Continued, starts)
    BY HeldIs DEF ChainInv
  <2> QED  BY <2>1 DEF Chained, Current
<1>2. /\ StampedAt(u) = StampedAt(disk) \cup {end + i : i \in StampedAt(Held)}
      /\ \A i \in StampedAt(disk) : u[i] = disk[i]
      /\ \A i \in StampedAt(Held) : u[end + i] = Held[i]
      /\ \A i \in StampedAt(disk), j \in StampedAt(Held) : i < end + j
      /\ Holes(u) = Holes(disk) \cup Holes(Held)
  <2> HIDE DEF Held
  <2> QED  BY <1>1, ConcatStamped
<1> HIDE DEF u, end
<1>3. InSequence(disk)
  BY <1>1, <1>2 DEF InSequence
<1>4. Holes(disk) \cap missing = {}
  BY <1>1, <1>2 DEF Accounted
<1>5. ASSUME NEW i \in StampedAt(disk), NEW n \in 1..disk[i].integ.seq
      PROVE  <<disk[i].integ.chain, n>> \in Holes(disk) \cup missing
  <2>1. i \in StampedAt(u) /\ u[i] = disk[i] /\ disk[i].integ.seq \in Nat
    BY <1>1, <1>2, LinesAreLegible DEF Legible
  <2>2. <<disk[i].integ.chain, n>> \in Holes(disk) \cup Holes(Held) \cup missing
    BY <1>1, <1>2, <2>1 DEF Accounted
  <2>3. <<disk[i].integ.chain, n>> \notin Holes(Held)
    <3> SUFFICES ASSUME NEW j \in StampedAt(Held), Held[j].integ.chain = disk[i].integ.chain,
                        Held[j].integ.seq = n
                 PROVE  FALSE
      BY DEF Holes
    <3> DEFINE y == end + j
    <3>1. y \in StampedAt(u) /\ u[y] = Held[j] /\ i < y
      BY <1>2
    <3> HIDE DEF y
    <3>2. u[i].integ.chain = u[y].integ.chain
      BY <2>1, <3>1
    <3>3. u[i].integ.seq < u[y].integ.seq
      BY <1>1, <2>1, <3>1, <3>2 DEF InSequence
    <3> QED  BY <2>1, <3>1, <3>3
  <2> QED  BY <2>2, <2>3
<1>6. Accounted(disk, missing)
  BY <1>4, <1>5 DEF Accounted
<1> QED  BY <1>1, <1>3, <1>6

LEMMA LastTakenOff ==
  ASSUME NEW S, NEW s \in Seq(S), NEW x \in S, ~Contains(s, x)
  PROVE  WithoutLast(Append(s, x), x) = s
<1> DEFINE t == Append(s, x)
           k == Len(s) + 1
           at == {i \in DOMAIN t : t[i] = x}
<1>1. /\ t \in Seq(S) /\ Len(t) = k /\ DOMAIN t = 1..k /\ t[k] = x /\ Len(s) \in Nat
      /\ \A i \in 1..Len(s) : t[i] = s[i]
  <2>1. /\ Append(s, x) \in Seq(S) /\ Len(Append(s, x)) = Len(s) + 1
        /\ \A i \in 1..Len(s) : Append(s, x)[i] = s[i]
        /\ Append(s, x)[Len(s) + 1] = x
    BY AppendProperties
  <2>2. DOMAIN t = 1..Len(t)
    <3>1. t \in Seq(S)
      BY <2>1
    <3> HIDE DEF t
    <3> QED  BY <3>1, LenProperties
  <2> QED  BY <2>1, <2>2, LenProperties
<1> HIDE DEF t
<1>2. at = {k}
  BY <1>1 DEF Contains
<1>3. WithoutLast(t, x) = RemoveAt(t, k)
  <2>1. (CHOOSE i \in at : \A j \in at : j <= i) = k
    BY <1>1, <1>2
  <2>2. at # {}
    BY <1>2
  <2> QED  BY <2>1, <2>2 DEF WithoutLast
<1>4. /\ RemoveAt(t, k) \in Seq(S) /\ Len(RemoveAt(t, k)) = Len(s)
      /\ \A i \in 1..Len(s) : RemoveAt(t, k)[i] = s[i]
  <2>1. /\ RemoveAt(t, k) \in Seq(S) /\ Len(RemoveAt(t, k)) = Len(t) - 1
        /\ \A i \in 1..(Len(t) - 1) : RemoveAt(t, k)[i] = IF i < k THEN t[i] ELSE t[i + 1]
    <3>1. k \in 1..Len(t)
      BY <1>1
    <3> HIDE DEF k
    <3> QED  BY <1>1, <3>1, RemovedAt
  <2> QED  BY <1>1, <2>1
<1>5. RemoveAt(t, k) = s
  <2> DEFINE r == RemoveAt(t, k)
  <2>1. r \in Seq(S) /\ Len(r) = Len(s) /\ \A i \in 1..Len(r) : r[i] = s[i]
    BY <1>4
  <2> HIDE DEF r
  <2>2. r = s
    BY <2>1, SeqEqual
  <2> QED  BY <2>2 DEF r
<1> QED  BY <1>3, <1>5 DEF t

\* What the shipper adds at ship time, and verify-chain takes off again.
LEMMA ShippedAndBack ==
  ASSUME NEW c, IsContent(c), NEW late \in BOOLEAN
  PROVE  Unship(ShippedAs(c, late, c.stream)) = c
<1> DEFINE id == c.id
           tags == c.tags
           stream == c.stream
<1>1. /\ c = [id |-> id, tags |-> tags, skewed |-> FALSE, stream |-> stream]
      /\ tags \in {<<>>, <<"enrich_timeout">>}
  BY DEF IsContent
<1> HIDE DEF id, tags, stream
<1>2. CASE ~late
  <2>1. (IF late THEN MarkSkew(c) ELSE c) = c
    BY <1>2
  <2>2. [c EXCEPT !.stream = stream] = c
    <3>1. c \in [id : {id}, tags : {tags}, skewed : {FALSE}, stream : {stream}]
      BY <1>1
    <3> QED  BY <3>1
  <2>3. ShippedAs(c, late, stream) = c
    BY <2>1, <2>2 DEF ShippedAs
  <2> QED  BY <1>1, <2>3 DEF Unship, stream
<1>3. CASE late
  <2> DEFINE long == Append(tags, SKEW)
             shipped == [id |-> id, tags |-> long, skewed |-> TRUE, stream |-> stream]
             S == {"enrich_timeout", SKEW}
  <2>1. ~Contains(tags, SKEW)
    BY <1>1 DEF Contains, SKEW
  <2>2. tags \in Seq(S) /\ SKEW \in S
    <3>1. <<>> \in Seq(S) /\ <<"enrich_timeout">> \in Seq(S)
      OBVIOUS
    <3> QED  BY <1>1, <3>1
  <2> HIDE DEF S
  <2>3. WithoutLast(long, SKEW) = tags
    BY <2>1, <2>2, LastTakenOff
  <2>4. MarkSkew(c) = [c EXCEPT !.skewed = TRUE, !.tags = long]
    BY <2>1 DEF MarkSkew, tags
  <2> HIDE DEF long
  <2>5. MarkSkew(c) = shipped
    BY <1>1, <2>4
  <2>6. (IF late THEN MarkSkew(c) ELSE c) = shipped
    BY <1>3, <2>5
  <2>7. shipped \in [id : {id}, tags : {long}, skewed : {TRUE}, stream : {stream}]
    OBVIOUS
  <2>8. [shipped EXCEPT !.stream = stream] = shipped
    <3> HIDE DEF shipped
    <3> QED  BY <2>7
  <2>9. ShippedAs(c, late, stream) = shipped
    <3> HIDE DEF shipped
    <3> QED  BY <2>6, <2>8 DEF ShippedAs
  <2>10. Unship(shipped) = [shipped EXCEPT !.skewed = FALSE, !.tags = WithoutLast(long, SKEW)]
    BY DEF Unship
  <2>11. [shipped EXCEPT !.skewed = FALSE, !.tags = tags] = c
    <3> HIDE DEF shipped
    <3> DEFINE back == [shipped EXCEPT !.skewed = FALSE, !.tags = tags]
    <3>1. back \in [id : {id}, tags : {tags}, skewed : {FALSE}, stream : {stream}]
      BY <2>7
    <3> HIDE DEF back
    <3>2. back = [id |-> id, tags |-> tags, skewed |-> FALSE, stream |-> stream]
      BY <3>1
    <3> QED  BY <1>1, <3>2 DEF back
  <2> QED  BY <2>3, <2>9, <2>10, <2>11 DEF stream
<1> QED  BY <1>2, <1>3

LEMMA ReadBack ==
  ASSUME NEW left, AreLines(left), \A i \in DOMAIN left : left[i].content.stream = Stream[starts],
         NEW late
  PROVE  Retrieved(left, late) = left
<1>1. ASSUME NEW i \in DOMAIN left
      PROVE  [left[i] EXCEPT !.content = Unship(ShippedAs(@, i \in late, Stream[starts]))] = left[i]
  <2> DEFINE l == left[i]
             c == l.content
             b == l.integ
  <2>1. l = [content |-> c, integ |-> b] /\ IsContent(c) /\ c.stream = Stream[starts]
    BY DEF AreLines, IsLine
  <2> HIDE DEF c, b
  <2> DEFINE same == Unship(ShippedAs(c, i \in late, Stream[starts]))
  <2>2. same = c
    <3> DEFINE how == i \in late
    <3>1. how \in BOOLEAN
      OBVIOUS
    <3> HIDE DEF how
    <3>2. Unship(ShippedAs(c, how, c.stream)) = c
      BY <2>1, <3>1, ShippedAndBack
    <3> QED  BY <2>1, <3>2 DEF how
  <2>3. [l EXCEPT !.content = Unship(ShippedAs(@, i \in late, Stream[starts]))] =
          [l EXCEPT !.content = same]
    BY DEF c
  <2> HIDE DEF same, l
  <2>4. [l EXCEPT !.content = c] = l
    BY <2>1
  <2> QED  BY <2>2, <2>3, <2>4 DEF l
<1>2. left = [i \in DOMAIN left |-> left[i]]
  BY DEF AreLines
<1> QED  BY <1>1, <1>2 DEF Retrieved

\* Through every loss, retry, flush cancelled before its thread begins and restart,
\* verify tells of what is left of the file, and of what was shipped, whether
\* something is missing in between (integrity.py:102-147, check.py:375-397).
THEOREM VerifyTells == Spec => []VerifyTellsTheLosses
<1>1. ChainInv => VerifyTellsTheLosses
  <2> SUFFICES ASSUME ChainInv, NEW n \in 1..(Len(disk) + 1)
               PROVE  LET left == SubSeq(disk, n, Len(disk))
                          stayed == \A i \in DOMAIN left : left[i].content.stream = Stream[starts]
                          kept(id) == {left[i].integ.seq : i \in Entries(left, id)}
                          hole(id) == \E m \in missing : \E a, b \in kept(id) :
                                        m[1] = id /\ a < m[2] /\ m[2] < b
                          complete == ~ \E id \in Chains(left) : hole(id)
                      IN /\ Verifies(left) <=> complete
                         /\ stayed => \A late \in {{}, DOMAIN left} :
                                        Verifies(Retrieved(left, late)) <=> complete
    BY DEF VerifyTellsTheLosses
  <2> DEFINE front == SubSeq(disk, 1, n - 1)
             left == SubSeq(disk, n, Len(disk))
             kept(id) == {left[i].integ.seq : i \in Entries(left, id)}
             hole(id) == \E m \in missing : \E a, b \in kept(id) : m[1] = id /\ a < m[2] /\ m[2] < b
             complete == ~ \E id \in Chains(left) : hole(id)
  <2>1. AreLines(disk) /\ InSequence(disk) /\ Accounted(disk, missing) /\ missing \subseteq Nat \X Nat
    BY FileIsChained
  <2>2. AreLines(front) /\ AreLines(left) /\ disk = front \o left
    <3>1. n - 1 \in 0..Len(disk) /\ n - 1 + 1 = n
      BY <2>1, LinesAreLegible
    <3> DEFINE k == n - 1
    <3> HIDE DEF k
    <3>2. /\ AreLines(SubSeq(disk, 1, k)) /\ AreLines(SubSeq(disk, k + 1, Len(disk)))
          /\ SubSeq(disk, 1, k) \o SubSeq(disk, k + 1, Len(disk)) = disk
      BY <2>1, <3>1, LineParts DEF k
    <3> QED  BY <3>1, <3>2 DEF k
  <2> HIDE DEF front, left
  <2>3. Whole(left) <=>
          ~ \E id \in Chains(left) : \E m \in missing : \E i, j \in Entries(left, id) :
              m[1] = id /\ left[i].integ.seq < m[2] /\ m[2] < left[j].integ.seq
    BY <2>1, <2>2, PartTells
  <2>4. Verifies(left) <=> complete
    <3>1. Verifies(left) <=> Whole(left)
      BY <2>2, LinesAreLegible, VerifiesExactly
    <3> QED  BY <2>3, <3>1
  <2>5. ASSUME \A i \in DOMAIN left : left[i].content.stream = Stream[starts], NEW late
        PROVE  Retrieved(left, late) = left
    BY <2>2, <2>5, ReadBack
  <2> HIDE DEF complete
  <2> QED  BY <2>4, <2>5 DEF left, complete
<1>2. PatchInv /\ ChainInv /\ [Next]_vars => (PatchInv /\ ChainInv)'
  BY PatchInvNext, ChainInvNext
<1> QED  BY <1>1, <1>2, PatchInvInit, ChainInvInit, PTL DEF Spec

\* The chain's purpose (integrity.py:102-147): what verifies cannot be changed, taken
\* from between two others, stored twice or hashed again unnoticed.
THEOREM TamperingIsShown == Spec => []TamperingShows
<1>1. ChainInv => TamperingShows
  BY TamperingIsSeen DEF ChainInv
<1>2. PatchInv /\ ChainInv /\ [Next]_vars => (PatchInv /\ ChainInv)'
  BY PatchInvNext, ChainInvNext
<1> QED  BY <1>1, <1>2, PatchInvInit, ChainInvInit, PTL DEF Spec
=============================================================================
