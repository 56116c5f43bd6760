--------------------------- MODULE FileSinkProofs ---------------------------
(***************************************************************************)
(* What holds of FileSink for any number of documents, threads and list    *)
(* objects, in three parts:                                                *)
(*   1. its types, and the bytes it holds, which stay within               *)
(*      QueueMax * (1 + Growth), hence within queue_max_bytes without      *)
(*      hooks, whoever calls flush();                                      *)
(*   2. the ledger: no line vanishes;                                      *)
(*   3. it implements SinkContract, and a clean close() settles all.       *)
(***************************************************************************)
EXTENDS FileSink, SequenceTheorems, TLAPS

-----------------------------------------------------------------------------
(* Types.  Two facts about control are needed to type the steps: a thread  *)
(* at work has a list, and a coroutine inside a flush has rounds left.     *)

ThreadHasList ==
  \A w \in Workers :
    thread[w].st # "idle" \/ thread[w].owner # Detached => thread[w].batch \in Batches

RoundsLeft == \A a \in Actors : pc[a] \in {"lock", "write"} => rounds[a] <= Rounds

\* The conjuncts of TypeOK, by what the actions change together.
QueueTyped ==
  /\ queue \in Seq(Lines) /\ queueBytes \in Nat
  /\ inflightBytes \in Nat /\ retry \in Batches \cup {NoBatch}
ListsTyped == content \in [Batches -> Seq(Lines)] /\ stamped \in [Batches -> BOOLEAN]
FlowTyped == pc \in [Actors -> PCs] /\ rounds \in [Actors -> 0..(Rounds + 1)]
ThreadTyped == thread \in [Workers -> ThreadRecord]
LifeTyped ==
  /\ closed \in BOOLEAN /\ terminated \in BOOLEAN /\ started \in BOOLEAN
  /\ starting \in BOOLEAN /\ loopDone \in BOOLEAN /\ timedOut \in BOOLEAN
LedgerTyped ==
  /\ handed \in Seq(Lines) /\ accepted \in Seq(Lines) /\ landed \in Seq(Lines)
  /\ torn \in BOOLEAN /\ glued \subseteq Lines
  /\ dropped \subseteq Lines /\ late \subseteq Lines /\ failed \subseteq Lines
  /\ attempts \in [Lines -> Nat]

LEMMA TypeParts ==
  TypeOK <=> /\ QueueTyped /\ ListsTyped /\ FlowTyped
             /\ ThreadTyped /\ LifeTyped /\ LedgerTyped
  BY Zenon DEF TypeOK, QueueTyped, ListsTyped, FlowTyped, ThreadTyped, LifeTyped, LedgerTyped

LEMMA TypePartsPrime ==
  TypeOK' <=> /\ QueueTyped' /\ ListsTyped' /\ FlowTyped'
              /\ ThreadTyped' /\ LifeTyped' /\ LedgerTyped'
  BY TypeParts, PTL

TInv == TypeOK /\ ThreadHasList /\ RoundsLeft

LEMMA SubSeqType ==
  ASSUME NEW S, NEW s \in Seq(S), NEW m \in Nat, NEW n \in Nat, n <= Len(s)
  PROVE  /\ SubSeq(s, m + 1, n) \in Seq(S)
         /\ Len(SubSeq(s, m + 1, n)) <= Len(s)
  BY SMT

LEMMA IdleThreadType ==
  /\ IdleThread \in ThreadRecord
  /\ IdleThread.st = "idle" /\ IdleThread.owner = Detached
  BY SinkAssumption DEF IdleThread, ThreadRecord, ThreadStates, Detached, NoBatch

LEMMA TypeInit == Init => TInv
<1> SUFFICES ASSUME Init PROVE TInv
  OBVIOUS
<1>1. TypeOK
  <2>1. thread \in [Workers -> ThreadRecord]
    BY IdleThreadType DEF Init
  <2>2. rounds \in [Actors -> 0..(Rounds + 1)] /\ pc \in [Actors -> PCs]
    BY SinkAssumption DEF Init, PCs
  <2>3. /\ queue \in Seq(Lines) /\ handed \in Seq(Lines)
        /\ accepted \in Seq(Lines) /\ landed \in Seq(Lines)
        /\ content \in [Batches -> Seq(Lines)]
        /\ queueBytes \in Nat /\ inflightBytes \in Nat
        /\ attempts \in [Lines -> Nat]
    BY DEF Init
  <2>4. /\ closed \in BOOLEAN /\ terminated \in BOOLEAN /\ started \in BOOLEAN
        /\ starting \in BOOLEAN /\ loopDone \in BOOLEAN /\ timedOut \in BOOLEAN
        /\ stamped \in [Batches -> BOOLEAN]
        /\ torn \in BOOLEAN /\ glued \subseteq Lines
    BY DEF Init
  <2>5. /\ retry \in Batches \cup {NoBatch}
        /\ dropped \subseteq Lines /\ late \subseteq Lines /\ failed \subseteq Lines
    BY DEF Init
  <2> QED
    BY <2>1, <2>2, <2>3, <2>4, <2>5 DEF TypeOK
<1>2. ThreadHasList
  BY IdleThreadType DEF Init, ThreadHasList
<1>3. RoundsLeft
  BY DEF Init, RoundsLeft
<1> QED
  BY <1>1, <1>2, <1>3 DEF TInv

\* The effects of _enqueue on the queue and on the counters.
LEMMA EnqueueEffect ==
  ASSUME NEW l, NEW onLoop, Enqueue(l, onLoop)
  PROVE  /\ \/ queue' = queue /\ queueBytes' = queueBytes /\ accepted' = accepted
            \/ /\ ~closed /\ HasRoom
               /\ queue' = Append(queue, l) /\ queueBytes' = queueBytes + 1
               /\ accepted' = Append(accepted, l)
         /\ dropped' = dropped \/ dropped' = dropped \cup {l}
         /\ late' = late \/ late' = late \cup {l}
  BY Zenon DEF Enqueue, DropAfterClose, refused, logfile

LEMMA EnqueueType ==
  ASSUME TInv, NEW l \in Lines, NEW onLoop \in BOOLEAN, Enqueue(l, onLoop)
  PROVE  /\ queue' \in Seq(Lines) /\ queueBytes' \in Nat /\ accepted' \in Seq(Lines)
         /\ starting' \in BOOLEAN /\ dropped' \subseteq Lines /\ late' \subseteq Lines
<1>1. /\ queue' \in Seq(Lines) /\ queueBytes' \in Nat /\ accepted' \in Seq(Lines)
      /\ dropped' \subseteq Lines /\ late' \subseteq Lines
  <2>1. /\ queue \in Seq(Lines) /\ queueBytes \in Nat /\ accepted \in Seq(Lines)
        /\ dropped \subseteq Lines /\ late \subseteq Lines
    BY DEF TInv, TypeOK
  <2>2. /\ \/ queue' = queue /\ queueBytes' = queueBytes /\ accepted' = accepted
           \/ /\ queue' = Append(queue, l) /\ queueBytes' = queueBytes + 1
              /\ accepted' = Append(accepted, l)
        /\ dropped' = dropped \/ dropped' = dropped \cup {l}
        /\ late' = late \/ late' = late \cup {l}
    BY EnqueueEffect
  <2>3. queue' \in Seq(Lines) /\ queueBytes' \in Nat /\ accepted' \in Seq(Lines)
    <3>1. Append(queue, l) \in Seq(Lines) /\ Append(accepted, l) \in Seq(Lines)
      BY <2>1, AppendProperties
    <3>2. queueBytes + 1 \in Nat
      BY <2>1
    <3> QED
      BY <2>1, <2>2, <3>1, <3>2, Zenon
  <2>4. dropped' \subseteq Lines
    BY <2>1, <2>2
  <2>5. late' \subseteq Lines
    BY <2>1, <2>2
  <2> QED
    BY <2>3, <2>4, <2>5
<1>2. starting' \in BOOLEAN
  BY Zenon DEF TInv, TypeOK, Enqueue, DropAfterClose
<1> QED
  BY <1>1, <1>2

LEMMA KeepOrLoseType ==
  ASSUME TInv, NEW b \in Batches, NEW again \in BOOLEAN, KeepOrLose(b, again)
  PROVE  /\ retry' \in Batches \cup {NoBatch} /\ inflightBytes' \in Nat /\ failed' \subseteq Lines
<1>1. Members(content[b]) \subseteq Lines
  BY DEF TInv, TypeOK, Members
<1>2. Bytes(b) \in Nat
  BY SinkAssumption DEF TInv, TypeOK, Bytes
<1> QED
  BY <1>1, <1>2 DEF TInv, TypeOK, KeepOrLose

LEMMA Unchanged ==
  ASSUME TInv
  PROVE  /\ UNCHANGED memory => QueueTyped'
         /\ UNCHANGED lists => ListsTyped'
         /\ UNCHANGED flow => FlowTyped' /\ RoundsLeft'
         /\ UNCHANGED thread => ThreadTyped' /\ ThreadHasList'
         /\ UNCHANGED life => LifeTyped'
         /\ UNCHANGED <<handed, accepted, logfile, refused, failed, attempts>> => LedgerTyped'
<1>1. TInv => TypeOK
  BY DEF TInv
<1> QED
  BY <1>1, TypeParts, Zenon
  DEF TInv, QueueTyped, ListsTyped, FlowTyped, ThreadTyped, LifeTyped, LedgerTyped,
      memory, lists, flow, life, refused, logfile, RoundsLeft, ThreadHasList

\* Moving one coroutine keeps the types, and its rounds if it enters a flush.
LEMMA FlowStep ==
  ASSUME TInv, NEW a \in Actors, NEW p \in PCs, NEW r \in 0..(Rounds + 1),
         pc' = [pc EXCEPT ![a] = p], rounds' = [rounds EXCEPT ![a] = r],
         p \in {"lock", "write"} => r <= Rounds
  PROVE  FlowTyped' /\ RoundsLeft'
<1>1. pc \in [Actors -> PCs] /\ rounds \in [Actors -> 0..(Rounds + 1)] /\ RoundsLeft
  BY DEF TInv, TypeOK
<1>2. FlowTyped'
  BY <1>1, Zenon DEF FlowTyped
<1>3. RoundsLeft'
  BY <1>1, SMT DEF RoundsLeft
<1> QED
  BY <1>2, <1>3

\* An _enqueue that changes nothing but the queue, the counters and `handed`.
LEMMA EnqueueTyped ==
  ASSUME TInv, NEW l \in Lines, NEW onLoop \in BOOLEAN, Enqueue(l, onLoop),
         handed' \in Seq(Lines),
         UNCHANGED <<inflightBytes, retry, lists, flow, thread, logfile, failed, attempts,
                     closed, terminated, started, loopDone, timedOut>>
  PROVE  TInv'
<1>1. QueueTyped'
  BY EnqueueType, Zenon DEF TInv, TypeOK, QueueTyped
<1>2. LifeTyped'
  BY EnqueueType, Zenon DEF TInv, TypeOK, LifeTyped
<1>3. LedgerTyped'
  BY EnqueueType, Zenon DEF TInv, TypeOK, LedgerTyped, logfile
<1> QED
  BY <1>1, <1>2, <1>3, Unchanged, TypePartsPrime, Zenon DEF TInv

LEMMA SubmitTyped ==
  ASSUME TInv, NEW l \in Lines, SubmitOnLoop(l) \/ SubmitOffLoop(l)
  PROVE  TInv'
<1> handed \in Seq(Lines) /\ TRUE \in BOOLEAN /\ FALSE \in BOOLEAN
  BY DEF TInv, TypeOK
<1>1. CASE DropUnserialisable(l)
  <2>1. LedgerTyped'
    BY <1>1, Zenon DEF TInv, TypeOK, LedgerTyped, DropUnserialisable, refused, logfile
  <2> QED
    BY <1>1, <2>1, Unchanged, TypePartsPrime, Zenon DEF DropUnserialisable, TInv
<1>2. CASE SubmitOnLoop(l) /\ ~DropUnserialisable(l)
  BY <1>2, EnqueueTyped, Zenon DEF SubmitOnLoop
<1>3. CASE SubmitOffLoop(l) /\ handed' = Append(handed, l)
  <2>1. Append(handed, l) \in Seq(Lines)
    BY AppendProperties
  <2>2. CASE DropUnserialisable(l)
    BY <1>1, <2>2
  <2>3. CASE ~DropUnserialisable(l) /\ Enqueue(l, FALSE)
    BY <1>3, <2>1, <2>3, EnqueueTyped, Zenon DEF SubmitOffLoop
  <2>4. CASE ~DropUnserialisable(l) /\ ~Enqueue(l, FALSE)
    <3>1. UNCHANGED <<memory, lists, flow, thread, life, accepted, logfile, refused,
                      failed, attempts>>
      BY <1>3, <2>4, Zenon DEF SubmitOffLoop, memory, lists, flow, life, refused, logfile
    <3>2. LedgerTyped'
      BY <1>3, <2>1, <3>1, Zenon DEF TInv, TypeOK, LedgerTyped, refused, logfile
    <3> QED
      BY <3>1, <3>2, Unchanged, TypePartsPrime, Zenon DEF TInv
  <2> QED
    BY <2>2, <2>3, <2>4
<1>4. CASE SubmitOffLoop(l) /\ handed' # Append(handed, l) /\ ~DropUnserialisable(l)
  BY <1>4, EnqueueTyped, Zenon DEF SubmitOffLoop
<1> QED
  BY <1>1, <1>2, <1>3, <1>4

LEMMA DeliverTyped ==
  ASSUME TInv, DeliverHanded
  PROVE  TInv'
<1>1. Head(handed) \in Lines /\ Tail(handed) \in Seq(Lines)
  BY HeadTailProperties DEF TInv, TypeOK, DeliverHanded
<1> QED
  BY <1>1, EnqueueTyped, Zenon DEF DeliverHanded

\* The steps that move one coroutine and leave the data alone.
LEMMA ControlTyped ==
  ASSUME TInv, NEW a \in Actors, NEW p \in PCs, NEW r \in 0..(Rounds + 1),
         pc' = [pc EXCEPT ![a] = p], rounds' = [rounds EXCEPT ![a] = r],
         p \in {"lock", "write"} => r <= Rounds,
         UNCHANGED <<memory, lists, thread, handed, accepted, logfile, refused, failed,
                     attempts>>,
         LifeTyped'
  PROVE  TInv'
  BY FlowStep, Unchanged, TypePartsPrime, Zenon DEF TInv

LEMMA StartTyped ==
  ASSUME TInv, Start
  PROVE  TInv'
<1>1. LifeTyped'
  BY Zenon DEF TInv, TypeOK, Start, LifeTyped
<1>2. "run" \in Actors /\ "sleep" \in PCs
  BY DEF Actors, PCs
<1>3. rounds \in [Actors -> 0..(Rounds + 1)] /\ pc \in [Actors -> PCs] /\ RoundsLeft
  BY DEF TInv, TypeOK
<1>4. FlowTyped'
  BY <1>2, <1>3, Zenon DEF Start, FlowTyped
<1>5. RoundsLeft'
  BY <1>2, <1>3, SMT DEF Start, RoundsLeft
<1> QED
  BY <1>1, <1>4, <1>5, Unchanged, TypePartsPrime, Zenon DEF TInv, Start

LEMMA WakeTyped ==
  ASSUME TInv, Wake
  PROVE  TInv'
<1> DEFINE p == IF closed THEN "round" ELSE "lock"
           r == IF closed THEN 1 ELSE 0
<1>1. "run" \in Actors /\ p \in PCs /\ r \in 0..(Rounds + 1) /\ r <= Rounds
  BY SinkAssumption DEF Actors, PCs
<1>2. LifeTyped'
  BY Unchanged DEF Wake
<1> QED
  BY <1>1, <1>2, ControlTyped, Zenon DEF Wake

LEMMA FlushCallTyped ==
  ASSUME TInv, NEW f \in Flushers, FlushCall(f)
  PROVE  TInv'
<1>1. f \in Actors /\ "round" \in PCs /\ 1 \in 0..(Rounds + 1)
      /\ "round" \notin {"lock", "write"}
  BY SinkAssumption DEF Actors, PCs
<1>2. LifeTyped'
  BY Unchanged DEF FlushCall
<1> QED
  BY <1>1, <1>2, ControlTyped, Zenon DEF FlushCall

LEMMA StartRoundTyped ==
  ASSUME TInv, NEW a \in Actors, StartRound(a)
  PROVE  TInv'
<1>1. rounds[a] \in 0..(Rounds + 1) /\ Rounds \in Nat
  BY SinkAssumption DEF TInv, TypeOK
<1>2. LifeTyped'
  BY Unchanged DEF StartRound
<1>3. CASE NothingHeld \/ rounds[a] > Rounds
  <2>1. "done" \in PCs /\ 0 \in 0..(Rounds + 1) /\ "done" \notin {"lock", "write"}
    BY <1>1 DEF PCs
  <2>2. /\ pc' = [pc EXCEPT ![a] = "done"] /\ rounds' = [rounds EXCEPT ![a] = 0]
    BY <1>3, Zenon DEF StartRound
  <2> QED
    BY <1>2, <2>1, <2>2, ControlTyped, Zenon DEF StartRound
<1>4. CASE ~(NothingHeld \/ rounds[a] > Rounds)
  <2>1. "lock" \in PCs /\ rounds[a] <= Rounds
    BY <1>1, <1>4 DEF PCs
  <2>2. /\ pc' = [pc EXCEPT ![a] = "lock"] /\ rounds' = [rounds EXCEPT ![a] = rounds[a]]
    BY <1>4, Zenon DEF StartRound
  <2> QED
    BY <1>1, <1>2, <2>1, <2>2, ControlTyped, Zenon DEF StartRound
<1> QED
  BY <1>3, <1>4

\* Giving one thread another record keeps the types.
LEMMA ThreadSet ==
  ASSUME TInv, NEW w \in Workers, NEW t \in ThreadRecord,
         t.st # "idle" \/ t.owner # Detached => t.batch \in Batches,
         thread' = [thread EXCEPT ![w] = t]
  PROVE  ThreadTyped' /\ ThreadHasList'
<1>1. thread \in [Workers -> ThreadRecord] /\ ThreadHasList
  BY Zenon DEF TInv, TypeOK
<1>2. ThreadTyped'
  BY <1>1, Zenon DEF ThreadTyped
<1>3. \A v \in Workers : thread'[v] = IF v = w THEN t ELSE thread[v]
  BY <1>1, Zenon
<1>4. ThreadHasList'
  BY <1>1, <1>3, Zenon DEF ThreadHasList
<1> QED
  BY <1>2, <1>4

LEMMA HandToThreadType ==
  ASSUME TInv, NEW a \in Actors, NEW b \in Batches, NEW again \in BOOLEAN,
         HandToThread(a, b, again), rounds' = rounds, rounds[a] <= Rounds
  PROVE  ThreadTyped' /\ ThreadHasList' /\ FlowTyped' /\ RoundsLeft'
<1> DEFINE t == Queued(a, b, again)
<1>1. PICK w \in Workers : thread' = [thread EXCEPT ![w] = t]
  <2>1. PICK w \in IdleWorkers : thread' = [thread EXCEPT ![w] = t]
    <3> DEFINE w == CHOOSE v \in IdleWorkers : TRUE
    <3>1. w \in IdleWorkers /\ thread' = [thread EXCEPT ![w] = t]
      BY Zenon DEF HandToThread
    <3> QED
      BY <3>1, Zenon
  <2> QED
    BY <2>1, Zenon DEF IdleWorkers
<1>2. t \in ThreadRecord /\ t.batch \in Batches
  BY DEF Queued, ThreadRecord, ThreadStates
<1>3. ThreadTyped' /\ ThreadHasList'
  <2> HIDE DEF t
  <2> QED
    BY <1>1, <1>2, ThreadSet, Zenon
<1>4. pc' = [pc EXCEPT ![a] = "write"] /\ rounds' = [rounds EXCEPT ![a] = rounds[a]]
  BY Zenon DEF HandToThread, TInv, TypeOK
<1>5. "write" \in PCs /\ rounds[a] \in 0..(Rounds + 1)
  BY DEF PCs, TInv, TypeOK
<1> QED
  BY <1>3, <1>4, <1>5, FlowStep, Zenon

LEMMA AfterRoundType ==
  ASSUME TInv, NEW a \in Actors, AfterRound(a), pc[a] \in {"lock", "write"}
  PROVE  FlowTyped' /\ RoundsLeft'
<1>1. rounds[a] \in 0..(Rounds + 1) /\ rounds[a] <= Rounds /\ Rounds \in Nat
  BY SinkAssumption DEF TInv, TypeOK, RoundsLeft
<1>2. CASE rounds[a] > 0 \/ closed
  <2>1. pc' = [pc EXCEPT ![a] = "round"] /\ rounds' = [rounds EXCEPT ![a] = rounds[a] + 1]
    BY <1>2, Zenon DEF AfterRound
  <2>2. "round" \in PCs /\ rounds[a] + 1 \in 0..(Rounds + 1) /\ "round" \notin {"lock", "write"}
    BY <1>1 DEF PCs
  <2> QED
    BY <2>1, <2>2, FlowStep, Zenon
<1>3. CASE ~(rounds[a] > 0 \/ closed)
  <2>1. pc' = [pc EXCEPT ![a] = "sleep"] /\ rounds' = [rounds EXCEPT ![a] = 0]
    BY <1>3, Zenon DEF AfterRound
  <2>2. "sleep" \in PCs /\ 0 \in 0..(Rounds + 1) /\ "sleep" \notin {"lock", "write"}
    BY <1>1 DEF PCs
  <2> QED
    BY <2>1, <2>2, FlowStep, Zenon
<1> QED
  BY <1>2, <1>3

LEMMA CountAttemptType ==
  ASSUME TInv, NEW b, CountAttempt(b)
  PROVE  attempts' \in [Lines -> Nat]
<1>1. \A l \in Lines : /\ attempts[l] + 0 \in Nat
                       /\ attempts[l] + 1 \in Nat
  BY DEF TInv, TypeOK
<1>2. \A l \in Lines :
        attempts[l] + (IF l \in Members(content'[b]) THEN 1 ELSE 0) \in Nat
  BY <1>1, Zenon
<1> QED
  BY <1>2, Zenon DEF CountAttempt

LEMMA DrainType ==
  ASSUME TInv, NEW b \in Batches, Drain(b), retry' = retry
  PROVE  QueueTyped' /\ ListsTyped'
<1>1. /\ queue \in Seq(Lines) /\ queueBytes \in Nat /\ retry \in Batches \cup {NoBatch}
      /\ content \in [Batches -> Seq(Lines)] /\ stamped \in [Batches -> BOOLEAN]
  BY Zenon DEF TInv, TypeOK
<1>2. <<>> \in Seq(Lines) /\ 0 \in Nat /\ FALSE \in BOOLEAN
  BY SMT
<1>3. QueueTyped'
  BY <1>1, <1>2, Zenon DEF Drain, QueueTyped
<1>4. ListsTyped'
  BY <1>1, <1>2, Zenon DEF Drain, ListsTyped
<1> QED
  BY <1>3, <1>4

LEMMA TakeBatchTyped ==
  ASSUME TInv, NEW a \in Actors, TakeBatch(a)
  PROVE  TInv'
<1>1. LifeTyped'
  BY Unchanged DEF TakeBatch
<1>2. rounds[a] <= Rounds /\ pc[a] \in {"lock", "write"}
  BY DEF TInv, RoundsLeft, TakeBatch
<1>3. CASE TakeRetry(a)
  <2>1. retry \in Batches
    BY <1>3, Zenon DEF TInv, TypeOK, TakeRetry
  <2>2. ThreadTyped' /\ ThreadHasList' /\ FlowTyped' /\ RoundsLeft'
    BY <1>2, <1>3, <2>1, HandToThreadType, Zenon DEF TakeRetry
  <2>3. LedgerTyped'
    BY <1>3, CountAttemptType, Zenon DEF TakeRetry, TakeBatch, TInv, TypeOK, LedgerTyped, refused, logfile
  <2>4. QueueTyped'
    BY <1>3, Zenon DEF TakeRetry, TInv, TypeOK, QueueTyped
  <2>5. ListsTyped'
    BY <1>3, Unchanged DEF TakeRetry
  <2> QED
    BY <1>1, <2>2, <2>3, <2>4, <2>5, TypePartsPrime, Zenon DEF TInv
<1>4. CASE TakeQueue(a)
  <2>1. PICK b \in Batches : HandToThread(a, b, FALSE) /\ Drain(b) /\ CountAttempt(b)
    BY <1>4, Zenon DEF TakeQueue, FreeBatches
  <2>2. ThreadTyped' /\ ThreadHasList' /\ FlowTyped' /\ RoundsLeft'
    BY <1>2, <1>4, <2>1, HandToThreadType, Zenon DEF TakeQueue
  <2>3. LedgerTyped'
    BY <2>1, CountAttemptType, Zenon DEF TakeBatch, TInv, TypeOK, LedgerTyped, refused, logfile
  <2>4. QueueTyped' /\ ListsTyped'
    BY <1>4, <2>1, DrainType, Zenon DEF TakeQueue
  <2> QED
    BY <1>1, <2>2, <2>3, <2>4, TypePartsPrime, Zenon DEF TInv
<1>5. CASE NothingToTake(a)
  <2>1. FlowTyped' /\ RoundsLeft'
    BY <1>2, <1>5, AfterRoundType, Zenon DEF NothingToTake
  <2>2. LedgerTyped'
    BY <1>5, Zenon DEF NothingToTake, TakeBatch, TInv, TypeOK, LedgerTyped, refused, logfile
  <2>3. QueueTyped'
    <3>1. 0 \in Nat
      OBVIOUS
    <3> QED
      BY <1>5, <3>1, Zenon DEF NothingToTake, TInv, TypeOK, QueueTyped
  <2>4. ListsTyped' /\ ThreadTyped' /\ ThreadHasList'
    BY <1>5, Unchanged, Zenon DEF NothingToTake
  <2> QED
    BY <1>1, <2>1, <2>2, <2>3, <2>4, TypePartsPrime, Zenon DEF TInv
<1> QED
  BY <1>3, <1>4, <1>5, Zenon DEF TakeBatch

LEMMA ResumeWriteTyped ==
  ASSUME TInv, NEW a \in Actors, ResumeWrite(a)
  PROVE  TInv'
<1>1. PICK w \in Workers :
        /\ thread[w].owner = a
        /\ \/ /\ inflightBytes' = 0 /\ retry' = retry /\ failed' = failed
           \/ KeepOrLose(thread[w].batch, thread[w].again)
        /\ thread' = [thread EXCEPT ![w] = IdleThread]
  BY Zenon DEF ResumeWrite
<1>2. a # Detached /\ rounds[a] <= Rounds /\ pc[a] \in {"lock", "write"}
  BY SinkAssumption DEF TInv, RoundsLeft, ResumeWrite, Actors, Detached
<1>3. thread[w].batch \in Batches /\ thread[w].again \in BOOLEAN
  BY <1>1, <1>2 DEF TInv, TypeOK, ThreadHasList, ThreadRecord
<1>4. retry' \in Batches \cup {NoBatch} /\ inflightBytes' \in Nat /\ failed' \subseteq Lines
  <2>1. 0 \in Nat
    OBVIOUS
  <2> QED
    BY <1>1, <1>3, <2>1, KeepOrLoseType, Zenon DEF TInv, TypeOK
<1>5. QueueTyped' /\ ListsTyped' /\ LifeTyped' /\ LedgerTyped'
  BY <1>4, Zenon DEF ResumeWrite, TInv, TypeOK, QueueTyped, ListsTyped, LifeTyped, LedgerTyped,
                     lists, life, refused, logfile
<1>6. ThreadTyped' /\ ThreadHasList'
  BY <1>1, IdleThreadType, ThreadSet, Zenon
<1>7. FlowTyped' /\ RoundsLeft'
  BY <1>2, AfterRoundType, Zenon DEF ResumeWrite
<1> QED
  BY <1>5, <1>6, <1>7, TypePartsPrime, Zenon DEF TInv

LEMMA UnwindTyped ==
  ASSUME TInv, NEW a \in Actors, Unwind(a)
  PROVE  /\ retry' \in Batches \cup {NoBatch} /\ inflightBytes' \in Nat /\ failed' \subseteq Lines
         /\ ThreadTyped' /\ ThreadHasList'
<1>1. CASE pc[a] # "write"
  BY <1>1, Unchanged, Zenon DEF Unwind, TInv, TypeOK
<1>2. CASE pc[a] = "write"
  <2>1. PICK w \in Workers :
          /\ thread[w].owner = a
          /\ KeepOrLose(thread[w].batch, thread[w].again)
          /\ thread' = [thread EXCEPT ![w] =
                          IF @.st \in {"running", "writing"}
                          THEN [@ EXCEPT !.owner = Detached] ELSE IdleThread]
    BY <1>2, Zenon DEF Unwind
  <2> DEFINE t == IF thread[w].st \in {"running", "writing"}
                  THEN [thread[w] EXCEPT !.owner = Detached] ELSE IdleThread
  <2>2. a # Detached
    BY SinkAssumption DEF Actors, Detached
  <2>3. thread[w] \in ThreadRecord /\ thread[w].batch \in Batches /\ thread[w].again \in BOOLEAN
    BY <2>1, <2>2 DEF TInv, TypeOK, ThreadHasList, ThreadRecord
  <2>4. /\ t \in ThreadRecord
        /\ t.st # "idle" \/ t.owner # Detached => t.batch \in Batches
    <3>1. CASE thread[w].st \in {"running", "writing"}
      BY <2>3, <3>1 DEF ThreadRecord
    <3>2. CASE thread[w].st \notin {"running", "writing"}
      BY <3>2, IdleThreadType, Zenon
    <3> QED
      BY <3>1, <3>2
  <2>5. thread' = [thread EXCEPT ![w] = t]
    BY <2>1, Zenon DEF TInv, TypeOK
  <2>6. ThreadTyped' /\ ThreadHasList'
    <3> HIDE DEF t
    <3> QED
      BY <2>4, <2>5, ThreadSet, Zenon
  <2> QED
    BY <2>1, <2>3, <2>6, KeepOrLoseType, Zenon
<1> QED
  BY <1>1, <1>2

LEMMA CancelFlushTyped ==
  ASSUME TInv, NEW f \in Flushers, CancelFlush(f)
  PROVE  TInv'
<1>1. f \in Actors
  BY DEF Actors
<1>2. /\ retry' \in Batches \cup {NoBatch} /\ inflightBytes' \in Nat /\ failed' \subseteq Lines
      /\ ThreadTyped' /\ ThreadHasList'
  BY <1>1, UnwindTyped, Zenon DEF CancelFlush
<1>3. QueueTyped' /\ ListsTyped' /\ LifeTyped' /\ LedgerTyped'
  BY <1>2, Zenon DEF CancelFlush, TInv, TypeOK, QueueTyped, ListsTyped, LifeTyped, LedgerTyped,
                     lists, life, refused, logfile
<1>4. "done" \in PCs /\ 0 \in 0..(Rounds + 1) /\ "done" \notin {"lock", "write"}
  BY SinkAssumption DEF PCs
<1>5. FlowTyped' /\ RoundsLeft'
  BY <1>1, <1>4, FlowStep, Zenon DEF CancelFlush
<1> QED
  BY <1>2, <1>3, <1>5, TypePartsPrime, Zenon DEF TInv

LEMMA ThreadStartsTyped ==
  ASSUME TInv, NEW w \in Workers, ThreadStarts(w)
  PROVE  TInv'
<1> DEFINE b == thread[w].batch
           t == [thread[w] EXCEPT !.st = "running", !.total = Len(content[b])]
<1>1. /\ thread[w] \in ThreadRecord /\ b \in Batches /\ thread[w].again \in BOOLEAN
      /\ content[b] \in Seq(Lines)
  BY DEF TInv, TypeOK, ThreadHasList, ThreadRecord, ThreadStarts, Step
<1>2. t \in ThreadRecord /\ t.batch \in Batches
  <2>1. Len(content[b]) \in Nat
    BY <1>1
  <2> QED
    BY <1>1, <2>1 DEF ThreadRecord, ThreadStates
<1>3. ThreadTyped' /\ ThreadHasList'
  <2>1. thread' = [thread EXCEPT ![w] = t]
    BY Zenon DEF ThreadStarts, Step
  <2> HIDE DEF t
  <2> QED
    BY <1>2, <2>1, ThreadSet, Zenon
<1>4. ListsTyped'
  <2>1. (stamped[b] \/ ~thread[w].again) \in BOOLEAN
    BY Zenon
  <2>2. stamped' = [stamped EXCEPT ![b] = stamped[b] \/ ~thread[w].again]
    BY <1>1, Zenon DEF TInv, TypeOK, ThreadStarts
  <2> QED
    BY <2>1, <2>2, Zenon DEF TInv, TypeOK, ListsTyped, ThreadStarts
<1>5. QueueTyped' /\ FlowTyped' /\ RoundsLeft' /\ LifeTyped' /\ LedgerTyped'
  BY Unchanged, Zenon DEF ThreadStarts
<1> QED
  BY <1>3, <1>4, <1>5, TypePartsPrime, Zenon DEF TInv

LEMMA BorrowTyped ==
  ASSUME TInv, NEW w \in Workers, BorrowForSegment(w)
  PROVE  TInv'
<1> DEFINE t == thread[w]
           seg(n) == SubSeq(content[t.batch], t.placed + 1, t.placed + n)
<1>1. /\ t \in ThreadRecord /\ t.batch \in Batches
      /\ content[t.batch] \in Seq(Lines) /\ t.placed \in Nat /\ t.total \in Nat
  BY DEF TInv, TypeOK, ThreadHasList, ThreadRecord, BorrowForSegment, Step
<1>2. PICK n \in 1..(t.total - t.placed) :
        /\ t.placed + n <= Len(content[t.batch])
        /\ thread' = [thread EXCEPT ![w] = [t EXCEPT !.st = "writing", !.segment = seg(n)]]
  BY Zenon DEF BorrowForSegment, Step
<1>3. seg(n) \in Seq(Lines)
  <2>1. t.placed + n \in Nat
    BY <1>1, <1>2
  <2> QED
    BY <1>1, <1>2, <2>1, SubSeqType
<1>4. ThreadTyped' /\ ThreadHasList'
  <2> DEFINE u == [t EXCEPT !.st = "writing", !.segment = seg(n)]
  <2>1. u \in ThreadRecord /\ u.batch \in Batches
    <3> HIDE DEF seg
    <3> QED
      BY <1>1, <1>3 DEF ThreadRecord, ThreadStates
  <2> HIDE DEF u
  <2>2. thread' = [thread EXCEPT ![w] = u]
    BY <1>2, Zenon DEF u
  <2> QED
    BY <2>1, <2>2, ThreadSet, Zenon
<1>5. QueueTyped' /\ ListsTyped' /\ FlowTyped' /\ RoundsLeft' /\ LifeTyped'
  BY Unchanged, Zenon DEF BorrowForSegment
<1>6. LedgerTyped'
  BY Zenon DEF BorrowForSegment, TInv, TypeOK, LedgerTyped, refused
<1> QED
  BY <1>4, <1>5, <1>6, TypePartsPrime, Zenon DEF TInv

\* What a thread that leaves a list does to the lists and to itself.
LEMMA LeaveTyped ==
  ASSUME TInv, NEW w \in Workers, thread[w].st # "idle",
         NEW placed \in Nat, NEW result \in ThreadStates,
         Leave(w, placed, result), stamped' = stamped
  PROVE  ListsTyped' /\ ThreadTyped' /\ ThreadHasList'
<1> DEFINE t == thread[w]
           b == t.batch
           u == IF t.owner = Detached THEN IdleThread
                ELSE [t EXCEPT !.st = result, !.placed = placed, !.segment = <<>>]
<1>1. t \in ThreadRecord /\ b \in Batches /\ content \in [Batches -> Seq(Lines)]
  BY DEF TInv, TypeOK, ThreadHasList
<1>2. ListsTyped'
  <2>1. content' = [content EXCEPT ![b] = SubSeq(content[b], placed + 1, Len(content[b]))]
    BY <1>1, Zenon DEF Leave
  <2>2. SubSeq(content[b], placed + 1, Len(content[b])) \in Seq(Lines)
    BY <1>1, SubSeqType
  <2> QED
    BY <1>1, <2>1, <2>2, Zenon DEF TInv, TypeOK, ListsTyped
<1>3. u \in ThreadRecord /\ (u.st # "idle" \/ u.owner # Detached => u.batch \in Batches)
  <2>1. CASE t.owner = Detached
    BY <2>1, IdleThreadType, Zenon
  <2>2. CASE t.owner # Detached
    <3> DEFINE v == [t EXCEPT !.st = result, !.placed = placed, !.segment = <<>>]
    <3>1. <<>> \in Seq(Lines)
      BY SMT
    <3>2. v \in ThreadRecord /\ v.batch \in Batches
      BY <1>1, <3>1 DEF ThreadRecord
    <3> HIDE DEF v
    <3>3. u = v
      BY <2>2, Zenon DEF v
    <3> QED
      BY <3>2, <3>3, Zenon
  <2> QED
    BY <2>1, <2>2
<1>4. thread' = [thread EXCEPT ![w] = u]
  BY Zenon DEF Leave
<1>5. ThreadTyped' /\ ThreadHasList'
  <2> HIDE DEF u
  <2> QED
    BY <1>3, <1>4, ThreadSet, Zenon
<1> QED
  BY <1>2, <1>5

LEMMA LandLinesType ==
  ASSUME TInv, NEW w \in Workers, NEW k \in 0..Len(thread[w].segment),
         NEW piece \in BOOLEAN, LandLines(w, k, piece)
  PROVE  landed' \in Seq(Lines) /\ torn' \in BOOLEAN /\ glued' \subseteq Lines
<1>1. thread[w].segment \in Seq(Lines) /\ landed \in Seq(Lines)
  BY DEF TInv, TypeOK, ThreadRecord
<1>2. SubSeq(thread[w].segment, 1, k) \in Seq(Lines)
  BY <1>1
<1>3. landed' \in Seq(Lines)
  BY <1>1, <1>2, ConcatProperties, Zenon DEF LandLines
<1>4. torn' \in BOOLEAN
  BY Zenon DEF LandLines
<1>5. glued' \subseteq Lines
  BY Zenon DEF LandLines, TInv, TypeOK
<1> QED
  BY <1>3, <1>4, <1>5

LEMMA SegmentLandsTyped ==
  ASSUME TInv, NEW w \in Workers, SegmentLands(w)
  PROVE  TInv'
<1> DEFINE t == thread[w]
           p == t.placed + Len(t.segment)
           u == [t EXCEPT !.st = "running", !.segment = <<>>, !.placed = p]
<1>1. t \in ThreadRecord /\ t.batch \in Batches /\ p \in Nat /\ <<>> \in Seq(Lines)
  BY DEF TInv, TypeOK, ThreadHasList, ThreadRecord, SegmentLands, Step
<1>2. u \in ThreadRecord /\ u.batch \in Batches
  <2> HIDE DEF p
  <2> QED
    BY <1>1 DEF ThreadRecord, ThreadStates
<1>3. ThreadTyped' /\ ThreadHasList'
  <2>1. thread' = [thread EXCEPT ![w] = u]
    BY Zenon DEF SegmentLands, Step
  <2> HIDE DEF u
  <2> QED
    BY <1>2, <2>1, ThreadSet, Zenon
<1>4. LedgerTyped'
  <2>1. Len(t.segment) \in 0..Len(t.segment)
    BY <1>1
  <2>2. landed' \in Seq(Lines) /\ torn' \in BOOLEAN /\ glued' \subseteq Lines
    BY <2>1, LandLinesType, Zenon DEF SegmentLands
  <2> QED
    BY <2>2, Zenon DEF SegmentLands, TInv, TypeOK, LedgerTyped, refused, logfile
<1>5. QueueTyped' /\ ListsTyped' /\ FlowTyped' /\ RoundsLeft' /\ LifeTyped'
  BY Unchanged, Zenon DEF SegmentLands
<1> QED
  BY <1>3, <1>4, <1>5, TypePartsPrime, Zenon DEF TInv

LEMMA SegmentFailsTyped ==
  ASSUME TInv, NEW w \in Workers, SegmentFails(w)
  PROVE  TInv'
<1> DEFINE t == thread[w]
<1>1. PICK k \in 0..Len(t.segment), piece \in BOOLEAN :
         LandLines(w, k, piece) /\ Leave(w, Placed(t, k), "failed")
  BY Zenon DEF SegmentFails
<1>2. Placed(t, k) \in Nat
  <2>1. t.placed \in Nat /\ Len(t.segment) \in Nat
    BY DEF TInv, TypeOK, ThreadRecord
  <2> QED
    BY <2>1 DEF Placed
<1>3. ListsTyped' /\ ThreadTyped' /\ ThreadHasList'
  <2>1. thread[w].st # "idle" /\ "failed" \in ThreadStates
    BY DEF SegmentFails, ThreadStates
  <2> QED
    BY <1>1, <1>2, <2>1, LeaveTyped, Zenon DEF SegmentFails
<1>4. LedgerTyped'
  BY <1>1, LandLinesType, Zenon DEF SegmentFails, TInv, TypeOK, LedgerTyped, refused, logfile
<1>5. QueueTyped' /\ FlowTyped' /\ RoundsLeft' /\ LifeTyped'
  BY Unchanged, Zenon DEF SegmentFails
<1> QED
  BY <1>3, <1>4, <1>5, TypePartsPrime, Zenon DEF TInv

LEMMA BatchEndsTyped ==
  ASSUME TInv, NEW w \in Workers, BatchDone(w) \/ BatchFails(w)
  PROVE  TInv'
<1>1. /\ thread[w].st # "idle" /\ thread[w].placed \in Nat
      /\ "ok" \in ThreadStates /\ "failed" \in ThreadStates
  BY DEF TInv, TypeOK, ThreadRecord, ThreadStates, BatchDone, BatchFails
<1>2. ListsTyped' /\ ThreadTyped' /\ ThreadHasList'
  BY <1>1, LeaveTyped, Zenon DEF BatchDone, BatchFails
<1>3. QueueTyped' /\ FlowTyped' /\ RoundsLeft' /\ LifeTyped' /\ LedgerTyped'
  BY Unchanged, Zenon DEF BatchDone, BatchFails
<1> QED
  BY <1>2, <1>3, TypePartsPrime, Zenon DEF TInv

LEMMA CloseBeginTyped ==
  ASSUME TInv, CloseBegin
  PROVE  TInv'
<1> DEFINE p == IF pc["run"] = "off" THEN "round" ELSE "await"
           r == IF pc["run"] = "off" THEN 1 ELSE 0
<1>1. /\ "close" \in Actors /\ p \in PCs /\ p \notin {"lock", "write"}
      /\ r \in 0..(Rounds + 1)
  BY SinkAssumption DEF Actors, PCs
<1>2. LifeTyped'
  BY Zenon DEF CloseBegin, TInv, TypeOK, LifeTyped
<1> QED
  BY <1>1, <1>2, ControlTyped, Zenon DEF CloseBegin

LEMMA CloseTimesOutTyped ==
  ASSUME TInv, CloseTimesOut
  PROVE  TInv'
<1> DEFINE d == IF pc["close"] = "await" THEN "run" ELSE "close"
<1>1. /\ Unwind(d) /\ rounds' = [rounds EXCEPT ![d] = 0]
      /\ pc' = [pc EXCEPT ![d] = "done", !["close"] = "cancelled"]
  BY Zenon DEF CloseTimesOut
<1>2. /\ d \in Actors /\ "close" \in Actors /\ 0 \in 0..(Rounds + 1)
      /\ {"done", "cancelled"} \subseteq PCs
  BY SinkAssumption DEF Actors, PCs
<1>3. /\ retry' \in Batches \cup {NoBatch} /\ inflightBytes' \in Nat /\ failed' \subseteq Lines
      /\ ThreadTyped' /\ ThreadHasList'
  <2> HIDE DEF d
  <2> QED
    BY <1>1, <1>2, UnwindTyped, Zenon
<1>4. QueueTyped' /\ ListsTyped' /\ LifeTyped' /\ LedgerTyped'
  BY <1>3, Zenon DEF CloseTimesOut, TInv, TypeOK, QueueTyped, ListsTyped, LifeTyped,
                     LedgerTyped, lists, refused, logfile
<1>5. FlowTyped' /\ RoundsLeft'
  <2>1. pc \in [Actors -> PCs] /\ rounds \in [Actors -> 0..(Rounds + 1)] /\ RoundsLeft
    BY Zenon DEF TInv, TypeOK
  <2>2. FlowTyped'
    <3> HIDE DEF d
    <3> QED
      BY <1>1, <1>2, <2>1, SMT DEF FlowTyped
  <2>3. RoundsLeft'
    <3> HIDE DEF d
    <3>1. Rounds \in Nat
      BY SinkAssumption
    <3> QED
      BY <1>1, <1>2, <2>1, <3>1, SMT DEF RoundsLeft
  <2> QED
    BY <2>2, <2>3
<1> QED
  BY <1>3, <1>4, <1>5, TypePartsPrime, Zenon DEF TInv

LEMMA TerminateTyped ==
  ASSUME TInv, Terminate
  PROVE  TInv'
<1>1. "close" \in Actors /\ "done" \in PCs /\ "done" \notin {"lock", "write"}
  BY DEF Actors, PCs
<1>2. LifeTyped'
  BY Zenon DEF Terminate, TInv, TypeOK, LifeTyped
<1>3. rounds' = [rounds EXCEPT !["close"] = rounds["close"]]
      /\ rounds["close"] \in 0..(Rounds + 1)
  BY <1>1, Zenon DEF Terminate, TInv, TypeOK
<1> QED
  BY <1>1, <1>2, <1>3, ControlTyped, Zenon DEF Terminate

LEMMA LoopEndsTyped ==
  ASSUME TInv, LoopEnds
  PROVE  TInv'
<1>1. LifeTyped'
  BY Zenon DEF LoopEnds, TInv, TypeOK, LifeTyped
<1> QED
  BY <1>1, Unchanged, TypePartsPrime, Zenon DEF LoopEnds, TInv

LEMMA StutterTyped ==
  ASSUME TInv, UNCHANGED vars
  PROVE  TInv'
<1>1. UNCHANGED <<handed, accepted, logfile, refused, failed, attempts>>
      /\ UNCHANGED <<memory, lists, flow, thread, life>>
  BY Zenon DEF vars
<1> QED
  BY <1>1, Unchanged, TypePartsPrime, Zenon DEF TInv

LEMMA TypeNext == TInv /\ [Next]_vars => TInv'
<1> SUFFICES ASSUME TInv, [Next]_vars
             PROVE  TInv'
  OBVIOUS
<1>1. ASSUME NEW l \in Lines, SubmitOnLoop(l) \/ SubmitOffLoop(l)
      PROVE  TInv'
  BY <1>1, SubmitTyped, Zenon
<1>2. CASE LoopStep
  BY <1>2, DeliverTyped, StartTyped, WakeTyped, StartRoundTyped, TakeBatchTyped,
     ResumeWriteTyped, TerminateTyped, Zenon DEF LoopStep
<1>3. ASSUME NEW f \in Flushers, FlushCall(f) \/ CancelFlush(f)
      PROVE  TInv'
  BY <1>3, FlushCallTyped, CancelFlushTyped, Zenon
<1>4. ASSUME NEW w \in Workers, ThreadStep(w)
      PROVE  TInv'
  BY <1>4, ThreadStartsTyped, BorrowTyped, SegmentLandsTyped, SegmentFailsTyped,
     BatchEndsTyped, Zenon DEF ThreadStep
<1>5. CASE CloseBegin \/ CloseTimesOut \/ LoopEnds
  BY <1>5, CloseBeginTyped, CloseTimesOutTyped, LoopEndsTyped, Zenon
<1>6. CASE UNCHANGED vars
  BY <1>6, StutterTyped
<1> QED
  BY <1>1, <1>2, <1>3, <1>4, <1>5, <1>6, Zenon DEF Next

\* Every variable of the sink keeps its type, a thread at work has a list, and
\* a coroutine that waits for the lock or a write has not used up its rounds.
THEOREM TypesHold == Spec => []TInv
<1>1. Init => TInv
  BY TypeInit
<1>2. TInv /\ [Next]_vars => TInv'
  BY TypeNext
<1> QED
  BY <1>1, <1>2, PTL DEF Spec

\* The type invariant of the sink.
THEOREM TypeCorrect == Spec => []TypeOK
<1>1. TInv => TypeOK
  BY DEF TInv
<1> QED
  BY <1>1, TypesHold, PTL

-----------------------------------------------------------------------------
(* The memory bound.  HeldWithinBound is not inductive: when a failed batch *)
(* is parked, its size after the rewrite replaces the size that was         *)
(* admitted, so the bound on the lines in the list has to be carried along. *)

Attached(w) == thread[w].owner # Detached

\* The queue and the list b were admitted together.
Fits(b) ==
  /\ queueBytes + Len(content[b]) <= QueueMax
  /\ Len(content[b]) <= inflightBytes

CloseIdle == ~closed => pc["close"] = "off"
\* A coroutine holds the lock for every thread somebody waits for, and nothing
\* is parked meanwhile.
Owned ==
  \A w \in Workers : Attached(w) =>
    pc[thread[w].owner] = "write" /\ retry = NoBatch /\ thread[w].st # "idle"
Alone == \A v, w \in Workers : Attached(v) /\ Attached(w) => v = w
Counted == queueBytes = Len(queue) /\ queueBytes <= QueueMax /\ HeldWithinBound
RetryFits == retry # NoBatch => Fits(retry)
BatchFits == \A w \in Workers : Attached(w) => Fits(thread[w].batch)

HInv == TInv /\ CloseIdle /\ Owned /\ Alone /\ Counted /\ RetryFits /\ BatchFits

LEMMA Sizes ==
  ASSUME TInv
  PROVE  /\ queueBytes \in Nat /\ inflightBytes \in Nat /\ Len(queue) \in Nat
         /\ \A b \in Batches : Len(content[b]) \in Nat
         /\ QueueMax \in Nat /\ Growth \in Nat
         /\ retry # NoBatch => retry \in Batches
         /\ \A w \in Workers : Attached(w) => thread[w].batch \in Batches
<1>1. \A b \in Batches : content[b] \in Seq(Lines)
  BY Zenon DEF TInv, TypeOK
<1>2. \A b \in Batches : Len(content[b]) \in Nat
  BY <1>1
<1>3. queueBytes \in Nat /\ inflightBytes \in Nat /\ Len(queue) \in Nat
  BY DEF TInv, TypeOK
<1>4. QueueMax \in Nat /\ Growth \in Nat
  BY SinkAssumption
<1>5. /\ retry # NoBatch => retry \in Batches
      /\ \A w \in Workers : Attached(w) => thread[w].batch \in Batches
  BY Zenon DEF TInv, TypeOK, ThreadHasList, Attached
<1> QED
  BY <1>2, <1>3, <1>4, <1>5

\* Growing n <= Q lines grows their bytes no further than Q lines would.
LEMMA Stretch ==
  ASSUME NEW n \in Nat, NEW q \in Nat, NEW Q \in Nat, NEW G \in Nat, q + n <= Q
  PROVE  /\ q + n * (1 + G) <= Q * (1 + G)
         /\ n <= n * (1 + G) /\ Q <= Q * (1 + G)
<1>1. PICK d \in Nat : Q = (q + n) + d
  <2>1. Q - (q + n) \in Nat /\ Q = (q + n) + (Q - (q + n))
    BY SMT
  <2> QED
    BY <2>1
<1>2. n * G \in Nat /\ q * G \in Nat /\ d * G \in Nat
  BY SMT
<1>3. Q * (1 + G) = q + q * G + n + n * G + d + d * G
  BY <1>1, SMT
<1>4. n * (1 + G) = n + n * G
  BY SMT
<1>5. Q * (1 + G) = Q + (q * G + n * G + d * G)
  BY <1>1, <1>3, <1>2, SMT
<1> QED
  BY <1>1, <1>2, <1>3, <1>4, <1>5, SMT

LEMMA Products ==
  ASSUME NEW n \in Nat, NEW G \in Nat
  PROVE  n * (1 + G) \in Nat /\ n * 1 = n
  BY SMT

LEMMA HeldInit == Init => HInv
<1> SUFFICES ASSUME Init PROVE HInv
  OBVIOUS
<1>1. TInv
  BY TypeInit
<1>2. \A w \in Workers : ~Attached(w)
  BY IdleThreadType DEF Init, Attached
<1>3. CloseIdle
  BY DEF Init, CloseIdle, Actors
<1>4. Counted
  <2>1. QueueMax \in Nat /\ Growth \in Nat
    BY SinkAssumption
  <2>2. 0 <= QueueMax /\ 0 <= QueueMax * (1 + Growth)
    BY <2>1, SMT
  <2>3. queueBytes = 0 /\ inflightBytes = 0 /\ Len(queue) = 0
    BY DEF Init
  <2> QED
    BY <2>2, <2>3 DEF Counted, HeldWithinBound, Held
<1>5. retry = NoBatch
  BY DEF Init
<1> QED
  BY <1>1, <1>2, <1>3, <1>4, <1>5, Zenon DEF HInv, Owned, Alone, RetryFits, BatchFits

\* A step that leaves the queue alone, shortens lists at most, and keeps every
\* coroutine that awaits a write where it is.
LEMMA CalmStep ==
  ASSUME HInv, TInv', CloseIdle',
         UNCHANGED memory,
         \A b \in Batches : Len(content'[b]) <= Len(content[b]),
         \A w \in Workers : Attached(w)' =>
           /\ Attached(w) /\ thread'[w].st # "idle"
           /\ thread'[w].owner = thread[w].owner /\ thread'[w].batch = thread[w].batch,
         \A a \in Actors : pc[a] = "write" => pc'[a] = "write"
  PROVE  HInv'
<1>1. Counted'
  BY Zenon DEF HInv, memory, Counted, HeldWithinBound, Held
<1>2. \A b \in Batches : Fits(b) => Fits(b)'
  <2> TAKE b \in Batches
  <2>1. /\ Len(content[b]) \in Nat /\ Len(content'[b]) \in Nat
        /\ queueBytes \in Nat /\ inflightBytes \in Nat /\ QueueMax \in Nat
        /\ queueBytes' = queueBytes /\ inflightBytes' = inflightBytes
        /\ Len(content'[b]) <= Len(content[b])
    <3>1. Len(content'[b]) \in Nat
      <4>1. content'[b] \in Seq(Lines)
        BY Zenon DEF TInv, TypeOK
      <4> QED
        BY <4>1
    <3> QED
      BY <3>1, Sizes, Zenon DEF HInv, memory
  <2> QED
    BY <2>1, SMT DEF Fits
<1>3. RetryFits'
  BY <1>2, Sizes, Zenon DEF HInv, RetryFits, memory
<1>4. BatchFits' /\ Alone'
  BY <1>2, Sizes, Zenon DEF HInv, BatchFits, Alone
<1>5. Owned'
  <2>1. \A w \in Workers : Attached(w) => thread[w].owner \in Actors
    BY DEF HInv, TInv, TypeOK, ThreadRecord, Attached
  <2> QED
    BY <2>1, Zenon DEF HInv, Owned, memory
<1> QED
  BY <1>1, <1>3, <1>4, <1>5, Zenon DEF HInv

\* A step that at most appends one line that there was room for.
LEMMA EnqueueHeld ==
  ASSUME HInv, TInv', NEW l \in Lines, NEW onLoop \in BOOLEAN,
         Enqueue(l, onLoop) \/ UNCHANGED <<queue, queueBytes>>,
         UNCHANGED <<inflightBytes, retry, content, thread, pc, closed>>
  PROVE  HInv'
<1>1. \/ queue' = queue /\ queueBytes' = queueBytes
      \/ HasRoom /\ queue' = Append(queue, l) /\ queueBytes' = queueBytes + 1
  BY EnqueueEffect, Zenon
<1>2. /\ queueBytes \in Nat /\ inflightBytes \in Nat /\ QueueMax \in Nat /\ Growth \in Nat
      /\ inflightBytes' = inflightBytes
  BY Sizes, Zenon DEF HInv
<1>3. /\ Held \in Nat
      /\ Held' = Held \/ (Held' = Held + 1 /\ Held + 1 <= QueueMax)
      /\ queueBytes <= Held
      /\ queueBytes' = queueBytes \/ (queueBytes' = queueBytes + 1 /\ Held + 1 <= QueueMax)
  BY <1>1, <1>2, SMT DEF Held, HasRoom
<1>4. Counted'
  <2>1. queueBytes' = Len(queue')
    <3>1. queue \in Seq(Lines) /\ queueBytes = Len(queue)
      BY Zenon DEF HInv, TInv, TypeOK, Counted
    <3>2. Len(Append(queue, l)) = Len(queue) + 1
      BY <3>1, AppendProperties
    <3> QED
      BY <1>1, <3>1, <3>2, Zenon
  <2>2. QueueMax <= QueueMax * (1 + Growth)
    BY <1>2, Stretch
  <2>3. QueueMax * (1 + Growth) \in Nat
    BY <1>2, SMT
  <2>4. queueBytes' <= QueueMax /\ Held' <= QueueMax * (1 + Growth)
    <3> DEFINE P == QueueMax * (1 + Growth)
    <3>1. queueBytes <= QueueMax /\ Held <= P
      BY Zenon DEF HInv, Counted, HeldWithinBound
    <3> HIDE DEF P
    <3> QED
      BY <1>2, <1>3, <2>2, <2>3, <3>1, SMT DEF P
  <2> QED
    BY <2>1, <2>4, Zenon DEF Counted, HeldWithinBound
<1>5. \A b \in Batches : Fits(b) => Fits(b)'
  <2> TAKE b \in Batches
  <2>1. Len(content[b]) \in Nat /\ content' = content
    BY Sizes, Zenon DEF HInv
  <2> QED
    BY <1>2, <1>3, <2>1, SMT DEF Fits, Held
<1>6. RetryFits' /\ BatchFits'
  BY <1>5, Sizes, Zenon DEF HInv, RetryFits, BatchFits, Attached
<1>7. CloseIdle' /\ Owned' /\ Alone'
  BY Zenon DEF HInv, CloseIdle, Owned, Alone, Attached
<1> QED
  BY <1>4, <1>6, <1>7, Zenon DEF HInv

\* A step after which nobody awaits a thread, with what KeepOrLose left behind.
LEMMA ReleasedHeld ==
  ASSUME HInv, TInv', CloseIdle', NEW w \in Workers, Attached(w),
         NEW u, u.owner = Detached, thread' = [thread EXCEPT ![w] = u],
         UNCHANGED <<queue, queueBytes, content>>,
         \/ KeepOrLose(thread[w].batch, thread[w].again)
         \/ inflightBytes' = 0 /\ retry' = retry
  PROVE  HInv'
<1> PICK b \in Batches : b = thread[w].batch
  BY Sizes, Zenon DEF HInv
<1>1. /\ retry = NoBatch /\ Fits(b)
      /\ queueBytes \in Nat /\ inflightBytes \in Nat /\ Len(content[b]) \in Nat
      /\ QueueMax \in Nat /\ Growth \in Nat
  BY Sizes, Zenon DEF HInv, Owned, BatchFits
<1>2. \A v \in Workers : ~Attached(v)'
  <2>1. \A v \in Workers : thread'[v] = IF v = w THEN u ELSE thread[v]
    BY Zenon DEF HInv, TInv, TypeOK
  <2> QED
    BY <2>1, Zenon DEF HInv, Alone, Attached
<1>3. Owned' /\ Alone' /\ BatchFits'
  BY <1>2, Zenon DEF Owned, Alone, BatchFits
<1>4. \/ retry' = NoBatch /\ inflightBytes' = 0
      \/ retry' = b /\ inflightBytes' = Bytes(b)
  BY <1>1, Zenon DEF KeepOrLose
<1>5. queueBytes + Len(content[b]) <= QueueMax
  BY <1>1, Zenon DEF Fits
<1>6. /\ Bytes(b) \in Nat /\ Len(content[b]) <= Bytes(b)
      /\ queueBytes + Bytes(b) <= QueueMax * (1 + Growth)
  <2> DEFINE n == Len(content[b])
             P == QueueMax * (1 + Growth)
             S == n * (1 + Growth)
  <2>1. queueBytes + S <= P /\ n <= S /\ QueueMax <= P
    <3> HIDE DEF n
    <3> QED
      BY <1>1, <1>5, Stretch DEF n
  <2>2. S \in Nat /\ P \in Nat /\ n \in Nat /\ n * 1 = n
    BY <1>1, Products, Zenon
  <2>3. Bytes(b) = S \/ Bytes(b) = n
    BY <2>2, Zenon DEF Bytes
  <2>4. queueBytes + n <= P
    <3> HIDE DEF n, P, S
    <3> QED
      BY <1>1, <2>1, <2>2, SMT
  <2> HIDE DEF n, P, S
  <2>5. Bytes(b) \in Nat /\ n <= Bytes(b) /\ queueBytes + Bytes(b) <= P
    BY <2>1, <2>2, <2>3, <2>4, SMT
  <2> QED
    BY <2>5, Zenon DEF n, P
<1>7. Counted'
  <2>1. queueBytes' = Len(queue') /\ queueBytes' <= QueueMax
    BY Zenon DEF HInv, Counted
  <2>2. HeldWithinBound'
    <3> DEFINE P == QueueMax * (1 + Growth)
    <3>1. queueBytes <= P
      <4>1. queueBytes <= QueueMax /\ QueueMax <= P /\ P \in Nat
        BY <1>1, Stretch, SMT DEF HInv, Counted
      <4> HIDE DEF P
      <4> QED
        BY <1>1, <4>1, SMT
    <3> HIDE DEF P
    <3>2. queueBytes + Bytes(b) <= P
      BY <1>6, Zenon DEF P
    <3>3. queueBytes' + inflightBytes' <= P
      <4>1. CASE inflightBytes' = 0
        BY <1>1, <3>1, <4>1
      <4>2. CASE inflightBytes' = Bytes(b)
        BY <3>2, <4>2
      <4> QED
        BY <1>4, <4>1, <4>2
    <3> QED
      BY <3>3, Zenon DEF HeldWithinBound, Held, P
  <2> QED
    BY <2>1, <2>2, Zenon DEF Counted
<1>8. RetryFits'
  <2>1. CASE retry' = NoBatch
    BY <2>1 DEF RetryFits
  <2>2. CASE retry' = b /\ inflightBytes' = Bytes(b)
    <3>1. Fits(b)'
      BY <1>5, <1>6, <2>2, Zenon DEF Fits
    <3> QED
      BY <2>2, <3>1, Zenon DEF RetryFits
  <2> QED
    BY <1>4, <2>1, <2>2
<1> QED
  BY <1>3, <1>7, <1>8, Zenon DEF HInv

\* The step that hands a list to a thread while nobody holds the lock.
LEMMA TakenHeld ==
  ASSUME HInv, TInv', CloseIdle', LockFree, NEW a \in Actors, NEW b \in Batches,
         NEW again \in BOOLEAN, HandToThread(a, b, again), retry' = NoBatch,
         Fits(b)', Counted'
  PROVE  HInv'
<1>1. \A w \in Workers : ~Attached(w)
  <2>1. \A w \in Workers : Attached(w) => thread[w].owner \in Actors
    BY DEF HInv, TInv, TypeOK, ThreadRecord, Attached
  <2> QED
    BY <2>1, Zenon DEF HInv, Owned, LockFree
<1>2. PICK w \in Workers : thread' = [thread EXCEPT ![w] = Queued(a, b, again)]
  <2> DEFINE w == CHOOSE v \in IdleWorkers : TRUE
  <2>1. w \in IdleWorkers /\ thread' = [thread EXCEPT ![w] = Queued(a, b, again)]
    BY Zenon DEF HandToThread
  <2> QED
    BY <2>1, Zenon DEF IdleWorkers
<1>3. \A v \in Workers : thread'[v] = IF v = w THEN Queued(a, b, again) ELSE thread[v]
  BY <1>2, Zenon DEF HInv, TInv, TypeOK
<1>4. /\ Queued(a, b, again).st = "queued" /\ Queued(a, b, again).owner = a
      /\ Queued(a, b, again).batch = b
  BY DEF Queued
<1>5. pc'[a] = "write"
  BY Zenon DEF HandToThread, HInv, TInv, TypeOK
<1>6. \A v \in Workers : Attached(v)' => v = w
  BY <1>1, <1>3, Zenon DEF Attached
<1>7. "queued" # "idle"
  OBVIOUS
<1>8. Owned'
  BY <1>3, <1>4, <1>5, <1>6, <1>7, Zenon DEF Owned
<1>9. Alone' /\ BatchFits'
  BY <1>3, <1>4, <1>6, Zenon DEF Alone, BatchFits
<1> QED
  BY <1>8, <1>9, Zenon DEF HInv, RetryFits

LEMMA SubmitHeld ==
  ASSUME HInv, TInv', NEW l \in Lines,
         SubmitOnLoop(l) \/ SubmitOffLoop(l)
  PROVE  HInv'
<1>1. TRUE \in BOOLEAN /\ FALSE \in BOOLEAN
  OBVIOUS
<1>2. UNCHANGED <<inflightBytes, retry, content, thread, pc, closed>>
  BY Zenon DEF SubmitOnLoop, SubmitOffLoop, DropUnserialisable, memory, lists, flow, life
<1>3. \/ Enqueue(l, TRUE) \/ Enqueue(l, FALSE)
      \/ UNCHANGED <<queue, queueBytes>>
  BY Zenon DEF SubmitOnLoop, SubmitOffLoop, DropUnserialisable, memory
<1> QED
  BY <1>1, <1>2, <1>3, EnqueueHeld, Zenon

LEMMA DeliverHeld ==
  ASSUME HInv, TInv', DeliverHanded
  PROVE  HInv'
<1>1. Head(handed) \in Lines
  BY HeadTailProperties DEF HInv, TInv, TypeOK, DeliverHanded
<1>2. UNCHANGED <<inflightBytes, retry, content, thread, pc, closed>>
  BY Zenon DEF DeliverHanded, lists, flow
<1>3. TRUE \in BOOLEAN /\ Enqueue(Head(handed), TRUE)
  BY Zenon DEF DeliverHanded
<1> QED
  BY <1>1, <1>2, <1>3, EnqueueHeld, Zenon

\* The steps of the coroutines between two flushes.
LEMMA ControlHeld ==
  ASSUME HInv, TInv', CloseIdle', UNCHANGED <<memory, content, thread>>,
         \A a \in Actors : pc[a] = "write" => pc'[a] = "write"
  PROVE  HInv'
<1>1. \A b \in Batches : Len(content'[b]) <= Len(content[b])
  <2> TAKE b \in Batches
  <2>1. Len(content[b]) \in Nat /\ content'[b] = content[b]
    BY Sizes, Zenon DEF HInv
  <2> QED
    BY <2>1
<1>2. \A w \in Workers : Attached(w)' =>
           /\ Attached(w) /\ thread'[w].st # "idle"
           /\ thread'[w].owner = thread[w].owner /\ thread'[w].batch = thread[w].batch
  BY Zenon DEF HInv, Owned, Attached
<1> QED
  BY <1>1, <1>2, CalmStep, Zenon

LEMMA FlowHeld ==
  ASSUME HInv, TInv',
         \/ Start \/ Wake \/ CloseBegin \/ Terminate \/ LoopEnds
         \/ (\E a \in Actors : StartRound(a)) \/ (\E f \in Flushers : FlushCall(f))
  PROVE  HInv'
<1>1. pc \in [Actors -> PCs] /\ CloseIdle /\ {"run", "close"} \subseteq Actors
      /\ Flushers \subseteq Actors /\ "close" \notin Flushers
  BY SinkAssumption DEF HInv, TInv, TypeOK, Actors
<1>2. UNCHANGED <<memory, content, thread>>
  BY Zenon DEF Start, Wake, CloseBegin, Terminate, LoopEnds, StartRound, FlushCall, lists
<1>3. CASE Start
  <2>1. pc' = pc \/ (pc["run"] = "off" /\ pc' = [pc EXCEPT !["run"] = "sleep"])
    BY <1>3, Zenon DEF Start
  <2>2. CloseIdle' /\ \A a \in Actors : pc[a] = "write" => pc'[a] = "write"
    BY <1>1, <1>3, <2>1, SMT DEF Start, CloseIdle
  <2> QED
    BY <1>2, <2>2, ControlHeld, Zenon
<1>4. CASE Wake
  <2>1. /\ pc["run"] = "sleep" /\ closed' = closed
        /\ pc' = [pc EXCEPT !["run"] = IF closed THEN "round" ELSE "lock"]
    BY <1>4, Zenon DEF Wake, life
  <2>2. CloseIdle' /\ \A a \in Actors : pc[a] = "write" => pc'[a] = "write"
    BY <1>1, <2>1, SMT DEF CloseIdle
  <2> QED
    BY <1>2, <2>2, ControlHeld, Zenon
<1>5. CASE CloseBegin
  <2>1. /\ pc["close"] = "off" /\ closed' = TRUE
        /\ pc' = [pc EXCEPT !["close"] = IF pc["run"] = "off" THEN "round" ELSE "await"]
    BY <1>1, <1>5, Zenon DEF CloseBegin, CloseIdle
  <2>2. CloseIdle' /\ \A a \in Actors : pc[a] = "write" => pc'[a] = "write"
    BY <1>1, <2>1, SMT DEF CloseIdle
  <2> QED
    BY <1>2, <2>2, ControlHeld, Zenon
<1>6. CASE Terminate
  <2>1. /\ pc["close"] # "write" /\ closed /\ closed' = closed
        /\ pc' = [pc EXCEPT !["close"] = "done"]
    BY <1>6, SMT DEF Terminate, Drained
  <2>2. CloseIdle' /\ \A a \in Actors : pc[a] = "write" => pc'[a] = "write"
    BY <1>1, <2>1, SMT DEF CloseIdle
  <2> QED
    BY <1>2, <2>2, ControlHeld, Zenon
<1>7. CASE LoopEnds
  BY <1>1, <1>2, <1>7, ControlHeld, Zenon DEF LoopEnds, flow, CloseIdle
<1>8. ASSUME NEW a \in Actors, StartRound(a)
      PROVE  HInv'
  <2>1. PICK p \in {"done", "lock"} :
          pc[a] = "round" /\ closed' = closed /\ pc' = [pc EXCEPT ![a] = p]
    BY <1>8, Zenon DEF StartRound, life
  <2>2. CloseIdle' /\ \A c \in Actors : pc[c] = "write" => pc'[c] = "write"
    BY <1>1, <2>1, SMT DEF CloseIdle
  <2> QED
    BY <1>2, <2>2, ControlHeld, Zenon
<1>9. ASSUME NEW f \in Flushers, FlushCall(f)
      PROVE  HInv'
  <2>1. pc[f] = "off" /\ closed' = closed /\ pc' = [pc EXCEPT ![f] = "round"]
    BY <1>9, Zenon DEF FlushCall, life
  <2>2. CloseIdle' /\ \A a \in Actors : pc[a] = "write" => pc'[a] = "write"
    BY <1>1, <2>1, SMT DEF CloseIdle
  <2> QED
    BY <1>2, <2>2, ControlHeld, Zenon
<1> QED
  BY <1>3, <1>4, <1>5, <1>6, <1>7, <1>8, <1>9

LEMMA ThreadHeld ==
  ASSUME HInv, TInv', NEW w \in Workers, ThreadStep(w)
  PROVE  HInv'
<1>1. UNCHANGED memory /\ pc' = pc /\ closed' = closed
  BY Zenon DEF ThreadStep, ThreadStarts, BorrowForSegment, SegmentLands, SegmentFails,
               BatchDone, BatchFails, memory, lists, flow, life
<1>2. CloseIdle'
  BY <1>1, Zenon DEF HInv, CloseIdle
<1>3. thread[w] \in ThreadRecord /\ thread[w].batch \in Batches /\ thread[w].st # "idle"
      /\ thread \in [Workers -> ThreadRecord] /\ content \in [Batches -> Seq(Lines)]
  BY DEF HInv, TInv, TypeOK, ThreadHasList, ThreadStep, ThreadStarts, BorrowForSegment,
         SegmentLands, SegmentFails, BatchDone, BatchFails, Step
<1>4. PICK u : /\ thread' = [thread EXCEPT ![w] = u]
               /\ \/ u.owner = thread[w].owner /\ u.batch = thread[w].batch /\ u.st # "idle"
                  \/ u.owner = Detached
  <2>2. CASE ThreadStarts(w)
    <3> DEFINE u == [thread[w] EXCEPT !.st = "running",
                                      !.total = Len(content[thread[w].batch])]
    <3>1. thread' = [thread EXCEPT ![w] = u]
      BY <2>2, Zenon DEF ThreadStarts, Step
    <3>2. u.owner = thread[w].owner /\ u.batch = thread[w].batch /\ u.st # "idle"
      BY <1>3 DEF ThreadRecord
    <3> QED
      BY <3>1, <3>2
  <2>3. CASE BorrowForSegment(w)
    <3>1. PICK seg : thread' = [thread EXCEPT ![w] =
                        [thread[w] EXCEPT !.st = "writing", !.segment = seg]]
      BY <2>3, Zenon DEF BorrowForSegment, Step
    <3> DEFINE u == [thread[w] EXCEPT !.st = "writing", !.segment = seg]
    <3>2. u.owner = thread[w].owner /\ u.batch = thread[w].batch /\ u.st # "idle"
      BY <1>3 DEF ThreadRecord
    <3> QED
      BY <3>1, <3>2
  <2>4. CASE SegmentLands(w)
    <3>1. PICK p : thread' = [thread EXCEPT ![w] =
                      [thread[w] EXCEPT !.st = "running", !.segment = <<>>, !.placed = p]]
      BY <2>4, Zenon DEF SegmentLands, Step
    <3> DEFINE u == [thread[w] EXCEPT !.st = "running", !.segment = <<>>, !.placed = p]
    <3>2. u.owner = thread[w].owner /\ u.batch = thread[w].batch /\ u.st # "idle"
      BY <1>3 DEF ThreadRecord
    <3> QED
      BY <3>1, <3>2
  <2>5. CASE SegmentFails(w) \/ BatchDone(w) \/ BatchFails(w)
    <3>1. PICK placed, result : Leave(w, placed, result) /\ result # "idle"
      <4>1. (\E placed : Leave(w, placed, "ok")) \/ (\E placed : Leave(w, placed, "failed"))
        BY <2>5, Zenon DEF SegmentFails, BatchDone, BatchFails
      <4>2. "ok" # "idle" /\ "failed" # "idle"
        OBVIOUS
      <4> QED
        BY <4>1, <4>2, Zenon
    <3> DEFINE v == [thread[w] EXCEPT !.st = result, !.placed = placed, !.segment = <<>>]
    <3>2. v.owner = thread[w].owner /\ v.batch = thread[w].batch /\ v.st # "idle"
      BY <1>3, <3>1 DEF ThreadRecord
    <3>3. thread' = [thread EXCEPT ![w] = IF thread[w].owner = Detached THEN IdleThread ELSE v]
      BY <3>1, Zenon DEF Leave
    <3> HIDE DEF v
    <3> QED
      BY <3>2, <3>3, IdleThreadType, Zenon
  <2> QED
    BY <2>2, <2>3, <2>4, <2>5, Zenon DEF ThreadStep
<1>5. \A v \in Workers : Attached(v)' =>
           /\ Attached(v) /\ thread'[v].st # "idle"
           /\ thread'[v].owner = thread[v].owner /\ thread'[v].batch = thread[v].batch
  <2>1. \A v \in Workers : thread'[v] = IF v = w THEN u ELSE thread[v]
    BY <1>3, <1>4, Zenon
  <2> QED
    BY <1>4, <2>1, Zenon DEF Attached, HInv, Owned
<1>6. \A b \in Batches : Len(content'[b]) <= Len(content[b])
  <2> TAKE b \in Batches
  <2>1. content[b] \in Seq(Lines) /\ Len(content[b]) \in Nat
    BY <1>3
  <2>2. CASE content' = content
    BY <2>1, <2>2
  <2>3. CASE content' # content
    <3>1. PICK placed \in Nat, result \in {"ok", "failed"} : Leave(w, placed, result)
      <4>1. /\ thread[w].placed \in Nat
            /\ \A k \in 0..Len(thread[w].segment) : Placed(thread[w], k) \in Nat
        BY <1>3 DEF Placed, ThreadRecord
      <4> QED
        BY <2>3, <4>1, Zenon DEF ThreadStep, ThreadStarts, BorrowForSegment, SegmentLands,
                                 SegmentFails, BatchDone, BatchFails, lists
    <3>2. \/ content'[b] = content[b]
          \/ content'[b] = SubSeq(content[b], placed + 1, Len(content[b]))
      BY <1>3, <3>1, Zenon DEF Leave
    <3>3. Len(SubSeq(content[b], placed + 1, Len(content[b]))) <= Len(content[b])
      BY <2>1, SubSeqType
    <3> QED
      BY <2>1, <3>2, <3>3
  <2> QED
    BY <2>2, <2>3
<1> QED
  BY <1>1, <1>2, <1>5, <1>6, CalmStep, Zenon

LEMMA TakeBatchHeld ==
  ASSUME HInv, TInv', NEW a \in Actors, TakeBatch(a)
  PROVE  HInv'
<1>1. LockFree /\ pc[a] = "lock" /\ closed' = closed
  BY Zenon DEF TakeBatch, life
<1>2. CloseIdle' /\ ("close" = a => closed)
  <2>1. pc \in [Actors -> PCs] /\ CloseIdle /\ "close" \in Actors
    BY DEF HInv, TInv, TypeOK, Actors
  <2>2. "close" = a => closed
    BY <1>1, <2>1, SMT DEF CloseIdle
  <2>3. "close" # a => pc'["close"] = pc["close"]
    BY <1>1, <2>1, Zenon DEF TakeBatch, TakeRetry, TakeQueue, NothingToTake, HandToThread, AfterRound
  <2> QED
    BY <1>1, <2>1, <2>2, <2>3, Zenon DEF CloseIdle
<1>3. TRUE \in BOOLEAN /\ FALSE \in BOOLEAN
  OBVIOUS
<1>4. CASE TakeRetry(a)
  <2>1. PICK b \in Batches : b = retry
    BY <1>4, Zenon DEF HInv, TInv, TypeOK, TakeRetry
  <2>2. UNCHANGED <<queue, queueBytes, inflightBytes, content>> /\ retry' = NoBatch
        /\ HandToThread(a, b, TRUE)
    BY <1>4, <2>1, Zenon DEF TakeRetry, lists
  <2>3. Fits(b)' /\ Counted'
    BY <1>4, <2>1, <2>2, Zenon
    DEF HInv, RetryFits, Fits, Counted, HeldWithinBound, Held, TakeRetry
  <2> QED
    BY <1>1, <1>2, <1>3, <2>2, <2>3, TakenHeld, Zenon
<1>5. CASE TakeQueue(a)
  <2>1. PICK b \in Batches : HandToThread(a, b, FALSE) /\ Drain(b)
    BY <1>5, Zenon DEF TakeQueue, FreeBatches
  <2>2. /\ queue' = <<>> /\ queueBytes' = 0 /\ inflightBytes' = queueBytes
        /\ content'[b] = queue /\ retry' = NoBatch
    BY <1>5, <2>1, Zenon DEF Drain, TakeQueue, HInv, TInv, TypeOK
  <2>3. /\ queueBytes = Len(queue) /\ queueBytes <= QueueMax /\ Held <= QueueMax * (1 + Growth)
        /\ queueBytes \in Nat /\ inflightBytes \in Nat /\ QueueMax \in Nat
        /\ QueueMax * (1 + Growth) \in Nat
    BY Sizes, Products, Zenon DEF HInv, Counted, HeldWithinBound
  <2>4. Fits(b)'
    BY <2>2, <2>3, SMT DEF Fits
  <2>5. Counted'
    <3> DEFINE P == QueueMax * (1 + Growth)
    <3>1. P \in Nat /\ queueBytes + inflightBytes <= P
      BY <2>3, Zenon DEF Held
    <3> HIDE DEF P
    <3>2. Len(queue') = 0 /\ queueBytes' = 0 /\ 0 <= QueueMax /\ queueBytes' + inflightBytes' <= P
      BY <2>2, <2>3, <3>1, SMT
    <3> QED
      BY <3>2, Zenon DEF P, Counted, HeldWithinBound, Held
  <2> QED
    BY <1>1, <1>2, <1>3, <2>1, <2>2, <2>4, <2>5, TakenHeld, Zenon
<1>6. CASE NothingToTake(a)
  <2>1. \A w \in Workers : ~Attached(w)'
    <3>1. \A w \in Workers : Attached(w) => thread[w].owner \in Actors
      BY DEF HInv, TInv, TypeOK, ThreadRecord, Attached
    <3> QED
      BY <1>1, <1>6, <3>1, Zenon DEF HInv, Owned, LockFree, NothingToTake, Attached
  <2>2. retry' = NoBatch /\ inflightBytes' = 0 /\ UNCHANGED <<queue, queueBytes>>
    BY <1>6, Zenon DEF NothingToTake
  <2>3. Counted'
    <3>1. /\ queueBytes \in Nat /\ inflightBytes \in Nat /\ QueueMax * (1 + Growth) \in Nat
          /\ Held <= QueueMax * (1 + Growth) /\ queueBytes = Len(queue) /\ queueBytes <= QueueMax
      BY Sizes, Products, Zenon DEF HInv, Counted, HeldWithinBound
    <3> DEFINE P == QueueMax * (1 + Growth)
    <3>2. P \in Nat /\ queueBytes + inflightBytes <= P
      BY <3>1, Zenon DEF Held
    <3> HIDE DEF P
    <3>3. queueBytes' + inflightBytes' <= P
      BY <2>2, <3>1, <3>2, SMT
    <3> QED
      BY <2>2, <3>1, <3>3, Zenon DEF P, Counted, HeldWithinBound, Held
  <2> QED
    BY <1>2, <2>1, <2>2, <2>3, Zenon DEF HInv, Owned, Alone, RetryFits, BatchFits
<1> QED
  BY <1>4, <1>5, <1>6, Zenon DEF TakeBatch

LEMMA ResumeWriteHeld ==
  ASSUME HInv, TInv', NEW a \in Actors, ResumeWrite(a)
  PROVE  HInv'
<1>1. PICK w \in Workers :
        /\ thread[w].owner = a
        /\ \/ inflightBytes' = 0 /\ retry' = retry
           \/ KeepOrLose(thread[w].batch, thread[w].again)
        /\ thread' = [thread EXCEPT ![w] = IdleThread]
  BY Zenon DEF ResumeWrite
<1>2. Attached(w)
  BY <1>1, SinkAssumption DEF Attached, Actors, Detached
<1>3. UNCHANGED <<queue, queueBytes, content>> /\ closed' = closed /\ pc[a] = "write"
  BY Zenon DEF ResumeWrite, lists, life
<1>4. CloseIdle'
  <2>1. pc \in [Actors -> PCs] /\ CloseIdle /\ "close" \in Actors
    BY DEF HInv, TInv, TypeOK, Actors
  <2>2. "close" = a => closed
    BY <1>3, <2>1, SMT DEF CloseIdle
  <2>3. "close" # a => pc'["close"] = pc["close"]
    BY <2>1, Zenon DEF ResumeWrite, AfterRound
  <2> QED
    BY <1>3, <2>1, <2>2, <2>3, Zenon DEF CloseIdle
<1> QED
  BY <1>1, <1>2, <1>3, <1>4, IdleThreadType, ReleasedHeld, Zenon

\* A cancellation that finds the coroutine a in the lock or in a write.
LEMMA UnwindHeld ==
  ASSUME HInv, TInv', CloseIdle', NEW a \in Actors, Unwind(a),
         UNCHANGED <<queue, queueBytes, content>>,
         \A c \in Actors : pc[c] = "write" /\ pc[a] # "write" => pc'[c] = "write"
  PROVE  HInv'
<1>1. CASE pc[a] = "write"
  <2>1. PICK w \in Workers :
          /\ thread[w].owner = a
          /\ KeepOrLose(thread[w].batch, thread[w].again)
          /\ thread' = [thread EXCEPT ![w] =
                          IF @.st \in {"running", "writing"}
                          THEN [@ EXCEPT !.owner = Detached] ELSE IdleThread]
    BY <1>1, Zenon DEF Unwind
  <2> DEFINE u == IF thread[w].st \in {"running", "writing"}
                  THEN [thread[w] EXCEPT !.owner = Detached] ELSE IdleThread
  <2>2. Attached(w)
    BY <2>1, SinkAssumption DEF Attached, Actors, Detached
  <2>3. thread' = [thread EXCEPT ![w] = u]
    BY <2>1, Zenon DEF HInv, TInv, TypeOK
  <2>4. u.owner = Detached
    <3>1. thread[w] \in ThreadRecord
      BY DEF HInv, TInv, TypeOK
    <3>2. [thread[w] EXCEPT !.owner = Detached].owner = Detached
      BY <3>1 DEF ThreadRecord
    <3> QED
      BY <3>2, IdleThreadType, Zenon
  <2> HIDE DEF u
  <2> QED
    BY <2>1, <2>2, <2>3, <2>4, ReleasedHeld, Zenon
<1>2. CASE pc[a] # "write"
  <2>1. inflightBytes' = inflightBytes /\ retry' = retry /\ thread' = thread
    BY <1>2, Zenon DEF Unwind
  <2> QED
    BY <1>2, <2>1, ControlHeld, Zenon DEF memory
<1> QED
  BY <1>1, <1>2

LEMMA CancelFlushHeld ==
  ASSUME HInv, TInv', NEW f \in Flushers, CancelFlush(f)
  PROVE  HInv'
<1>1. /\ f \in Actors /\ f # "close" /\ "close" \in Actors
      /\ pc \in [Actors -> PCs] /\ CloseIdle
  BY SinkAssumption DEF Actors, HInv, TInv, TypeOK
<1>2. /\ Unwind(f) /\ UNCHANGED <<queue, queueBytes, content>> /\ closed' = closed
      /\ pc[f] \in {"lock", "write"} /\ pc' = [pc EXCEPT ![f] = "done"]
  BY Zenon DEF CancelFlush, lists, life
<1>3. CloseIdle'
  BY <1>1, <1>2, Zenon DEF CloseIdle
<1>4. \A c \in Actors : pc[c] = "write" /\ pc[f] # "write" => pc'[c] = "write"
  BY <1>1, <1>2, Zenon
<1> QED
  BY <1>1, <1>2, <1>3, <1>4, UnwindHeld, Zenon

LEMMA CloseTimesOutHeld ==
  ASSUME HInv, TInv', CloseTimesOut
  PROVE  HInv'
<1>1. PICK d \in Actors : /\ d = IF pc["close"] = "await" THEN "run" ELSE "close"
                          /\ HeldUp(d) /\ Unwind(d)
                          /\ pc' = [pc EXCEPT ![d] = "done", !["close"] = "cancelled"]
  <2>1. "run" \in Actors /\ "close" \in Actors
    BY DEF Actors
  <2> QED
    BY <2>1, Zenon DEF CloseTimesOut
<1>2. /\ UNCHANGED <<queue, queueBytes, content>> /\ closed' = closed
      /\ pc["close"] \in {"await", "lock", "write"}
  BY Zenon DEF CloseTimesOut, lists
<1>3. pc \in [Actors -> PCs] /\ CloseIdle /\ "close" \in Actors
  BY DEF Actors, HInv, TInv, TypeOK
<1>4. closed /\ CloseIdle'
  BY <1>2, <1>3, SMT DEF CloseIdle
<1>5. \A c \in Actors : pc[c] = "write" /\ pc[d] # "write" => pc'[c] = "write"
  BY <1>1, <1>2, <1>3, SMT
<1> QED
  BY <1>1, <1>2, <1>4, <1>5, UnwindHeld, Zenon

LEMMA HeldNext == HInv /\ [Next]_vars => HInv'
<1> SUFFICES ASSUME HInv, [Next]_vars
             PROVE  HInv'
  OBVIOUS
<1>1. TInv'
  BY TypeNext DEF HInv
<1>2. CASE UNCHANGED vars
  <2>1. UNCHANGED <<memory, content, thread, pc, closed>>
    BY <1>2, Zenon DEF vars, lists, flow, life
  <2>2. CloseIdle'
    BY <2>1, Zenon DEF HInv, CloseIdle
  <2> QED
    BY <1>1, <2>1, <2>2, ControlHeld, Zenon
<1>3. ASSUME NEW l \in Lines, SubmitOnLoop(l) \/ SubmitOffLoop(l)
      PROVE  HInv'
  BY <1>1, <1>3, SubmitHeld, Zenon
<1>4. CASE LoopStep
  BY <1>1, <1>4, DeliverHeld, FlowHeld, TakeBatchHeld, ResumeWriteHeld, Zenon DEF LoopStep
<1>5. ASSUME NEW f \in Flushers, FlushCall(f) \/ CancelFlush(f)
      PROVE  HInv'
  BY <1>1, <1>5, FlowHeld, CancelFlushHeld, Zenon
<1>6. ASSUME NEW w \in Workers, ThreadStep(w)
      PROVE  HInv'
  BY <1>1, <1>6, ThreadHeld, Zenon
<1>7. CASE CloseBegin \/ CloseTimesOut \/ LoopEnds
  BY <1>1, <1>7, FlowHeld, CloseTimesOutHeld, Zenon
<1> QED
  BY <1>2, <1>3, <1>4, <1>5, <1>6, <1>7, Zenon DEF Next

\* FR-18 for any number of documents, flush() callers and threads: what the
\* sink holds in memory, queued, in flight or parked for a retry, never exceeds
\* QueueMax * (1 + Growth).
THEOREM BoundHolds == Spec => []HeldWithinBound
<1>1. Init => HInv
  BY HeldInit
<1>2. HInv /\ [Next]_vars => HInv'
  BY HeldNext
<1>3. HInv => HeldWithinBound
  BY DEF HInv, Counted
<1> QED
  BY <1>1, <1>2, <1>3, PTL DEF Spec

\* Without hooks that lengthen lines, the bound is queue_max_bytes itself.
THEOREM BoundIsExactWithoutHooks == Growth = 0 => (Spec => []HeldWithinQueueMax)
<1> SUFFICES ASSUME Growth = 0
             PROVE  Spec => []HeldWithinQueueMax
  OBVIOUS
<1>1. HeldWithinBound => HeldWithinQueueMax
  <2>1. QueueMax * (1 + Growth) = QueueMax
    BY SinkAssumption
  <2> QED
    BY <2>1, Zenon DEF HeldWithinBound, HeldWithinQueueMax
<1> QED
  BY <1>1, BoundHolds, PTL

\* The asyncio lock does its work: no two writes are awaited at one time, and
\* nothing is parked for a retry while one is.
THEOREM OneWriteAtATime ==
  Spec => [](\A v, w \in Workers :
                Attached(v) => retry = NoBatch /\ (Attached(w) => v = w))
<1>1. HInv => \A v, w \in Workers :
                Attached(v) => retry = NoBatch /\ (Attached(w) => v = w)
  BY Zenon DEF HInv, Owned, Alone
<1>2. Init => HInv
  BY HeldInit
<1>3. HInv /\ [Next]_vars => HInv'
  BY HeldNext
<1> QED
  BY <1>1, <1>2, <1>3, PTL DEF Spec

-----------------------------------------------------------------------------
(***************************************************************************)
(* 2. The ledger.                                                          *)
(*                                                                         *)
(* For any number of documents, threads and list objects, as long as only  *)
(* the background task and close() flush: a line the sink took is in       *)
(* memory, in a file or counted as failed, at every moment.                *)
(*                                                                         *)
(* The argument: one thread at a time works on a list.  Until close() runs *)
(* out of time that follows from the lock; afterwards a thread may go on   *)
(* alone, but the flushes are over and none is started beside it.  What    *)
(* such a thread deletes from its list it has put into the file before.    *)
(* A cancelled flush() breaks this: its thread goes on with the list the   *)
(* next flush hands to a second one.                                       *)
(***************************************************************************)

Busy(w) == thread[w].st # "idle"

\* At most one thread is at work.
Single == \A v, w \in Workers : Busy(v) /\ Busy(w) => v = w

\* Until close() runs out of time somebody waits for every thread at work; from
\* then on nobody flushes; and close() flushes by itself only without a task.
Watched == ~timedOut => \A w \in Workers : Busy(w) => Attached(w)
Hurried ==
  timedOut => closed /\ pc["close"] \in {"cancelled", "done"} /\ pc["run"] \in {"off", "done"}
FlushesItself == pc["close"] \in {"round", "lock", "write"} => closed /\ pc["run"] = "off"
Control == Watched /\ Hurried /\ FlushesItself

\* Where a thread is in its list: behind lines that are in the file, in front of
\* the segment it writes, and at the end when it has succeeded.
Placing(w) == content[thread[w].batch]
Behind(w) ==
  /\ thread[w].total = Len(Placing(w)) /\ thread[w].placed <= thread[w].total
  /\ \A i \in 1..thread[w].placed : Placing(w)[i] \in Members(landed)
InFront(w) ==
  /\ thread[w].placed + Len(thread[w].segment) <= thread[w].total
  /\ \A i \in 1..Len(thread[w].segment) :
       thread[w].segment[i] = Placing(w)[thread[w].placed + i]
Progress(w) ==
  /\ thread[w].st = "queued" => thread[w].placed = 0
  /\ thread[w].st \in {"running", "writing"} => Behind(w)
  /\ thread[w].st = "writing" => InFront(w)
  /\ thread[w].st = "ok" => Placing(w) = <<>>
Works == \A w \in Workers : Busy(w) => Progress(w)

VInv == Flushers = {} /\ HInv /\ Single /\ Control /\ Works /\ NothingVanishes

-----------------------------------------------------------------------------
(* Members of sequences.                                                   *)

LEMMA JoinedMembers ==
  ASSUME NEW S, NEW s \in Seq(S), NEW r \in Seq(S)
  PROVE  /\ Members(s) \subseteq Members(s \o r)
         /\ Members(r) \subseteq Members(s \o r)
<1>1. /\ s \o r \in Seq(S) /\ Len(s \o r) = Len(s) + Len(r)
      /\ \A i \in 1..Len(s) : (s \o r)[i] = s[i]
      /\ \A i \in 1..Len(r) : (s \o r)[Len(s) + i] = r[i]
  BY SMT
<1>2. /\ DOMAIN s = 1..Len(s) /\ DOMAIN r = 1..Len(r) /\ DOMAIN (s \o r) = 1..Len(s \o r)
      /\ Len(s) \in Nat /\ Len(r) \in Nat
  BY <1>1, SMT
<1>3. ASSUME NEW i \in 1..Len(s)
      PROVE  i \in 1..Len(s \o r)
  BY <1>1, <1>2, SMT
<1>4. ASSUME NEW i \in 1..Len(r)
      PROVE  Len(s) + i \in 1..Len(s \o r)
  BY <1>1, <1>2, SMT
<1>5. Members(s) \subseteq Members(s \o r)
  BY <1>1, <1>2, <1>3, Zenon DEF Members
<1>6. Members(r) \subseteq Members(s \o r)
  BY <1>1, <1>2, <1>4, Zenon DEF Members
<1> QED
  BY <1>5, <1>6

LEMMA AppendedMembers ==
  ASSUME NEW S, NEW s \in Seq(S), NEW l \in S
  PROVE  Members(Append(s, l)) = Members(s) \cup {l}
<1>1. /\ Append(s, l) \in Seq(S) /\ Len(Append(s, l)) = Len(s) + 1
      /\ \A i \in 1..Len(s) : Append(s, l)[i] = s[i]
      /\ Append(s, l)[Len(s) + 1] = l
  BY AppendProperties
<1>2. /\ DOMAIN s = 1..Len(s) /\ DOMAIN Append(s, l) = 1..(Len(s) + 1)
      /\ Len(s) \in Nat
  BY <1>1, SMT
<1>3. /\ \A i \in 1..Len(s) : i \in 1..(Len(s) + 1)
      /\ \A i \in 1..(Len(s) + 1) : i \in 1..Len(s) \/ i = Len(s) + 1
      /\ Len(s) + 1 \in 1..(Len(s) + 1)
  BY <1>2, SMT
<1> DEFINE a == Append(s, l)
<1>4. ASSUME NEW x \in Members(a)
      PROVE  x \in Members(s) \cup {l}
  BY <1>1, <1>2, <1>3, Zenon DEF Members
<1>5. ASSUME NEW x \in Members(s) \cup {l}
      PROVE  x \in Members(a)
  <2>1. CASE x = l
    BY <1>1, <1>2, <1>3, <2>1, Zenon DEF Members
  <2>2. CASE x \in Members(s)
    BY <1>1, <1>2, <1>3, <2>2, Zenon DEF Members
  <2> QED
    BY <1>5, <2>1, <2>2
<1> QED
  BY <1>4, <1>5

\* Deleting the first p lines of a list leaves the others in it.
LEMMA RestMembers ==
  ASSUME NEW S, NEW s \in Seq(S), NEW p \in Nat, NEW l \in Members(s),
         \A i \in 1..p : i <= Len(s) => s[i] # l
  PROVE  l \in Members(SubSeq(s, p + 1, Len(s)))
<1> DEFINE r == SubSeq(s, p + 1, Len(s))
<1>1. PICK i \in 1..Len(s) : s[i] = l
  <2>1. DOMAIN s = 1..Len(s)
    BY SMT
  <2> QED
    BY <2>1, Zenon DEF Members
<1>2. Len(s) \in Nat /\ i > p
  BY <1>1, SMT
<1>3. r \in Seq(S) /\ Len(r) = Len(s) - p /\ r[i - p] = s[i]
  BY <1>2, SMT
<1>4. i - p \in DOMAIN r
  BY <1>2, <1>3, SMT
<1> QED
  BY <1>1, <1>3, <1>4, Zenon DEF Members

-----------------------------------------------------------------------------
(* What is in memory.                                                      *)

InList(l, b) == l \in Members(content[b])
Holds(l) ==
  \/ l \in Members(queue)
  \/ retry # NoBatch /\ InList(l, retry)
  \/ \E w \in Workers : Attached(w) /\ InList(l, thread[w].batch)

LEMMA InMemoryIs == \A l : l \in InMemory <=> Holds(l)
  BY Zenon DEF InMemory, LiveLists, Attached, InList, Holds

LEMMA InMemoryIsPrime == \A l : l \in InMemory' <=> Holds(l)'
  BY Zenon DEF InMemory, LiveLists, Attached, InList, Holds

\* A step that takes no line keeps the account of those taken when each line in
\* memory stays there, lands or is counted.
LEMMA Accounted ==
  ASSUME VInv, accepted' = accepted,
         Members(landed) \subseteq Members(landed'), failed \subseteq failed',
         \A l \in Lines : Holds(l) => Holds(l)' \/ l \in Members(landed') \/ l \in failed'
  PROVE  NothingVanishes'
<1>1. Members(accepted) \subseteq Lines
  BY DEF VInv, HInv, TInv, TypeOK, Members
<1> QED
  BY <1>1, InMemoryIs, InMemoryIsPrime, Zenon DEF VInv, NothingVanishes

\* The facts of the bound's invariant that the ledger needs.
LEMMA Known ==
  ASSUME VInv
  PROVE  /\ queue \in Seq(Lines) /\ accepted \in Seq(Lines) /\ landed \in Seq(Lines)
         /\ content \in [Batches -> Seq(Lines)] /\ thread \in [Workers -> ThreadRecord]
         /\ retry \in Batches \cup {NoBatch} /\ pc \in [Actors -> PCs]
         /\ \A w \in Workers : Busy(w) => thread[w].batch \in Batches
         /\ \A w \in Workers : Attached(w) => Busy(w) /\ thread[w].owner \in Actors
                                              /\ pc[thread[w].owner] = "write"
                                              /\ retry = NoBatch
         /\ Actors = {"run", "close"}
<1>1. \A w \in Workers : Attached(w) => thread[w].owner \in Actors
  BY DEF VInv, HInv, TInv, TypeOK, ThreadRecord, Attached
<1>2. Actors = {"run", "close"}
  BY DEF VInv, Actors
<1>3. \A w \in Workers : Attached(w) => Busy(w) /\ pc[thread[w].owner] = "write" /\ retry = NoBatch
  BY Zenon DEF VInv, HInv, Owned, Busy
<1>4. \A w \in Workers : Busy(w) => thread[w].batch \in Batches
  BY Zenon DEF VInv, HInv, TInv, ThreadHasList, Busy
<1> QED
  BY <1>1, <1>2, <1>3, <1>4, Zenon DEF VInv, HInv, TInv, TypeOK

LEMMA LedgerInit == Flushers = {} /\ Init => VInv
<1> SUFFICES ASSUME Flushers = {}, Init PROVE VInv
  OBVIOUS
<1>1. HInv
  BY HeldInit
<1>2. \A w \in Workers : ~Busy(w)
  BY IdleThreadType DEF Init, Busy
<1>3. Control
  BY <1>2 DEF Init, Control, Watched, Hurried, FlushesItself, Actors
<1>4. NothingVanishes
  BY DEF Init, NothingVanishes, Members
<1> QED
  BY <1>1, <1>2, <1>3, <1>4, Zenon DEF VInv, Single, Works

-----------------------------------------------------------------------------
(* The steps of the event loop that leave lists and threads alone.         *)

LEMMA CalmKept ==
  ASSUME VInv, HInv', Control',
         UNCHANGED <<queue, retry, content, thread, accepted, landed>>,
         failed \subseteq failed'
  PROVE  VInv'
<1>1. Single'
  BY Zenon DEF VInv, Single, Busy
<1>2. Works'
  BY Zenon DEF VInv, Works, Busy, Progress, Behind, InFront, Placing
<1>3. NothingVanishes'
  BY Accounted, Zenon DEF Holds, InList, Attached
<1> QED
  BY <1>1, <1>2, <1>3, Zenon DEF VInv

\* A step that changes neither the control state nor a thread keeps Control.
LEMMA SameControl ==
  ASSUME VInv, UNCHANGED <<thread, pc, closed, timedOut>>
  PROVE  Control'
  BY Zenon DEF VInv, Control, Watched, Hurried, FlushesItself, Busy, Attached

LEMMA EnqueueKept ==
  ASSUME VInv, HInv', NEW l \in Lines, NEW onLoop \in BOOLEAN, Enqueue(l, onLoop),
         UNCHANGED <<retry, content, thread, pc, closed, timedOut, landed, failed>>
  PROVE  VInv'
<1>1. Control'
  BY SameControl, Zenon
<1>2. CASE queue' = queue /\ accepted' = accepted
  BY <1>1, <1>2, CalmKept, Zenon
<1>3. CASE queue' = Append(queue, l) /\ accepted' = Append(accepted, l)
  <2>1. /\ Members(queue') = Members(queue) \cup {l}
        /\ Members(accepted') = Members(accepted) \cup {l}
    <3>1. queue \in Seq(Lines) /\ accepted \in Seq(Lines)
      BY Known
    <3>2. /\ Members(Append(queue, l)) = Members(queue) \cup {l}
          /\ Members(Append(accepted, l)) = Members(accepted) \cup {l}
      BY <3>1, AppendedMembers
    <3> QED
      BY <1>3, <3>2, Zenon
  <2>2. NothingVanishes'
    <3>1. \A x : x \in InMemory => x \in InMemory'
      BY <2>1, InMemoryIs, InMemoryIsPrime, Zenon DEF Holds, InList, Attached
    <3>2. l \in InMemory'
      BY <2>1, InMemoryIsPrime, Zenon DEF Holds
    <3> QED
      BY <2>1, <3>1, <3>2, Zenon DEF VInv, NothingVanishes
  <2>3. Single' /\ Works'
    BY Zenon DEF VInv, Single, Works, Busy, Progress, Behind, InFront, Placing
  <2> QED
    BY <1>1, <2>2, <2>3, Zenon DEF VInv
<1> QED
  BY <1>2, <1>3, EnqueueEffect, Zenon

LEMMA SubmitKept ==
  ASSUME VInv, HInv', NEW l \in Lines, SubmitOnLoop(l) \/ SubmitOffLoop(l)
  PROVE  VInv'
<1> TRUE \in BOOLEAN /\ FALSE \in BOOLEAN
  OBVIOUS
<1>1. /\ UNCHANGED <<retry, content, thread, pc, closed, timedOut, landed>>
      /\ failed \subseteq failed'
  BY Zenon DEF SubmitOnLoop, SubmitOffLoop, DropUnserialisable, memory, lists, flow, life, logfile
<1>2. CASE queue' = queue /\ accepted' = accepted
  <2>1. Control'
    BY <1>1, SameControl, Zenon
  <2> QED
    BY <1>1, <1>2, <2>1, CalmKept, Zenon
<1>3. CASE ~(queue' = queue /\ accepted' = accepted)
  <2>1. failed' = failed /\ (Enqueue(l, TRUE) \/ Enqueue(l, FALSE))
    BY <1>3, Zenon DEF SubmitOnLoop, SubmitOffLoop, DropUnserialisable, memory
  <2> QED
    BY <1>1, <2>1, EnqueueKept, Zenon
<1> QED
  BY <1>2, <1>3

LEMMA DeliverKept ==
  ASSUME VInv, HInv', DeliverHanded
  PROVE  VInv'
<1>1. Head(handed) \in Lines
  BY HeadTailProperties DEF VInv, HInv, TInv, TypeOK, DeliverHanded
<1>2. TRUE \in BOOLEAN /\ Enqueue(Head(handed), TRUE)
  BY Zenon DEF DeliverHanded
<1>3. UNCHANGED <<retry, content, thread, pc, closed, timedOut, landed, failed>>
  BY Zenon DEF DeliverHanded, lists, flow, logfile
<1> QED
  BY <1>1, <1>2, <1>3, EnqueueKept, Zenon

LEMMA FlowKept ==
  ASSUME VInv, HInv',
         \/ Start \/ Wake \/ CloseBegin \/ Terminate \/ LoopEnds
         \/ \E a \in Actors : StartRound(a) \/ (NothingToTake(a) /\ TakeBatch(a))
  PROVE  VInv'
<1>1. UNCHANGED <<queue, retry, content, thread, accepted, landed, failed, timedOut>>
  BY Zenon DEF Start, Wake, CloseBegin, Terminate, LoopEnds, StartRound, NothingToTake,
               TakeBatch, memory, lists, life, logfile
<1>2. Watched'
  BY <1>1, Zenon DEF VInv, Control, Watched, Busy, Attached
<1>3. /\ pc \in [Actors -> PCs] /\ "run" \in Actors /\ "close" \in Actors
      /\ Actors = {"run", "close"} /\ Hurried /\ FlushesItself
      /\ CloseIdle
  BY Known, Zenon DEF VInv, Control, HInv, Actors
<1>4. Hurried' /\ FlushesItself'
  <2>1. CASE Start
    <3>1. closed' = closed /\ (pc' = pc \/ (~closed /\ pc' = [pc EXCEPT !["run"] = "sleep"]))
      BY <2>1, Zenon DEF Start
    <3> QED
      BY <1>1, <1>3, <3>1, SMT DEF Hurried, FlushesItself
  <2>2. CASE Wake
    <3>1. /\ closed' = closed /\ pc["run"] = "sleep"
          /\ \E p \in {"round", "lock"} : pc' = [pc EXCEPT !["run"] = p]
      BY <2>2, Zenon DEF Wake, life
    <3> QED
      BY <1>1, <1>3, <3>1, SMT DEF Hurried, FlushesItself
  <2>3. CASE CloseBegin
    <3>1. /\ ~closed /\ closed'
          /\ pc' = [pc EXCEPT !["close"] = IF pc["run"] = "off" THEN "round" ELSE "await"]
      BY <2>3, Zenon DEF CloseBegin
    <3> QED
      BY <1>1, <1>3, <3>1, SMT DEF Hurried, FlushesItself
  <2>4. CASE Terminate
    <3>1. closed' = closed /\ pc' = [pc EXCEPT !["close"] = "done"]
      BY <2>4, Zenon DEF Terminate
    <3> QED
      BY <1>1, <1>3, <3>1, SMT DEF Hurried, FlushesItself
  <2>5. CASE LoopEnds
    <3>1. closed' = closed /\ pc' = pc
      BY <2>5, Zenon DEF LoopEnds, flow
    <3> QED
      BY <1>1, <1>3, <3>1, Zenon DEF Hurried, FlushesItself
  <2>6. ASSUME NEW a \in Actors, StartRound(a)
        PROVE  Hurried' /\ FlushesItself'
    <3>1. /\ closed' = closed /\ pc[a] = "round"
          /\ \E p \in {"done", "lock"} : pc' = [pc EXCEPT ![a] = p]
      BY <2>6, Zenon DEF StartRound, life
    <3> QED
      BY <1>1, <1>3, <3>1, SMT DEF Hurried, FlushesItself
  <2>7. ASSUME NEW a \in Actors, NothingToTake(a), TakeBatch(a)
        PROVE  Hurried' /\ FlushesItself'
    <3>1. closed' = closed /\ pc[a] = "lock" /\ rounds \in [Actors -> 0..(Rounds + 1)]
      BY <2>7, Zenon DEF TakeBatch, life, VInv, HInv, TInv, TypeOK
    <3>2. \E p \in {"round", "sleep"} :
            pc' = [pc EXCEPT ![a] = p] /\ (closed => p = "round")
      BY <2>7, Zenon DEF NothingToTake, AfterRound
    <3> QED
      BY <1>1, <1>3, <3>1, <3>2, SMT DEF Hurried, FlushesItself
  <2> QED
    BY <2>1, <2>2, <2>3, <2>4, <2>5, <2>6, <2>7
<1> QED
  BY <1>1, <1>2, <1>4, CalmKept, Zenon DEF Control

-----------------------------------------------------------------------------
(* Handing a list to a thread.                                             *)

LEMMA TakeKept ==
  ASSUME VInv, HInv', NEW a \in Actors, TakeBatch(a), ~NothingToTake(a)
  PROVE  VInv'
<1>1. /\ LockFree /\ pc[a] = "lock" /\ UNCHANGED <<closed, timedOut, accepted, landed, failed>>
  BY Zenon DEF TakeBatch, life, logfile
<1>2. ~timedOut /\ \A w \in Workers : ~Busy(w)
  <2>1. ~timedOut
    <3>1. a = "run" \/ a = "close"
      BY Known
    <3> QED
      BY <1>1, <3>1, Zenon DEF VInv, Control, Hurried
  <2>2. \A w \in Workers : ~Attached(w)
    BY <1>1, Known, Zenon DEF LockFree
  <2> QED
    BY <2>1, <2>2, Zenon DEF VInv, Control, Watched
<1>3. PICK b \in Batches, again \in BOOLEAN :
        /\ HandToThread(a, b, again)
        /\ \/ retry = b /\ content' = content /\ queue' = queue
           \/ retry = NoBatch /\ content' = [content EXCEPT ![b] = queue]
  <2>1. CASE TakeRetry(a)
    <3>1. retry \in Batches /\ TRUE \in BOOLEAN
      BY <2>1, Known, Zenon DEF TakeRetry
    <3> QED
      BY <2>1, <3>1, Zenon DEF TakeRetry, lists
  <2>2. CASE TakeQueue(a)
    <3>1. FALSE \in BOOLEAN
      OBVIOUS
    <3> QED
      BY <2>2, <3>1, Zenon DEF TakeQueue, FreeBatches, Drain
  <2> QED
    BY <2>1, <2>2, Zenon DEF TakeBatch
<1> DEFINE q == Queued(a, b, again)
<1>4. PICK w \in Workers : thread' = [thread EXCEPT ![w] = q]
  <2> DEFINE w == CHOOSE v \in IdleWorkers : TRUE
  <2>1. w \in IdleWorkers /\ thread' = [thread EXCEPT ![w] = q]
    BY <1>3, Zenon DEF HandToThread
  <2> QED
    BY <2>1, Zenon DEF IdleWorkers
<1>5. \A v \in Workers : thread'[v] = IF v = w THEN q ELSE thread[v]
  BY <1>4, Known, Zenon
<1>6. /\ q.st = "queued" /\ q.owner = a /\ q.batch = b /\ q.placed = 0
      /\ q.owner # Detached /\ "queued" # "idle"
  BY SinkAssumption DEF Queued, Actors, Detached
<1> HIDE DEF q
<1>7. \A v \in Workers : Busy(v)' => v = w
  BY <1>2, <1>5, Zenon DEF Busy
<1>8. Single'
  BY <1>7, Zenon DEF Single
<1>9. Works'
  <2>1. thread'[w].st = "queued" /\ thread'[w].placed = 0
    BY <1>5, <1>6, Zenon
  <2>2. Progress(w)'
    BY <2>1, SMT DEF Progress
  <2> QED
    BY <1>7, <2>2, Zenon DEF Works
<1>10. Control'
  <2>1. Watched'
    BY <1>5, <1>6, <1>7, Zenon DEF Watched, Attached
  <2>2. pc' = [pc EXCEPT ![a] = "write"] /\ pc \in [Actors -> PCs] /\ Actors = {"run", "close"}
    BY <1>3, Known, Zenon DEF HandToThread
  <2>3. Hurried' /\ FlushesItself'
    BY <1>1, <1>2, <2>2, SMT DEF VInv, Control, Hurried, FlushesItself
  <2> QED
    BY <2>1, <2>3, Zenon DEF Control
<1>11. NothingVanishes'
  <2>1. Attached(w)' /\ thread'[w].batch = b
    BY <1>5, <1>6, Zenon DEF Attached
  <2>2. \A v \in Workers : ~Attached(v)
    BY <1>2, Known, Zenon
  <2>3. ASSUME NEW l \in Lines, Holds(l)
        PROVE  Holds(l)'
    <3>1. CASE retry = b /\ content' = content /\ queue' = queue
      BY <2>1, <2>2, <2>3, <3>1, Zenon DEF Holds, InList
    <3>2. CASE retry = NoBatch /\ content' = [content EXCEPT ![b] = queue]
      <4>1. content'[b] = queue
        BY <3>2, Known, Zenon
      <4> QED
        BY <2>1, <2>2, <2>3, <3>2, <4>1, Zenon DEF Holds, InList
    <3> QED
      BY <1>3, <3>1, <3>2, Zenon
  <2> QED
    BY <1>1, <2>3, Accounted, Zenon
<1> QED
  BY <1>8, <1>9, <1>10, <1>11, Zenon DEF VInv

-----------------------------------------------------------------------------
(* A coroutine lets go of its thread: its result arrives, or close() gives  *)
(* up on it.                                                               *)

\* What _keep_or_lose makes of the lines left in the list.
LEMMA KeptOrLost ==
  ASSUME VInv, NEW b \in Batches, NEW again \in BOOLEAN, KeepOrLose(b, again),
         NEW l, InList(l, b), content' = content
  PROVE  l \in failed' \/ retry' = b
<1>1. CASE content[b] = <<>>
  BY <1>1 DEF InList, Members
<1>2. CASE content[b] # <<>>
  BY <1>2, Zenon DEF KeepOrLose, InList
<1> QED
  BY <1>1, <1>2

\* The record u that is left of thread w has no coroutine; somebody else's
\* control state is settled by the caller.
LEMMA ReleaseKept ==
  ASSUME VInv, HInv', Control', NEW w \in Workers, Attached(w),
         NEW u, u.owner = Detached, thread' = [thread EXCEPT ![w] = u],
         u.st # "idle" => /\ u.batch = thread[w].batch /\ u.st = thread[w].st
                          /\ u.placed = thread[w].placed /\ u.total = thread[w].total
                          /\ u.segment = thread[w].segment,
         UNCHANGED <<queue, content, accepted, landed>>,
         \/ thread[w].st = "ok" /\ retry' = retry /\ failed' = failed
         \/ KeepOrLose(thread[w].batch, thread[w].again)
  PROVE  VInv'
<1>1. /\ Busy(w) /\ retry = NoBatch /\ thread[w].batch \in Batches
      /\ thread[w] \in ThreadRecord /\ thread[w].again \in BOOLEAN
  BY Known DEF ThreadRecord
<1> PICK b \in Batches : b = thread[w].batch
  BY <1>1
<1>2. \A v \in Workers : thread'[v] = IF v = w THEN u ELSE thread[v]
  BY Known, Zenon
<1>3. \A v \in Workers : Busy(v) => v = w
  BY <1>1, Zenon DEF VInv, Single
<1>4. \A v \in Workers : Busy(v)' => v = w
  BY <1>2, <1>3, Zenon DEF Busy
<1>5. Single'
  BY <1>4, Zenon DEF Single
<1>6. Works'
  <2>1. thread'[w] = u /\ Progress(w)
    BY <1>1, <1>2, Zenon DEF VInv, Works
  <2>2. ASSUME u.st # "idle"
        PROVE  Progress(w)'
    <3>1. Placing(w)' = Placing(w)
      BY <2>1, <2>2, Zenon DEF Placing
    <3> QED
      BY <2>1, <2>2, <3>1, Zenon DEF Progress, Behind, InFront
  <2> QED
    BY <1>4, <2>1, <2>2, Zenon DEF Works, Busy
<1>7. NothingVanishes'
  <2>1. failed \subseteq failed'
    BY Zenon DEF KeepOrLose
  <2>2. ASSUME NEW l \in Lines, Holds(l)
        PROVE  Holds(l)' \/ l \in failed'
    <3>1. CASE l \in Members(queue)
      BY <3>1, Zenon DEF Holds
    <3>2. CASE InList(l, b)
      <4>1. CASE thread[w].st = "ok"
        <5>1. "ok" # "idle" /\ content[b] = <<>>
          BY <1>1, <4>1, Zenon DEF VInv, Works, Progress, Placing
        <5> QED
          BY <3>2, <5>1 DEF InList, Members
      <4>2. CASE KeepOrLose(thread[w].batch, thread[w].again)
        <5>1. l \in failed' \/ retry' = b
          BY <1>1, <3>2, <4>2, KeptOrLost, Zenon
        <5>2. b # NoBatch
          BY SinkAssumption DEF NoBatch
        <5> QED
          BY <3>2, <5>1, <5>2, Zenon DEF Holds, InList
      <4> QED
        BY <4>1, <4>2
    <3>3. l \in Members(queue) \/ InList(l, b)
      BY <1>1, <1>3, <2>2, Known, Zenon DEF Holds
    <3> QED
      BY <3>1, <3>2, <3>3
  <2> QED
    BY <2>1, <2>2, Accounted, Zenon
<1> QED
  BY <1>5, <1>6, <1>7, Zenon DEF VInv

LEMMA ResumeKept ==
  ASSUME VInv, HInv', NEW a \in Actors, ResumeWrite(a)
  PROVE  VInv'
<1>1. PICK w \in Workers :
        /\ thread[w].owner = a
        /\ \/ thread[w].st = "ok" /\ retry' = retry /\ failed' = failed
           \/ KeepOrLose(thread[w].batch, thread[w].again)
        /\ thread' = [thread EXCEPT ![w] = IdleThread]
  BY Zenon DEF ResumeWrite
<1>2. Attached(w)
  BY <1>1, SinkAssumption DEF Attached, Actors, Detached
<1>3. /\ UNCHANGED <<queue, content, accepted, landed, closed, timedOut>> /\ pc[a] = "write"
  BY Zenon DEF ResumeWrite, lists, life, logfile
<1>4. Control'
  <2>1. /\ pc \in [Actors -> PCs] /\ Actors = {"run", "close"}
        /\ Hurried /\ FlushesItself /\ Single
    BY Known, Zenon DEF VInv, Control
  <2>2. \E p \in {"round", "sleep"} : pc' = [pc EXCEPT ![a] = p] /\ (closed => p = "round")
    BY Zenon DEF ResumeWrite, AfterRound
  <2>3. Hurried' /\ FlushesItself'
    <3>1. closed' = closed /\ timedOut' = timedOut /\ pc[a] = "write"
      BY <1>3
    <3>2. CASE a = "run"
      BY <2>1, <2>2, <3>1, <3>2, SMT DEF Hurried, FlushesItself
    <3>3. CASE a = "close"
      BY <2>1, <2>2, <3>1, <3>3, SMT DEF Hurried, FlushesItself
    <3> QED
      BY <2>1, <3>2, <3>3
  <2>4. \A v \in Workers : thread'[v] = IF v = w THEN IdleThread ELSE thread[v]
    BY <1>1, Known, Zenon
  <2>5. \A v \in Workers : ~Busy(v)'
    <3>1. Busy(w)
      BY <1>2, Known, Zenon
    <3>2. IdleThread.st = "idle"
      BY IdleThreadType
    <3>3. \A v \in Workers : v # w => ~Busy(v)
      BY <2>1, <3>1, Zenon DEF Single
    <3> QED
      BY <2>4, <3>2, <3>3, Zenon DEF Busy
  <2> QED
    BY <2>3, <2>5, Zenon DEF Control, Watched
<1> QED
  BY <1>1, <1>2, <1>3, <1>4, IdleThreadType, ReleaseKept, Zenon

LEMMA TimeOutKept ==
  ASSUME VInv, HInv', CloseTimesOut
  PROVE  VInv'
<1>1. PICK d \in Actors : /\ d = IF pc["close"] = "await" THEN "run" ELSE "close"
                          /\ Unwind(d)
                          /\ pc' = [pc EXCEPT ![d] = "done", !["close"] = "cancelled"]
  <2>1. "run" \in Actors /\ "close" \in Actors
    BY DEF Actors
  <2> QED
    BY <2>1, Zenon DEF CloseTimesOut
<1>2. /\ UNCHANGED <<queue, content, accepted, landed, closed>> /\ timedOut'
      /\ pc["close"] \in {"await", "lock", "write"}
  BY Zenon DEF CloseTimesOut, lists, logfile
<1>3. Control'
  <2>1. /\ pc \in [Actors -> PCs] /\ Actors = {"run", "close"} /\ FlushesItself /\ CloseIdle
    BY Known, Zenon DEF VInv, Control, HInv
  <2>2. Hurried' /\ FlushesItself'
    BY <1>1, <1>2, <2>1, SMT DEF Hurried, FlushesItself, CloseIdle
  <2> QED
    BY <1>2, <2>2, Zenon DEF Control, Watched
<1>4. CASE pc[d] # "write"
  BY <1>1, <1>2, <1>3, <1>4, CalmKept, Zenon DEF Unwind
<1>5. CASE pc[d] = "write"
  <2>1. PICK w \in Workers :
          /\ thread[w].owner = d
          /\ KeepOrLose(thread[w].batch, thread[w].again)
          /\ thread' = [thread EXCEPT ![w] =
                          IF @.st \in {"running", "writing"}
                          THEN [@ EXCEPT !.owner = Detached] ELSE IdleThread]
    BY <1>1, <1>5, Zenon DEF Unwind
  <2> DEFINE v == [thread[w] EXCEPT !.owner = Detached]
             u == IF thread[w].st \in {"running", "writing"} THEN v ELSE IdleThread
  <2>2. Attached(w)
    BY <2>1, SinkAssumption DEF Attached, Actors, Detached
  <2>3. thread' = [thread EXCEPT ![w] = u]
    BY <2>1, Known, Zenon
  <2>4. /\ v.owner = Detached /\ v.batch = thread[w].batch /\ v.st = thread[w].st
        /\ v.placed = thread[w].placed /\ v.total = thread[w].total
        /\ v.segment = thread[w].segment
    <3>1. thread[w] \in ThreadRecord
      BY Known
    <3> QED
      BY <3>1 DEF ThreadRecord
  <2> HIDE DEF v
  <2>5. /\ u.owner = Detached
        /\ u.st # "idle" => /\ u.batch = thread[w].batch /\ u.st = thread[w].st
                            /\ u.placed = thread[w].placed /\ u.total = thread[w].total
                            /\ u.segment = thread[w].segment
    BY <2>4, IdleThreadType, Zenon
  <2> HIDE DEF u
  <2> QED
    BY <1>2, <1>3, <2>1, <2>2, <2>3, <2>5, ReleaseKept, Zenon
<1> QED
  BY <1>4, <1>5

-----------------------------------------------------------------------------
(* The thread.                                                             *)

\* The one thread at work, w, goes on with its list.
LEMMA WorkKept ==
  ASSUME VInv, HInv', NEW w \in Workers, Busy(w),
         NEW u, thread' = [thread EXCEPT ![w] = u],
         u.owner = thread[w].owner, u.batch = thread[w].batch, u.st # "idle", Progress(w)',
         Members(landed) \subseteq Members(landed'),
         UNCHANGED <<queue, retry, content, accepted, failed, pc, closed, timedOut>>
  PROVE  VInv'
<1>1. \A v \in Workers : thread'[v] = IF v = w THEN u ELSE thread[v]
  BY Known, Zenon
<1>2. \A v \in Workers : Busy(v)' => v = w
  BY <1>1, Zenon DEF VInv, Single, Busy
<1>3. Single' /\ Works'
  BY <1>2, Zenon DEF Single, Works
<1>4. Control'
  BY <1>1, Zenon DEF VInv, Control, Watched, Hurried, FlushesItself, Busy, Attached
<1>5. NothingVanishes'
  <2>1. \A l \in Lines : Holds(l) => Holds(l)'
    BY <1>1, Zenon DEF Holds, InList, Attached
  <2> QED
    BY <2>1, Accounted, Zenon
<1> QED
  BY <1>3, <1>4, <1>5, Zenon DEF VInv

\* The thread w deletes the lines it has placed, all of which have landed, and
\* ends; it ends well only with an empty list.
LEMMA LeaveKept ==
  ASSUME VInv, HInv', NEW w \in Workers, Busy(w), NEW placed \in Nat,
         NEW result \in {"ok", "failed"}, Leave(w, placed, result),
         \A i \in 1..placed : i <= Len(Placing(w)) => Placing(w)[i] \in Members(landed'),
         result = "ok" => placed = Len(Placing(w)),
         Members(landed) \subseteq Members(landed'),
         UNCHANGED <<queue, retry, accepted, failed, pc, closed, timedOut>>
  PROVE  VInv'
<1> DEFINE b == thread[w].batch
           s == Placing(w)
           v == [thread[w] EXCEPT !.st = result, !.placed = placed, !.segment = <<>>]
           u == IF thread[w].owner = Detached THEN IdleThread ELSE v
           r == SubSeq(s, placed + 1, Len(s))
<1>1. b \in Batches /\ s \in Seq(Lines) /\ s = content[b] /\ thread[w] \in ThreadRecord
  BY Known DEF Placing
<1>2. thread' = [thread EXCEPT ![w] = u] /\ content' = [content EXCEPT ![b] = r]
  BY Known, <1>1, Zenon DEF Leave, Placing
<1>3. v.owner = thread[w].owner /\ v.batch = b /\ v.st = result
  BY <1>1 DEF ThreadRecord
<1> HIDE DEF v
<1>4. \/ thread[w].owner = Detached /\ u.owner = Detached /\ u.st = "idle"
      \/ thread[w].owner # Detached /\ u.owner = thread[w].owner /\ u.batch = b /\ u.st = result
  BY <1>3, IdleThreadType, Zenon
<1> HIDE DEF u
<1>5. \A x \in Workers : thread'[x] = IF x = w THEN u ELSE thread[x]
  BY <1>2, Known, Zenon
<1>6. \A c \in Batches : content'[c] = IF c = b THEN r ELSE content[c]
  BY <1>1, <1>2, Known, Zenon
<1>7. \A x \in Workers : Busy(x)' => x = w
  BY <1>5, Zenon DEF VInv, Single, Busy
<1>8. Single'
  BY <1>7, Zenon DEF Single
<1>9. Works'
  <2>1. Busy(w)' => thread'[w].st = result /\ thread'[w].batch = b
    BY <1>4, <1>5, Zenon DEF Busy
  <2>2. result = "ok" => r = <<>>
    <3> HIDE DEF s
    <3> QED
      BY <1>1, SMT DEF s
  <2>3. Busy(w)' /\ result = "ok" => Placing(w)' = <<>>
    BY <1>1, <1>6, <2>1, <2>2, Zenon DEF Placing
  <2>4. Busy(w)' => Progress(w)'
    <3>1. "ok" \notin {"queued", "running", "writing"} /\ "failed" \notin {"queued", "running", "writing", "ok"}
      OBVIOUS
    <3> QED
      BY <2>1, <2>3, <3>1 DEF Progress
  <2> QED
    BY <1>7, <2>4, Zenon DEF Works
<1>10. Control'
  BY <1>4, <1>5, <1>7, Zenon DEF VInv, Control, Watched, Hurried, FlushesItself, Busy, Attached
<1>11. NothingVanishes'
  <2>1. ASSUME NEW l \in Lines, NEW c \in Batches, InList(l, c), l \notin Members(landed')
        PROVE  InList(l, c)'
    <3>1. CASE c # b
      BY <1>6, <2>1, <3>1, Zenon DEF InList
    <3>2. CASE c = b
      <4>1. l \in Members(s)
        BY <1>1, <2>1, <3>2, Zenon DEF InList
      <4>2. \A i \in 1..placed : i <= Len(s) => s[i] # l
        BY <2>1, Zenon
      <4>3. l \in Members(r)
        <5> HIDE DEF s
        <5> QED
          BY <1>1, <4>1, <4>2, RestMembers
      <4> QED
        BY <1>6, <3>2, <4>3, Zenon DEF InList
    <3> QED
      BY <3>1, <3>2
  <2>2. ASSUME NEW l \in Lines, Holds(l), l \notin Members(landed')
        PROVE  Holds(l)'
    <3>1. CASE l \in Members(queue)
      BY <3>1, Zenon DEF Holds
    <3>2. CASE retry # NoBatch /\ InList(l, retry)
      <4>1. retry \in Batches
        BY <3>2, Known, Zenon
      <4>2. InList(l, retry)'
        BY <2>1, <2>2, <3>2, <4>1, Zenon DEF InList
      <4> QED
        BY <3>2, <4>2, Zenon DEF Holds
    <3>3. CASE \E x \in Workers : Attached(x) /\ InList(l, thread[x].batch)
      <4>1. Attached(w) /\ InList(l, b)
        BY <3>3, Known, Zenon DEF VInv, Single
      <4>2. InList(l, b)' /\ thread'[w].batch = b /\ Attached(w)'
        BY <1>1, <1>4, <1>5, <2>1, <2>2, <4>1, Zenon DEF Attached, InList
      <4> QED
        BY <4>2, Zenon DEF Holds, InList
    <3> QED
      BY <2>2, <3>1, <3>2, <3>3, Zenon DEF Holds
  <2> QED
    BY <2>2, Accounted, Zenon
<1> QED
  BY <1>8, <1>9, <1>10, <1>11, Zenon DEF VInv

LEMMA StartsKept ==
  ASSUME VInv, HInv', NEW w \in Workers, ThreadStarts(w)
  PROVE  VInv'
<1> DEFINE n == Len(Placing(w))
           u == [thread[w] EXCEPT !.st = "running", !.total = n]
<1>1. /\ thread[w].st = "queued" /\ thread' = [thread EXCEPT ![w] = u]
      /\ UNCHANGED <<queue, retry, content, accepted, landed, failed, pc, closed, timedOut>>
  BY Zenon DEF ThreadStarts, Step, Placing, memory, flow, life, logfile
<1>2. Busy(w)
  BY <1>1 DEF Busy
<1>3. thread[w] \in ThreadRecord /\ thread[w].batch \in Batches /\ Placing(w) \in Seq(Lines)
  BY <1>2, Known DEF Placing
<1>4. /\ u.owner = thread[w].owner /\ u.batch = thread[w].batch /\ u.st = "running"
      /\ u.total = n /\ u.placed = thread[w].placed /\ n \in Nat
  <2>1. n \in Nat
    BY <1>3
  <2> HIDE DEF n
  <2> QED
    BY <1>3, <2>1 DEF ThreadRecord
<1> HIDE DEF u
<1>5. thread'[w] = u /\ Placing(w)' = Placing(w)
  BY <1>1, <1>4, Known, Zenon DEF Placing
<1>6. thread[w].placed = 0
  BY <1>1, <1>2, Zenon DEF VInv, Works, Progress
<1>7. Progress(w)'
  <2>1. thread'[w].placed = 0 /\ thread'[w].total = n /\ Len(Placing(w)') = n
        /\ thread'[w].st = "running" /\ n \in Nat
    BY <1>4, <1>5, <1>6, Zenon
  <2> HIDE DEF n
  <2>2. Behind(w)'
    BY <2>1, SMT DEF Behind
  <2> QED
    BY <2>1, <2>2, SMT DEF Progress
<1>8. u.st # "idle" /\ Members(landed) \subseteq Members(landed')
  BY <1>1, <1>4
<1> QED
  BY <1>1, <1>2, <1>4, <1>7, <1>8, WorkKept, Zenon

LEMMA BorrowKept ==
  ASSUME VInv, HInv', NEW w \in Workers, BorrowForSegment(w)
  PROVE  VInv'
<1> DEFINE t == thread[w]
           s == Placing(w)
           seg(n) == SubSeq(s, t.placed + 1, t.placed + n)
<1>1. PICK n \in 1..(t.total - t.placed) :
        /\ t.placed + n <= Len(s)
        /\ thread' = [thread EXCEPT ![w] = [t EXCEPT !.st = "writing", !.segment = seg(n)]]
  BY Zenon DEF BorrowForSegment, Step, Placing
<1>2. /\ t.st = "running"
      /\ UNCHANGED <<queue, retry, content, accepted, landed, failed, pc, closed, timedOut>>
  BY Zenon DEF BorrowForSegment, Step, memory, lists, flow, life
<1>3. Busy(w)
  BY <1>2 DEF Busy
<1>4. t \in ThreadRecord /\ t.batch \in Batches /\ s \in Seq(Lines) /\ Behind(w)
  BY <1>2, <1>3, Known DEF Placing, VInv, Works, Progress
<1>5. t.placed \in Nat /\ t.total \in Nat
  BY <1>4 DEF ThreadRecord
<1> DEFINE g == seg(n)
           u == [t EXCEPT !.st = "writing", !.segment = g]
<1>6. /\ Len(g) = n /\ \A i \in 1..Len(g) : g[i] = s[t.placed + i]
      /\ t.placed + n <= t.total
  <2> DEFINE p == t.placed
             m == t.total
  <2>1. p \in Nat /\ m \in Nat /\ n \in 1..(m - p) /\ p + n <= Len(s) /\ s \in Seq(Lines)
    BY <1>1, <1>4, <1>5
  <2>2. g = SubSeq(s, p + 1, p + n)
    OBVIOUS
  <2> HIDE DEF p, m, s, g
  <2>3. p + n <= m /\ p + 1 \in Nat /\ p + n \in Nat /\ (p + n) - (p + 1) + 1 = n /\ n \in Nat
    BY <2>1, SMT
  <2>4. Len(g) = n
    BY <2>1, <2>2, <2>3, SMT
  <2>5. \A i \in 1..n : g[i] = s[p + i]
    BY <2>1, <2>2, <2>3, SMT
  <2> QED
    BY <2>3, <2>4, <2>5, Zenon DEF p, m
<1> HIDE DEF seg, g
<1>7. /\ u.owner = t.owner /\ u.batch = t.batch /\ u.st = "writing" /\ u.segment = g
      /\ u.total = t.total /\ u.placed = t.placed
  BY <1>4 DEF ThreadRecord
<1>8. thread' = [thread EXCEPT ![w] = u]
  BY <1>1, Zenon DEF g
<1> HIDE DEF u
<1>9. thread'[w] = u /\ Placing(w)' = Placing(w)
  BY <1>2, <1>7, <1>8, Known, Zenon DEF Placing
<1>10. Progress(w)'
  <2>1. Behind(w)'
    BY <1>2, <1>4, <1>7, <1>9, Zenon DEF Behind
  <2>2. InFront(w)'
    BY <1>6, <1>7, <1>9, Zenon DEF InFront
  <2>3. thread'[w].st = "writing"
    BY <1>7, <1>9, Zenon
  <2> QED
    BY <2>1, <2>2, <2>3, SMT DEF Progress
<1>11. u.st # "idle" /\ Members(landed) \subseteq Members(landed')
  BY <1>2, <1>7
<1> QED
  BY <1>2, <1>3, <1>7, <1>8, <1>10, <1>11, WorkKept, Zenon

\* The first k lines of the segment are in the file afterwards.
LEMMA LinesLand ==
  ASSUME VInv, NEW w \in Workers, thread[w].segment \in Seq(Lines),
         NEW k \in Nat, k <= Len(thread[w].segment), NEW piece, LandLines(w, k, piece)
  PROVE  /\ Members(landed) \subseteq Members(landed')
         /\ \A i \in 1..k : thread[w].segment[i] \in Members(landed')
<1> DEFINE g == thread[w].segment
           r == SubSeq(g, 1, k)
<1>1. landed' = landed \o r /\ landed \in Seq(Lines) /\ g \in Seq(Lines)
  BY Known DEF LandLines
<1> HIDE DEF g
<1>2. r \in Seq(Lines) /\ DOMAIN r = 1..k /\ \A i \in 1..k : r[i] = g[i]
  BY <1>1, SMT DEF g
<1>3. Members(landed) \subseteq Members(landed') /\ Members(r) \subseteq Members(landed')
  <2> HIDE DEF r
  <2> QED
    BY <1>1, <1>2, JoinedMembers
<1>4. \A i \in 1..k : g[i] \in Members(r)
  BY <1>2, Zenon DEF Members
<1> QED
  BY <1>3, <1>4, Zenon DEF g

\* With k lines of its segment in the file, a thread has placed that many more.
LEMMA PlacedHasLanded ==
  ASSUME VInv, NEW w \in Workers, thread[w].placed \in Nat,
         Behind(w), InFront(w), NEW k \in Nat, k <= Len(thread[w].segment),
         thread[w].segment \in Seq(Lines),
         Members(landed) \subseteq Members(landed'),
         \A i \in 1..k : thread[w].segment[i] \in Members(landed')
  PROVE  \A i \in 1..(thread[w].placed + k) : Placing(w)[i] \in Members(landed')
<1> DEFINE p == thread[w].placed
           g == thread[w].segment
           s == Placing(w)
<1>1. \A i \in 1..p : s[i] \in Members(landed')
  BY Zenon DEF Behind
<1>2. \A j \in 1..Len(g) : g[j] = s[p + j]
  BY Zenon DEF InFront
<1> TAKE i \in 1..(p + k)
<1>3. CASE i \in 1..p
  BY <1>1, <1>3
<1>4. CASE i \notin 1..p
  <2>1. p \in Nat /\ Len(g) \in Nat /\ k <= Len(g)
    BY SMT
  <2> HIDE DEF p, g, s
  <2>2. i - p \in 1..k /\ i - p \in 1..Len(g) /\ p + (i - p) = i
    BY <1>4, <2>1, SMT
  <2>3. g[i - p] = s[i] /\ g[i - p] \in Members(landed')
    BY <1>2, <2>2, Zenon DEF g
  <2> QED
    BY <2>3, Zenon DEF s
<1> QED
  BY <1>3, <1>4

LEMMA LandsKept ==
  ASSUME VInv, HInv', NEW w \in Workers, SegmentLands(w)
  PROVE  VInv'
<1> DEFINE t == thread[w]
           s == Placing(w)
           g == t.segment
           p == t.placed + Len(g)
           u == [t EXCEPT !.st = "running", !.segment = <<>>, !.placed = p]
<1>1. /\ t.st = "writing" /\ LandLines(w, Len(g), FALSE)
      /\ UNCHANGED <<queue, retry, content, accepted, failed, pc, closed, timedOut>>
  BY Zenon DEF SegmentLands, Step, memory, lists, flow, life
<1>2. Busy(w)
  BY <1>1 DEF Busy
<1>3. /\ t \in ThreadRecord /\ t.batch \in Batches /\ s \in Seq(Lines)
      /\ Behind(w) /\ InFront(w)
  BY <1>1, <1>2, Known DEF Placing, VInv, Works, Progress
<1>4. /\ t.placed \in Nat /\ t.total \in Nat /\ g \in Seq(Lines) /\ landed \in Seq(Lines)
      /\ Len(g) \in Nat /\ p \in Nat
  <2>1. t.placed \in Nat /\ t.total \in Nat /\ g \in Seq(Lines) /\ landed \in Seq(Lines)
    BY <1>3, Known DEF ThreadRecord
  <2> QED
    BY <2>1, SMT
<1>5. thread' = [thread EXCEPT ![w] = u]
  BY Zenon DEF SegmentLands, Step
<1>6. /\ u.owner = t.owner /\ u.batch = t.batch /\ u.st = "running"
      /\ u.total = t.total /\ u.placed = p
  <2> HIDE DEF p
  <2> QED
    BY <1>3 DEF ThreadRecord
<1> HIDE DEF u
<1>7. thread'[w] = u /\ Placing(w)' = Placing(w)
  BY <1>1, <1>5, <1>6, Known, Zenon DEF Placing
<1>8. /\ Members(landed) \subseteq Members(landed')
      /\ \A i \in 1..Len(g) : g[i] \in Members(landed')
  <2>1. Len(g) <= Len(g)
    BY <1>4
  <2> QED
    BY <1>1, <1>4, <2>1, LinesLand, Zenon
<1>9. \A i \in 1..p : s[i] \in Members(landed')
  <2>1. Len(g) <= Len(g)
    BY <1>4
  <2> QED
    BY <1>3, <1>4, <1>8, <2>1, PlacedHasLanded, Zenon
<1>10. Progress(w)'
  <2>1. p <= t.total /\ t.total = Len(s)
    BY <1>3 DEF Behind, InFront
  <2>2. Behind(w)'
    <3> HIDE DEF p
    <3> QED
      BY <1>6, <1>7, <1>9, <2>1, Zenon DEF Behind
  <2>3. thread'[w].st = "running"
    BY <1>6, <1>7, Zenon
  <2> QED
    BY <2>2, <2>3, SMT DEF Progress
<1>11. u.st # "idle"
  BY <1>6
<1> QED
  BY <1>1, <1>2, <1>5, <1>6, <1>8, <1>10, <1>11, WorkKept, Zenon

LEMMA FailsKept ==
  ASSUME VInv, HInv', NEW w \in Workers, SegmentFails(w)
  PROVE  VInv'
<1> DEFINE t == thread[w]
           s == Placing(w)
           g == t.segment
<1>1. PICK k \in 0..Len(g), piece \in BOOLEAN :
         LandLines(w, k, piece) /\ Leave(w, Placed(t, k), "failed")
  BY Zenon DEF SegmentFails
<1>2. /\ t.st = "writing"
      /\ UNCHANGED <<queue, retry, accepted, failed, pc, closed, timedOut>>
  BY Zenon DEF SegmentFails, memory, flow, life
<1>3. Busy(w)
  BY <1>2 DEF Busy
<1>4. /\ t \in ThreadRecord /\ s \in Seq(Lines) /\ Behind(w) /\ InFront(w)
  BY <1>2, <1>3, Known DEF Placing, VInv, Works, Progress
<1>5. t.placed \in Nat /\ g \in Seq(Lines) /\ k \in Nat /\ k <= Len(g) /\ t.placed + k \in Nat
  <2>1. t.placed \in Nat /\ g \in Seq(Lines)
    BY <1>4 DEF ThreadRecord
  <2> QED
    BY <1>1, <2>1, SMT
<1>6. /\ Members(landed) \subseteq Members(landed')
      /\ \A i \in 1..k : g[i] \in Members(landed')
  BY <1>1, <1>4, <1>5, LinesLand, Zenon
<1>7. \A i \in 1..(t.placed + k) : s[i] \in Members(landed')
  BY <1>4, <1>5, <1>6, PlacedHasLanded, Zenon
<1>8. Placed(t, k) = t.placed + k
  BY DEF Placed
<1>9. "failed" \in {"ok", "failed"} /\ "failed" # "ok"
  OBVIOUS
<1> QED
  BY <1>1, <1>2, <1>3, <1>5, <1>6, <1>7, <1>8, <1>9, LeaveKept, Zenon

LEMMA EndsKept ==
  ASSUME VInv, HInv', NEW w \in Workers, BatchDone(w) \/ BatchFails(w)
  PROVE  VInv'
<1> DEFINE t == thread[w]
<1>1. /\ t.st = "running"
      /\ \/ Leave(w, t.placed, "failed")
         \/ Leave(w, t.placed, "ok") /\ t.placed = t.total
      /\ UNCHANGED <<queue, retry, accepted, failed, pc, closed, timedOut, landed>>
  BY Zenon DEF BatchDone, BatchFails, memory, flow, life, logfile
<1>2. Busy(w)
  BY <1>1 DEF Busy
<1>3. Behind(w) /\ t \in ThreadRecord
  BY <1>1, <1>2, Known DEF VInv, Works, Progress
<1>4. /\ t.placed \in Nat /\ t.total = Len(Placing(w))
      /\ \A i \in 1..t.placed : Placing(w)[i] \in Members(landed')
  BY <1>1, <1>3 DEF ThreadRecord, Behind
<1>5. "failed" \in {"ok", "failed"} /\ "ok" \in {"ok", "failed"} /\ "failed" # "ok"
      /\ Members(landed) \subseteq Members(landed')
  BY <1>1
<1> QED
  BY <1>1, <1>2, <1>4, <1>5, LeaveKept, Zenon

-----------------------------------------------------------------------------

LEMMA LedgerNext == VInv /\ [Next]_vars => VInv'
<1> SUFFICES ASSUME VInv, [Next]_vars
             PROVE  VInv'
  OBVIOUS
<1>1. HInv' /\ Flushers = {}
  BY HeldNext DEF VInv
<1>2. ASSUME NEW l \in Lines, SubmitOnLoop(l) \/ SubmitOffLoop(l)
      PROVE  VInv'
  BY <1>1, <1>2, SubmitKept, Zenon
<1>3. CASE LoopStep
  <2>1. ASSUME NEW a \in Actors, TakeBatch(a)
        PROVE  VInv'
    BY <1>1, <2>1, TakeKept, FlowKept, Zenon
  <2>2. ASSUME NEW a \in Actors, StartRound(a)
        PROVE  VInv'
    BY <1>1, <2>2, FlowKept, Zenon
  <2>3. ASSUME NEW a \in Actors, ResumeWrite(a)
        PROVE  VInv'
    BY <1>1, <2>3, ResumeKept, Zenon
  <2>4. CASE Start \/ Wake \/ Terminate
    BY <1>1, <2>4, FlowKept, Zenon
  <2>5. CASE DeliverHanded
    BY <1>1, <2>5, DeliverKept
  <2> QED
    BY <1>3, <2>1, <2>2, <2>3, <2>4, <2>5, Zenon DEF LoopStep
<1>4. ASSUME NEW w \in Workers, ThreadStep(w)
      PROVE  VInv'
  BY <1>1, <1>4, StartsKept, BorrowKept, LandsKept, FailsKept, EndsKept, Zenon DEF ThreadStep
<1>5. CASE CloseBegin \/ CloseTimesOut \/ LoopEnds
  BY <1>1, <1>5, FlowKept, TimeOutKept, Zenon
<1>6. CASE UNCHANGED vars
  <2>1. /\ UNCHANGED <<queue, retry, content, thread, accepted, landed>>
        /\ UNCHANGED <<thread, pc, closed, timedOut>> /\ failed' = failed
    BY <1>6, Zenon DEF vars, memory, lists, flow, life, logfile
  <2>2. Control'
    BY <2>1, SameControl, Zenon
  <2> QED
    BY <1>1, <2>1, <2>2, CalmKept, Zenon
<1> QED
  BY <1>1, <1>2, <1>3, <1>4, <1>5, <1>6, Zenon DEF Next

\* Nothing the sink took is ever simply gone, for any number of documents,
\* threads and list objects, whatever fails, is torn, retried or cut short by
\* close(), as long as only the background task and close() flush, which is how
\* the middleware uses the sink.
THEOREM NothingIsLostUnseen == Flushers = {} => (Spec => []NothingVanishes)
<1> SUFFICES ASSUME Flushers = {}
             PROVE  Spec => []NothingVanishes
  OBVIOUS
<1>1. Init => VInv
  BY LedgerInit
<1>2. VInv /\ [Next]_vars => VInv'
  BY LedgerNext
<1>3. VInv => NothingVanishes
  BY DEF VInv
<1> QED
  BY <1>1, <1>2, <1>3, PTL DEF Spec

-----------------------------------------------------------------------------
(* Exactly one retry, for any number of documents, flush() callers,        *)
(* threads and list objects, cancelled flushes included.                   *)
(*                                                                         *)
(* The argument: how often a line was tried says where it is.  A queued    *)
(* line was never tried, a parked one once, and one that somebody awaits   *)
(* once or, if it was parked before, twice.  So a step that tries the      *)
(* lines of one place again cannot touch those of another, and what is     *)
(* written off comes from a second attempt.                                *)

\* Lines on their way from another thread are new, and different.
HandedOnce == \A i, j \in DOMAIN handed : i # j => handed[i] # handed[j]
HandedNew == \A l \in Members(handed) : l \notin Members(accepted) /\ l \notin failed

TriedIsTaken == \A l \in Lines : attempts[l] # 0 => l \in Members(accepted)
QueueUntried == \A l \in Members(queue) : attempts[l] = 0 /\ l \in Members(accepted)
ParkedOnce == retry # NoBatch => \A l \in Members(content[retry]) : attempts[l] = 1
Turn(again) == IF again THEN 2 ELSE 1
FlightCounted ==
  \A w \in Workers : Attached(w) =>
    \A l \in Members(content[thread[w].batch]) : attempts[l] = Turn(thread[w].again)

AInv == /\ HInv /\ HandedOnce /\ HandedNew /\ TriedIsTaken /\ QueueUntried
        /\ ParkedOnce /\ FlightCounted /\ LostOnSecondAttempt

LEMMA RetryInit == Init => AInv
<1> SUFFICES ASSUME Init PROVE AInv
  OBVIOUS
<1>1. HInv
  BY HeldInit
<1>2. \A w \in Workers : ~Attached(w)
  BY IdleThreadType DEF Init, Attached
<1>3. /\ Members(handed) = {} /\ Members(queue) = {} /\ DOMAIN handed = {}
      /\ \A l \in Lines : attempts[l] = 0
      /\ Members(accepted) = {} /\ failed = {} /\ retry = NoBatch
  BY DEF Init, Members
<1>4. LostOnSecondAttempt
  BY <1>3 DEF LostOnSecondAttempt
<1> QED
  BY <1>1, <1>2, <1>3, <1>4, Zenon
  DEF AInv, HandedOnce, HandedNew, TriedIsTaken, QueueUntried, ParkedOnce, FlightCounted

LEMMA Facts ==
  ASSUME AInv
  PROVE  /\ queue \in Seq(Lines) /\ accepted \in Seq(Lines) /\ handed \in Seq(Lines)
         /\ content \in [Batches -> Seq(Lines)] /\ thread \in [Workers -> ThreadRecord]
         /\ attempts \in [Lines -> Nat] /\ failed \subseteq Lines
         /\ retry \in Batches \cup {NoBatch}
         /\ \A w \in Workers : Attached(w) => /\ thread[w].batch \in Batches
                                              /\ thread[w].again \in BOOLEAN
                                              /\ thread[w].owner \in Actors
                                              /\ pc[thread[w].owner] = "write"
                                              /\ retry = NoBatch
<1>1. \A w \in Workers : Attached(w) => thread[w].owner \in Actors /\ thread[w].again \in BOOLEAN
  BY DEF AInv, HInv, TInv, TypeOK, ThreadRecord, Attached
<1>2. \A w \in Workers : Attached(w) => thread[w].batch \in Batches
                                        /\ pc[thread[w].owner] = "write" /\ retry = NoBatch
  BY Zenon DEF AInv, HInv, TInv, Owned, ThreadHasList, Attached
<1> QED
  BY <1>1, <1>2, Zenon DEF AInv, HInv, TInv, TypeOK

\* What is left of a list was in it before.
LEMMA PartMembers ==
  ASSUME NEW S, NEW s \in Seq(S), NEW p \in Nat
  PROVE  Members(SubSeq(s, p + 1, Len(s))) \subseteq Members(s)
<1> DEFINE r == SubSeq(s, p + 1, Len(s))
<1>1. \A i \in DOMAIN r : p + i \in DOMAIN s /\ r[i] = s[p + i]
  BY SMT
<1> QED
  BY <1>1, Zenon DEF Members

-----------------------------------------------------------------------------

\* A step that counts nothing, takes nothing and shortens lists at most.
LEMMA CalmCounted ==
  ASSUME AInv, HInv', UNCHANGED <<queue, retry, handed, accepted, failed, attempts>>,
         \A b \in Batches : Members(content'[b]) \subseteq Members(content[b]),
         \A w \in Workers : Attached(w)' =>
           /\ Attached(w) /\ thread'[w].batch = thread[w].batch
           /\ thread'[w].again = thread[w].again
  PROVE  AInv'
<1>1. HandedOnce' /\ HandedNew' /\ TriedIsTaken' /\ QueueUntried' /\ LostOnSecondAttempt'
  BY Zenon DEF AInv, HandedOnce, HandedNew, TriedIsTaken, QueueUntried, LostOnSecondAttempt
<1>2. ParkedOnce'
  BY Facts, Zenon DEF AInv, ParkedOnce
<1>3. FlightCounted'
  BY Facts, Zenon DEF AInv, FlightCounted
<1> QED
  BY <1>1, <1>2, <1>3, Zenon DEF AInv

\* An _enqueue of a line nobody has seen.
LEMMA EnqueueCounted ==
  ASSUME AInv, HInv', NEW l \in Lines, NEW onLoop \in BOOLEAN, Enqueue(l, onLoop),
         l \notin Members(accepted), l \notin failed, l \notin Members(handed'),
         Members(handed') \subseteq Members(handed), HandedOnce',
         UNCHANGED <<retry, content, thread, failed, attempts>>
  PROVE  AInv'
<1>1. \A b \in Batches : Members(content'[b]) \subseteq Members(content[b])
  OBVIOUS
<1>2. ParkedOnce' /\ FlightCounted'
  BY Zenon DEF AInv, ParkedOnce, FlightCounted, Attached
<1>3. CASE queue' = queue /\ accepted' = accepted
  BY <1>2, <1>3, Zenon DEF AInv, HandedNew, TriedIsTaken, QueueUntried, LostOnSecondAttempt
<1>4. CASE queue' = Append(queue, l) /\ accepted' = Append(accepted, l)
  <2>1. /\ Members(queue') = Members(queue) \cup {l}
        /\ Members(accepted') = Members(accepted) \cup {l}
    <3>1. queue \in Seq(Lines) /\ accepted \in Seq(Lines)
      BY Facts
    <3>2. /\ Members(Append(queue, l)) = Members(queue) \cup {l}
          /\ Members(Append(accepted, l)) = Members(accepted) \cup {l}
      BY <3>1, AppendedMembers
    <3> QED
      BY <1>4, <3>2, Zenon
  <2>2. attempts[l] = 0
    BY Zenon DEF AInv, TriedIsTaken
  <2>3. HandedNew' /\ TriedIsTaken' /\ QueueUntried'
    BY <2>1, <2>2, Zenon DEF AInv, HandedNew, TriedIsTaken, QueueUntried
  <2>4. LostOnSecondAttempt'
    BY <2>1, Zenon DEF AInv, LostOnSecondAttempt
  <2> QED
    BY <1>2, <2>3, <2>4, Zenon DEF AInv
<1> QED
  BY <1>3, <1>4, EnqueueEffect, Zenon

\* Another thread hands its line to the loop.
LEMMA HandedCounted ==
  ASSUME AInv, HInv', NEW l \in Lines, Unseen(l), handed' = Append(handed, l),
         UNCHANGED <<queue, accepted, retry, content, thread, failed, attempts>>
  PROVE  AInv'
<1>1. ParkedOnce' /\ FlightCounted' /\ TriedIsTaken' /\ QueueUntried' /\ LostOnSecondAttempt'
  BY Zenon DEF AInv, ParkedOnce, FlightCounted, Attached, TriedIsTaken, QueueUntried,
               LostOnSecondAttempt
<1>2. /\ Append(handed, l) \in Seq(Lines) /\ Len(Append(handed, l)) = Len(handed) + 1
      /\ \A i \in 1..Len(handed) : Append(handed, l)[i] = handed[i]
      /\ Append(handed, l)[Len(handed) + 1] = l
  BY Facts, AppendProperties
<1>3. /\ DOMAIN handed = 1..Len(handed) /\ DOMAIN handed' = 1..(Len(handed) + 1)
      /\ Len(handed) \in Nat
      /\ \A i \in 1..(Len(handed) + 1) : i \in 1..Len(handed) \/ i = Len(handed) + 1
  <2>1. handed \in Seq(Lines)
    BY Facts
  <2> QED
    BY <1>2, <2>1, SMT
<1>4. \A i \in DOMAIN handed : handed[i] # l
  BY Zenon DEF Unseen, Members
<1>5. HandedOnce'
  <2> SUFFICES ASSUME NEW i \in DOMAIN handed', NEW j \in DOMAIN handed', i # j
               PROVE  handed'[i] # handed'[j]
    BY Zenon DEF HandedOnce
  <2>1. ASSUME NEW k \in DOMAIN handed'
        PROVE  \/ k \in DOMAIN handed /\ handed'[k] = handed[k]
               \/ k = Len(handed) + 1 /\ handed'[k] = l
    <3>1. k \in DOMAIN handed \/ k = Len(handed) + 1
      BY <1>3, Zenon
    <3> QED
      BY <1>2, <1>3, <3>1, Zenon
  <2>2. \/ i \in DOMAIN handed /\ handed'[i] = handed[i]
        \/ i = Len(handed) + 1 /\ handed'[i] = l
    BY <2>1
  <2>3. \/ j \in DOMAIN handed /\ handed'[j] = handed[j]
        \/ j = Len(handed) + 1 /\ handed'[j] = l
    BY <2>1
  <2> QED
    BY <1>4, <2>2, <2>3, Zenon DEF AInv, HandedOnce
<1>6. HandedNew'
  <2>1. Members(handed') = Members(handed) \cup {l}
    <3>1. handed \in Seq(Lines)
      BY Facts
    <3>2. Members(Append(handed, l)) = Members(handed) \cup {l}
      BY <3>1, AppendedMembers
    <3> QED
      BY <3>2
  <2> QED
    BY <2>1, Zenon DEF AInv, HandedNew, Unseen
<1> QED
  BY <1>1, <1>5, <1>6, Zenon DEF AInv

\* A line no encoder takes is counted and forgotten.
LEMMA DropCounted ==
  ASSUME AInv, HInv', NEW l \in Lines, Unseen(l), DropUnserialisable(l)
  PROVE  AInv'
<1>1. /\ UNCHANGED <<queue, accepted, retry, content, thread, handed, attempts>>
      /\ failed' = failed \cup {l}
  BY Zenon DEF DropUnserialisable, memory, lists
<1>2. l \notin Members(accepted) /\ l \notin Members(handed)
  BY Zenon DEF Unseen
<1>3. ParkedOnce' /\ FlightCounted' /\ TriedIsTaken' /\ QueueUntried' /\ HandedOnce'
  BY <1>1, Zenon DEF AInv, ParkedOnce, FlightCounted, Attached, TriedIsTaken, QueueUntried,
                     HandedOnce
<1>4. HandedNew'
  BY <1>1, <1>2, Zenon DEF AInv, HandedNew
<1>5. LostOnSecondAttempt'
  BY <1>1, <1>2, Zenon DEF AInv, LostOnSecondAttempt
<1> QED
  BY <1>3, <1>4, <1>5, Zenon DEF AInv

LEMMA SubmitCounted ==
  ASSUME AInv, HInv', NEW l \in Lines, SubmitOnLoop(l) \/ SubmitOffLoop(l)
  PROVE  AInv'
<1> TRUE \in BOOLEAN /\ FALSE \in BOOLEAN
  OBVIOUS
<1>1. Unseen(l)
  BY Zenon DEF SubmitOnLoop, SubmitOffLoop
<1>2. CASE DropUnserialisable(l)
  BY <1>1, <1>2, DropCounted, Zenon
<1>3. CASE ~DropUnserialisable(l)
  <2>1. UNCHANGED <<retry, content, thread, failed, attempts>>
    BY <1>3, Zenon DEF SubmitOnLoop, SubmitOffLoop, lists
  <2>2. \/ handed' = handed /\ (Enqueue(l, TRUE) \/ Enqueue(l, FALSE))
        \/ handed' = Append(handed, l) /\ UNCHANGED <<queue, accepted>>
    BY <1>3, Zenon DEF SubmitOnLoop, SubmitOffLoop
  <2>3. CASE handed' = handed /\ (Enqueue(l, TRUE) \/ Enqueue(l, FALSE))
    <3>1. /\ l \notin Members(accepted) /\ l \notin failed /\ l \notin Members(handed')
          /\ Members(handed') \subseteq Members(handed) /\ HandedOnce'
      BY <1>1, <2>3, Zenon DEF Unseen, AInv, HandedOnce
    <3> QED
      BY <2>1, <2>3, <3>1, EnqueueCounted, Zenon
  <2>4. CASE handed' = Append(handed, l) /\ UNCHANGED <<queue, accepted>>
    BY <1>1, <2>1, <2>4, HandedCounted, Zenon
  <2> QED
    BY <2>2, <2>3, <2>4
<1> QED
  BY <1>2, <1>3

LEMMA DeliverCounted ==
  ASSUME AInv, HInv', DeliverHanded
  PROVE  AInv'
<1> DEFINE l == Head(handed)
<1>1. /\ handed # <<>> /\ handed' = Tail(handed) /\ Enqueue(l, TRUE) /\ TRUE \in BOOLEAN
      /\ UNCHANGED <<retry, content, thread, failed, attempts>>
  BY Zenon DEF DeliverHanded, lists
<1>2. /\ l \in Lines /\ l = handed[1] /\ 1 \in DOMAIN handed
      /\ DOMAIN handed' = 1..(Len(handed) - 1)
      /\ \A i \in 1..(Len(handed) - 1) : handed'[i] = handed[i + 1] /\ i + 1 \in DOMAIN handed
                                         /\ i + 1 # 1
      /\ \A i, j \in 1..(Len(handed) - 1) : i # j => i + 1 # j + 1
  <2>1. handed \in Seq(Lines)
    BY Facts
  <2> HIDE DEF l
  <2> QED
    BY <1>1, <2>1, SMT DEF l
<1>3. HandedOnce'
  <2> SUFFICES ASSUME NEW i \in DOMAIN handed', NEW j \in DOMAIN handed', i # j
               PROVE  handed'[i] # handed'[j]
    BY Zenon DEF HandedOnce
  <2>1. i + 1 # j + 1 /\ i + 1 \in DOMAIN handed /\ j + 1 \in DOMAIN handed
    BY <1>2
  <2>2. handed'[i] = handed[i + 1] /\ handed'[j] = handed[j + 1]
    BY <1>2
  <2> QED
    BY <2>1, <2>2, Zenon DEF AInv, HandedOnce
<1>4. Members(handed') \subseteq Members(handed)
  <2>1. \A i \in DOMAIN handed' : i + 1 \in DOMAIN handed /\ handed'[i] = handed[i + 1]
    BY <1>2
  <2> QED
    BY <2>1, Zenon DEF Members
<1>5. l \notin Members(handed')
  <2>1. ASSUME NEW i \in DOMAIN handed'
        PROVE  handed'[i] # l
    <3>1. i + 1 # 1 /\ i + 1 \in DOMAIN handed /\ handed'[i] = handed[i + 1]
      BY <1>2
    <3> QED
      BY <1>2, <3>1, Zenon DEF AInv, HandedOnce
  <2> QED
    BY <2>1, Zenon DEF Members
<1>6. l \notin Members(accepted) /\ l \notin failed
  BY <1>2, Zenon DEF AInv, HandedNew, Members
<1> HIDE DEF l
<1> QED
  BY <1>1, <1>2, <1>3, <1>4, <1>5, <1>6, EnqueueCounted, Zenon

-----------------------------------------------------------------------------
(* Trying the lines of a list, and what becomes of it.                     *)

LEMMA TakeCounted ==
  ASSUME AInv, HInv', NEW a \in Actors, TakeBatch(a), ~NothingToTake(a)
  PROVE  AInv'
<1>1. LockFree /\ UNCHANGED <<handed, accepted, failed>>
  BY Zenon DEF TakeBatch
<1>2. \A w \in Workers : ~Attached(w)
  BY <1>1, Facts, Zenon DEF LockFree
<1>3. PICK b \in Batches, again \in BOOLEAN :
        /\ HandToThread(a, b, again) /\ CountAttempt(b) /\ retry' = NoBatch
        /\ \/ again /\ retry = b /\ content' = content /\ queue' = queue
           \/ ~again /\ content' = [content EXCEPT ![b] = queue] /\ queue' = <<>>
  <2>1. CASE TakeRetry(a)
    <3>1. retry \in Batches /\ TRUE \in BOOLEAN
      BY <2>1, Facts, Zenon DEF TakeRetry
    <3> QED
      BY <2>1, <3>1, Zenon DEF TakeRetry, lists
  <2>2. CASE TakeQueue(a)
    <3>1. FALSE \in BOOLEAN
      OBVIOUS
    <3> QED
      BY <2>2, <3>1, Zenon DEF TakeQueue, FreeBatches, Drain
  <2> QED
    BY <2>1, <2>2, Zenon DEF TakeBatch
<1> DEFINE q == Queued(a, b, again)
           tried == Members(content'[b])
<1>4. PICK w \in Workers : thread' = [thread EXCEPT ![w] = q]
  <2> DEFINE w == CHOOSE v \in IdleWorkers : TRUE
  <2>1. w \in IdleWorkers /\ thread' = [thread EXCEPT ![w] = q]
    BY <1>3, Zenon DEF HandToThread
  <2> QED
    BY <2>1, Zenon DEF IdleWorkers
<1>5. \A v \in Workers : thread'[v] = IF v = w THEN q ELSE thread[v]
  BY <1>4, Facts, Zenon
<1>6. q.batch = b /\ q.again = again
  BY DEF Queued
<1> HIDE DEF q
\* How often the lines of the list have been tried before, and are now.
<1>7. ASSUME NEW l \in Lines
      PROVE  /\ l \in tried => attempts[l] = Turn(again) - 1 /\ attempts'[l] = Turn(again)
                               /\ l \in Members(accepted)
             /\ l \notin tried => attempts'[l] = attempts[l]
  <2>1. attempts[l] \in Nat
    BY Facts
  <2>2. attempts'[l] = attempts[l] + (IF l \in tried THEN 1 ELSE 0)
    BY <1>3, Zenon DEF CountAttempt
  <2>3. l \in tried => l \in Members(accepted) /\ attempts[l] = IF again THEN 1 ELSE 0
    <3>1. CASE again
      <4>1. b # NoBatch
        BY SinkAssumption DEF NoBatch
      <4>2. l \in tried => attempts[l] = 1
        BY <1>3, <3>1, <4>1, Zenon DEF AInv, ParkedOnce
      <4>3. attempts[l] = 1 => attempts[l] # 0
        OBVIOUS
      <4> QED
        BY <3>1, <4>2, <4>3, Zenon DEF AInv, TriedIsTaken
    <3>2. CASE ~again
      <4>1. content'[b] = queue
        BY <1>3, <3>2, Facts, Zenon
      <4> QED
        BY <3>2, <4>1, Zenon DEF AInv, QueueUntried
    <3> QED
      BY <3>1, <3>2
  <2> HIDE DEF tried
  <2>4. CASE l \in tried
    BY <2>1, <2>2, <2>3, <2>4, SMT DEF Turn
  <2>5. CASE l \notin tried
    BY <2>1, <2>2, <2>5, SMT
  <2> QED
    BY <2>4, <2>5
<1>8. tried \subseteq Lines
  <2>1. content'[b] \in Seq(Lines)
    BY Zenon DEF HInv, TInv, TypeOK
  <2> QED
    BY <2>1 DEF Members
<1>9. HandedOnce' /\ HandedNew' /\ TriedIsTaken'
  BY <1>1, <1>7, Zenon DEF AInv, HandedOnce, HandedNew, TriedIsTaken
<1>10. QueueUntried'
  <2>1. CASE again
    <3>1. \A l \in Lines : Turn(again) - 1 # 0
      BY <2>1 DEF Turn
    <3>2. \A l \in Members(queue) : l \in Lines
      BY DEF AInv, HInv, TInv, TypeOK, Members
    <3>3. queue' = queue
      BY <1>3, <2>1, Zenon
    <3> QED
      BY <1>1, <1>7, <3>1, <3>2, <3>3, Zenon DEF AInv, QueueUntried
  <2>2. CASE ~again
    <3>1. Members(queue') = {}
      BY <1>3, <2>2 DEF Members
    <3> QED
      BY <3>1, Zenon DEF QueueUntried
  <2> QED
    BY <2>1, <2>2
<1>11. ParkedOnce'
  BY <1>3, Zenon DEF ParkedOnce
<1>12. FlightCounted'
  <2>1. \A v \in Workers : Attached(v)' => v = w
    BY <1>2, <1>5, Zenon DEF Attached
  <2>2. thread'[w].batch = b /\ thread'[w].again = again
    BY <1>5, <1>6, Zenon
  <2> QED
    BY <1>7, <1>8, <2>1, <2>2, Zenon DEF FlightCounted
<1>13. LostOnSecondAttempt'
  <2> SUFFICES ASSUME NEW l \in Lines
               PROVE  attempts'[l] <= 2
                      /\ (l \in failed \cap Members(accepted) => attempts'[l] = 2)
    BY <1>1, Zenon DEF LostOnSecondAttempt
  <2>1. attempts[l] <= 2 /\ (l \in failed \cap Members(accepted) => attempts[l] = 2)
    BY Zenon DEF AInv, LostOnSecondAttempt
  <2>2. Turn(again) \in {1, 2}
    BY DEF Turn
  <2>3. CASE l \in tried
    <3>1. attempts[l] = Turn(again) - 1 /\ attempts'[l] = Turn(again)
      BY <1>7, <2>3
    <3> HIDE DEF tried
    <3> QED
      BY <2>1, <2>2, <3>1, SMT
  <2>4. CASE l \notin tried
    BY <1>7, <2>1, <2>4
  <2> QED
    BY <2>3, <2>4
<1> QED
  BY <1>9, <1>10, <1>11, <1>12, <1>13, Zenon DEF AInv

\* Nobody awaits thread w any more; what it left in its list is parked after a
\* first attempt and written off after a second.
LEMMA ReleaseCounted ==
  ASSUME AInv, HInv', NEW w \in Workers, Attached(w),
         NEW u, u.owner = Detached, thread' = [thread EXCEPT ![w] = u],
         UNCHANGED <<queue, content, handed, accepted, attempts>>,
         \/ retry' = retry /\ failed' = failed
         \/ KeepOrLose(thread[w].batch, thread[w].again)
  PROVE  AInv'
<1>1. /\ retry = NoBatch /\ thread[w].batch \in Batches /\ thread[w].again \in BOOLEAN
      /\ content[thread[w].batch] \in Seq(Lines)
  BY Facts
<1> DEFINE b == thread[w].batch
           again == thread[w].again
<1>2. \A l \in Members(content[b]) : l \in Lines /\ attempts[l] = Turn(again)
  <2>1. \A l \in Members(content[b]) : l \in Lines
    BY <1>1 DEF Members
  <2> QED
    BY <2>1, Zenon DEF AInv, FlightCounted
<1>3. \A v \in Workers : ~Attached(v)'
  <2>1. \A v \in Workers : thread'[v] = IF v = w THEN u ELSE thread[v]
    BY Facts, Zenon
  <2>2. ASSUME NEW v \in Workers, v # w
        PROVE  ~Attached(v)
    BY <2>2, Zenon DEF AInv, HInv, Alone
  <2> QED
    BY <2>1, <2>2, Zenon DEF Attached
<1>4. FlightCounted' /\ TriedIsTaken' /\ QueueUntried' /\ HandedOnce'
  BY <1>3, Zenon DEF AInv, FlightCounted, TriedIsTaken, QueueUntried, HandedOnce
<1>5. /\ retry' = retry \/ (retry' = b /\ ~again)
      /\ failed' = failed \/ (failed' = failed \cup Members(content[b]) /\ again)
  BY Zenon DEF KeepOrLose
<1>6. ParkedOnce'
  <2>1. CASE again \/ retry' = retry
    BY <1>1, <1>5, <2>1, Zenon DEF ParkedOnce
  <2>2. CASE ~again /\ retry' = b
    <3>1. Turn(again) = 1
      BY <2>2 DEF Turn
    <3>2. content'[retry'] = content[b] /\ attempts' = attempts
      BY <2>2
    <3>3. ASSUME NEW l \in Members(content[b])
          PROVE  attempts[l] = 1
      BY <1>2, <3>1
    <3>4. \A l \in Members(content'[retry']) : attempts'[l] = 1
      BY <3>2, <3>3
    <3> QED
      BY <3>4, Zenon DEF ParkedOnce
  <2> QED
    BY <1>5, <2>1, <2>2
<1>7. Turn(again) # 0 /\ (again => Turn(again) = 2)
  BY DEF Turn
<1>8. \A l \in Members(content[b]) : l \in Members(accepted)
  BY <1>2, <1>7, Zenon DEF AInv, TriedIsTaken
<1>9. HandedNew'
  BY <1>5, <1>8, Zenon DEF AInv, HandedNew
<1>10. LostOnSecondAttempt'
  BY <1>2, <1>5, <1>7, Zenon DEF AInv, LostOnSecondAttempt
<1> QED
  BY <1>4, <1>6, <1>9, <1>10, Zenon DEF AInv

LEMMA ResumeCounted ==
  ASSUME AInv, HInv', NEW a \in Actors, ResumeWrite(a)
  PROVE  AInv'
<1>1. PICK w \in Workers :
        /\ thread[w].owner = a
        /\ \/ retry' = retry /\ failed' = failed
           \/ KeepOrLose(thread[w].batch, thread[w].again)
        /\ thread' = [thread EXCEPT ![w] = IdleThread]
  BY Zenon DEF ResumeWrite
<1>2. Attached(w)
  BY <1>1, SinkAssumption DEF Attached, Actors, Detached
<1>3. UNCHANGED <<queue, content, handed, accepted, attempts>>
  BY Zenon DEF ResumeWrite, lists
<1> QED
  BY <1>1, <1>2, <1>3, IdleThreadType, ReleaseCounted, Zenon

LEMMA UnwindCounted ==
  ASSUME AInv, HInv', NEW a \in Actors, Unwind(a),
         UNCHANGED <<queue, content, handed, accepted, attempts>>
  PROVE  AInv'
<1>1. CASE pc[a] # "write"
  <2>1. UNCHANGED <<retry, failed, thread>>
    BY <1>1, Zenon DEF Unwind
  <2>2. /\ \A b \in Batches : Members(content'[b]) \subseteq Members(content[b])
        /\ \A w \in Workers : Attached(w)' => Attached(w)
    BY <2>1, Zenon DEF Attached
  <2> QED
    BY <2>1, <2>2, CalmCounted, Zenon
<1>2. CASE pc[a] = "write"
  <2>1. PICK w \in Workers :
          /\ thread[w].owner = a
          /\ KeepOrLose(thread[w].batch, thread[w].again)
          /\ thread' = [thread EXCEPT ![w] =
                          IF @.st \in {"running", "writing"}
                          THEN [@ EXCEPT !.owner = Detached] ELSE IdleThread]
    BY <1>2, Zenon DEF Unwind
  <2> DEFINE v == [thread[w] EXCEPT !.owner = Detached]
             u == IF thread[w].st \in {"running", "writing"} THEN v ELSE IdleThread
  <2>2. Attached(w)
    BY <2>1, SinkAssumption DEF Attached, Actors, Detached
  <2>3. thread' = [thread EXCEPT ![w] = u]
    BY <2>1, Facts, Zenon
  <2>4. v.owner = Detached
    <3>1. thread[w] \in ThreadRecord
      BY Facts
    <3> QED
      BY <3>1 DEF ThreadRecord
  <2> HIDE DEF v
  <2>5. u.owner = Detached
    BY <2>4, IdleThreadType, Zenon
  <2> HIDE DEF u
  <2> QED
    BY <2>1, <2>2, <2>3, <2>5, ReleaseCounted, Zenon
<1> QED
  BY <1>1, <1>2

-----------------------------------------------------------------------------
(* The remaining steps shorten a list at most.                             *)

LEMMA ThreadCounted ==
  ASSUME AInv, HInv', NEW w \in Workers, ThreadStep(w)
  PROVE  AInv'
<1>1. UNCHANGED <<queue, retry, handed, accepted, failed, attempts>>
  BY Zenon DEF ThreadStep, ThreadStarts, BorrowForSegment, SegmentLands, SegmentFails,
               BatchDone, BatchFails, memory
<1>2. thread[w] \in ThreadRecord /\ thread[w].batch \in Batches
      /\ thread \in [Workers -> ThreadRecord] /\ content \in [Batches -> Seq(Lines)]
  BY DEF AInv, HInv, TInv, TypeOK, ThreadHasList, ThreadStep, ThreadStarts, BorrowForSegment,
         SegmentLands, SegmentFails, BatchDone, BatchFails, Step
<1>3. PICK u : /\ thread' = [thread EXCEPT ![w] = u]
               /\ \/ u.owner = thread[w].owner /\ u.batch = thread[w].batch
                     /\ u.again = thread[w].again
                  \/ u.owner = Detached
  <2>1. ASSUME NEW st, NEW seg, NEW p, NEW n,
               \/ thread' = [thread EXCEPT ![w] = [thread[w] EXCEPT !.st = st, !.total = n]]
               \/ thread' = [thread EXCEPT ![w] = [thread[w] EXCEPT !.st = st, !.segment = seg]]
               \/ thread' = [thread EXCEPT ![w] = [thread[w] EXCEPT !.st = st, !.segment = seg,
                                                                    !.placed = p]]
               \/ thread' = [thread EXCEPT ![w] = [thread[w] EXCEPT !.st = st, !.placed = p,
                                                                    !.segment = seg]]
        PROVE  \E u : /\ thread' = [thread EXCEPT ![w] = u]
                      /\ u.owner = thread[w].owner /\ u.batch = thread[w].batch
                      /\ u.again = thread[w].again
    <3> DEFINE u1 == [thread[w] EXCEPT !.st = st, !.total = n]
               u2 == [thread[w] EXCEPT !.st = st, !.segment = seg]
               u3 == [thread[w] EXCEPT !.st = st, !.segment = seg, !.placed = p]
               u4 == [thread[w] EXCEPT !.st = st, !.placed = p, !.segment = seg]
               Same(u) == u.owner = thread[w].owner /\ u.batch = thread[w].batch
                          /\ u.again = thread[w].again
    <3>1. Same(u1) /\ Same(u2) /\ Same(u3) /\ Same(u4)
      BY <1>2 DEF ThreadRecord
    <3>2. \/ thread' = [thread EXCEPT ![w] = u1] \/ thread' = [thread EXCEPT ![w] = u2]
          \/ thread' = [thread EXCEPT ![w] = u3] \/ thread' = [thread EXCEPT ![w] = u4]
      BY <2>1
    <3> HIDE DEF u1, u2, u3, u4
    <3> QED
      BY <3>1, <3>2, Zenon
  <2>2. CASE ThreadStarts(w)
    BY <2>1, <2>2, Zenon DEF ThreadStarts, Step
  <2>3. CASE BorrowForSegment(w)
    BY <2>1, <2>3, Zenon DEF BorrowForSegment, Step
  <2>4. CASE SegmentLands(w)
    <3>1. PICK p : thread' = [thread EXCEPT ![w] =
                      [thread[w] EXCEPT !.st = "running", !.segment = <<>>, !.placed = p]]
      BY <2>4, Zenon DEF SegmentLands, Step
    <3> QED
      BY <2>1, <3>1, Zenon
  <2>5. CASE SegmentFails(w) \/ BatchDone(w) \/ BatchFails(w)
    <3>1. PICK placed, result : Leave(w, placed, result)
      BY <2>5, Zenon DEF SegmentFails, BatchDone, BatchFails
    <3>2. CASE thread[w].owner = Detached
      <4>1. thread' = [thread EXCEPT ![w] = IdleThread]
        BY <3>1, <3>2, Zenon DEF Leave
      <4> QED
        BY <4>1, IdleThreadType, Zenon
    <3>3. CASE thread[w].owner # Detached
      <4>1. thread' = [thread EXCEPT ![w] =
                [thread[w] EXCEPT !.st = result, !.placed = placed, !.segment = <<>>]]
        BY <3>1, <3>3, Zenon DEF Leave
      <4> QED
        BY <2>1, <4>1, Zenon
    <3> QED
      BY <3>2, <3>3
  <2> QED
    BY <2>2, <2>3, <2>4, <2>5, Zenon DEF ThreadStep
<1>4. \A v \in Workers : Attached(v)' =>
           /\ Attached(v) /\ thread'[v].batch = thread[v].batch
           /\ thread'[v].again = thread[v].again
  <2>1. \A v \in Workers : thread'[v] = IF v = w THEN u ELSE thread[v]
    BY <1>2, <1>3, Zenon
  <2> QED
    BY <1>3, <2>1, Zenon DEF Attached
<1>5. \A b \in Batches : Members(content'[b]) \subseteq Members(content[b])
  <2> TAKE b \in Batches
  <2>1. CASE content' = content
    BY <2>1
  <2>2. CASE content' # content
    <3>1. PICK placed \in Nat, result \in {"ok", "failed"} : Leave(w, placed, result)
      <4>1. /\ thread[w].placed \in Nat
            /\ \A k \in 0..Len(thread[w].segment) : Placed(thread[w], k) \in Nat
        BY <1>2 DEF Placed, ThreadRecord
      <4> QED
        BY <2>2, <4>1, Zenon DEF ThreadStep, ThreadStarts, BorrowForSegment, SegmentLands,
                                 SegmentFails, BatchDone, BatchFails, lists
    <3>2. \/ content'[b] = content[b]
          \/ content'[b] = SubSeq(content[b], placed + 1, Len(content[b]))
      BY <1>2, <3>1, Zenon DEF Leave
    <3>3. Members(SubSeq(content[b], placed + 1, Len(content[b]))) \subseteq Members(content[b])
      <4>1. content[b] \in Seq(Lines)
        BY <1>2
      <4> QED
        BY <4>1, PartMembers
    <3> QED
      BY <3>2, <3>3
  <2> QED
    BY <2>1, <2>2
<1> QED
  BY <1>1, <1>4, <1>5, CalmCounted, Zenon

LEMMA ControlCounted ==
  ASSUME AInv, HInv',
         UNCHANGED <<queue, retry, content, thread, handed, accepted, failed, attempts>>
  PROVE  AInv'
<1>1. /\ \A b \in Batches : Members(content'[b]) \subseteq Members(content[b])
      /\ \A w \in Workers : Attached(w)' => Attached(w)
  BY Zenon DEF Attached
<1> QED
  BY <1>1, CalmCounted, Zenon

LEMMA RetryNext == AInv /\ [Next]_vars => AInv'
<1> SUFFICES ASSUME AInv, [Next]_vars
             PROVE  AInv'
  OBVIOUS
<1>1. HInv'
  BY HeldNext DEF AInv
<1>2. ASSUME NEW l \in Lines, SubmitOnLoop(l) \/ SubmitOffLoop(l)
      PROVE  AInv'
  BY <1>1, <1>2, SubmitCounted, Zenon
<1>3. CASE Start \/ Wake \/ Terminate \/ CloseBegin \/ LoopEnds \/ UNCHANGED vars
  <2>1. UNCHANGED <<queue, retry, content, thread, handed, accepted, failed, attempts>>
    BY <1>3, Zenon DEF Start, Wake, Terminate, CloseBegin, LoopEnds, vars, memory, lists
  <2> QED
    BY <1>1, <2>1, ControlCounted
<1>4. ASSUME NEW a \in Actors, StartRound(a) \/ TakeBatch(a) \/ ResumeWrite(a)
      PROVE  AInv'
  <2>1. CASE StartRound(a) \/ (TakeBatch(a) /\ NothingToTake(a))
    <3>1. UNCHANGED <<queue, retry, content, thread, handed, accepted, failed, attempts>>
      BY <2>1, Zenon DEF StartRound, TakeBatch, NothingToTake, memory, lists
    <3> QED
      BY <1>1, <3>1, ControlCounted
  <2>2. CASE TakeBatch(a) /\ ~NothingToTake(a)
    BY <1>1, <2>2, TakeCounted
  <2>3. CASE ResumeWrite(a)
    BY <1>1, <2>3, ResumeCounted
  <2> QED
    BY <1>4, <2>1, <2>2, <2>3
<1>5. ASSUME NEW f \in Flushers, FlushCall(f) \/ CancelFlush(f)
      PROVE  AInv'
  <2>1. CASE FlushCall(f)
    <3>1. UNCHANGED <<queue, retry, content, thread, handed, accepted, failed, attempts>>
      BY <2>1, Zenon DEF FlushCall, memory, lists
    <3> QED
      BY <1>1, <3>1, ControlCounted
  <2>2. CASE CancelFlush(f)
    <3>1. f \in Actors /\ Unwind(f) /\ UNCHANGED <<queue, content, handed, accepted, attempts>>
      BY <2>2, Zenon DEF CancelFlush, Actors, lists
    <3> QED
      BY <1>1, <3>1, UnwindCounted
  <2> QED
    BY <1>5, <2>1, <2>2
<1>6. ASSUME NEW w \in Workers, ThreadStep(w)
      PROVE  AInv'
  BY <1>1, <1>6, ThreadCounted
<1>7. CASE CloseTimesOut
  <2>1. PICK d \in Actors : Unwind(d)
    <3>1. "run" \in Actors /\ "close" \in Actors
      BY DEF Actors
    <3> QED
      BY <1>7, <3>1, Zenon DEF CloseTimesOut
  <2>2. UNCHANGED <<queue, content, handed, accepted, attempts>>
    BY <1>7, Zenon DEF CloseTimesOut, lists
  <2> QED
    BY <1>1, <2>1, <2>2, UnwindCounted
<1>8. CASE DeliverHanded
  BY <1>1, <1>8, DeliverCounted
<1> QED
  BY <1>2, <1>3, <1>4, <1>5, <1>6, <1>7, <1>8, Zenon DEF Next, LoopStep

\* "Exactly one retry", for any number of documents, flush() callers, threads and
\* list objects, with any failures and cancellations: no line is handed to a
\* thread a third time, and none that was taken is written off after its first.
THEOREM ExactlyOneRetry == Spec => []LostOnSecondAttempt
<1>1. Init => AInv
  BY RetryInit
<1>2. AInv /\ [Next]_vars => AInv'
  BY RetryNext
<1>3. AInv => LostOnSecondAttempt
  BY DEF AInv
<1> QED
  BY <1>1, <1>2, <1>3, PTL DEF Spec

-----------------------------------------------------------------------------
(***************************************************************************)
(* 3. The contract.                                                        *)
(*                                                                         *)
(* The sink implements SinkContract, for any number of documents, threads  *)
(* and list objects, as long as only the background task and close() flush.*)
(*                                                                         *)
(* The argument: what the sink holds is in the order it was taken, place   *)
(* by place.  The lines of the log come before those a thread still has in *)
(* front of it, these before the queue; a parked list comes between the    *)
(* log and the queue as well.  What is still to be written has not been    *)
(* written off, until close() runs out of time.                            *)
(*                                                                         *)
(* And a close() that does not run out of time leaves nothing behind: the  *)
(* rounds of the drain always suffice for what can still be held.          *)
(***************************************************************************)

\* x was taken before y.
Before(x, y) == \E m, n \in DOMAIN accepted : m < n /\ accepted[m] = x /\ accepted[n] = y
Sorted(s) == \A i, j \in DOMAIN s : i < j => Before(s[i], s[j])
AllBefore(X, Y) == \A x \in X, y \in Y : Before(x, y)

\* How far a thread is in its list, and the lines in front of it.
Reached(w) == IF thread[w].st \in {"running", "writing"} THEN thread[w].placed ELSE 0
Past(s, n) == {s[i] : i \in {j \in DOMAIN s : n < j}}

TakenOnce == \A i, j \in DOMAIN accepted : i # j => accepted[i] # accepted[j]
LogInOrder == Sorted(landed) /\ Members(landed) \subseteq Members(accepted)
QueueInOrder == Sorted(queue) /\ AllBefore(Members(landed), Members(queue))
ListInOrder(b) ==
  /\ Sorted(content[b]) /\ Members(content[b]) \subseteq Members(accepted)
  /\ AllBefore(Members(content[b]), Members(queue))
  /\ ~timedOut => Members(content[b]) \cap failed = {}
ParkedInOrder == retry # NoBatch /\ ~timedOut =>
  ListInOrder(retry) /\ AllBefore(Members(landed), Members(content[retry]))
FlightInOrder == \A w \in Workers : Busy(w) =>
  ListInOrder(thread[w].batch) /\ AllBefore(Members(landed), Past(Placing(w), Reached(w)))

OInv == TakenOnce /\ LogInOrder /\ QueueInOrder /\ ParkedInOrder /\ FlightInOrder
CInv == VInv /\ AInv /\ OInv

-----------------------------------------------------------------------------
(* Sequences in order.                                                     *)

LEMMA RestAt ==
  ASSUME NEW S, NEW s \in Seq(S), NEW n \in Nat, NEW r, r = SubSeq(s, n + 1, Len(s))
  PROVE  /\ DOMAIN r \subseteq Nat \ {0}
         /\ \A i \in DOMAIN r : n + i \in DOMAIN s /\ r[i] = s[n + i]
<1>1. DOMAIN s = 1..Len(s) /\ Len(s) \in Nat /\ \A i \in 1..Len(s) : s[i] \in S
  BY SMT
<1>2. n + 1 \in Int /\ Len(s) \in Int /\ \A i \in (n + 1)..Len(s) : s[i] \in S
  BY <1>1, SMT
<1>3. /\ r \in Seq(S)
      /\ Len(r) = IF n + 1 <= Len(s) THEN Len(s) - (n + 1) + 1 ELSE 0
      /\ \A i \in 1..(Len(s) - (n + 1) + 1) : r[i] = s[(n + 1) + i - 1]
  BY <1>2, SubSeqProperties
<1>4. DOMAIN r = 1..Len(r)
  BY <1>3, SMT
<1>5. ASSUME NEW i \in DOMAIN r
      PROVE  i \in Nat \ {0} /\ n + i \in DOMAIN s /\ r[i] = s[n + i]
  <2>1. /\ i \in 1..(Len(s) - (n + 1) + 1) /\ i \in Nat \ {0}
        /\ n + i \in 1..Len(s) /\ (n + 1) + i - 1 = n + i
    <3>1. i \in 1..Len(r) /\ Len(r) \in Nat
      BY <1>3, <1>4, <1>5, SMT
    <3> QED
      BY <1>1, <1>3, <3>1
  <2> QED
    BY <1>1, <1>3, <2>1
<1> QED
  BY <1>5

LEMMA BeforeSame ==
  ASSUME accepted' = accepted
  PROVE  \A x, y : Before(x, y)' <=> Before(x, y)
  BY Zenon DEF Before

LEMMA BeforeGrows ==
  ASSUME NEW S, accepted \in Seq(S), NEW l \in S, accepted' = Append(accepted, l)
  PROVE  /\ \A x, y : Before(x, y) => Before(x, y)'
         /\ \A x \in Members(accepted) : Before(x, l)'
<1>1. /\ Len(accepted') = Len(accepted) + 1 /\ Len(accepted) \in Nat
      /\ \A i \in 1..Len(accepted) : accepted'[i] = accepted[i]
      /\ accepted'[Len(accepted) + 1] = l
  BY AppendProperties
<1>2. DOMAIN accepted = 1..Len(accepted) /\ DOMAIN accepted' = 1..(Len(accepted) + 1)
  <2>1. accepted' \in Seq(S)
    BY AppendProperties
  <2> QED
    BY <1>1, <2>1, SMT
<1>3. /\ \A i \in 1..Len(accepted) : i \in 1..(Len(accepted) + 1) /\ i < Len(accepted) + 1
      /\ Len(accepted) + 1 \in 1..(Len(accepted) + 1)
  BY <1>1, SMT
<1>4. \A x, y : Before(x, y) => Before(x, y)'
  BY <1>1, <1>2, <1>3, Zenon DEF Before
<1>5. \A x \in Members(accepted) : Before(x, l)'
  BY <1>1, <1>2, <1>3, Zenon DEF Before, Members
<1> QED
  BY <1>4, <1>5

LEMMA NeverBeforeItself ==
  ASSUME TakenOnce, accepted \in Seq(Lines)
  PROVE  \A x : ~Before(x, x)
<1> SUFFICES ASSUME NEW x, Before(x, x) PROVE FALSE
  OBVIOUS
<1>1. PICK m, n \in DOMAIN accepted : m < n /\ accepted[m] = x /\ accepted[n] = x
  BY Zenon DEF Before
<1>2. m # n
  BY <1>1, SMT
<1> QED
  BY <1>1, <1>2, Zenon DEF TakenOnce

\* A piece of a list is as sorted as the list.
LEMMA SortedPiece ==
  ASSUME NEW s, NEW r, DOMAIN r \subseteq Int, NEW p \in Int, Sorted(s),
         \A i \in DOMAIN r : p + i \in DOMAIN s /\ r[i] = s[p + i]
  PROVE  /\ Sorted(r) /\ Members(r) \subseteq Members(s)
         /\ p \in Nat /\ DOMAIN r \subseteq Nat \ {0} => Members(r) \subseteq Past(s, p)
<1>1. \A i, j \in DOMAIN r : i < j => p + i < p + j
  BY SMT
<1>2. Sorted(r)
  BY <1>1, Zenon DEF Sorted
<1>3. Members(r) \subseteq Members(s)
  BY Zenon DEF Members
<1>4. ASSUME p \in Nat, DOMAIN r \subseteq Nat \ {0}
      PROVE  Members(r) \subseteq Past(s, p)
  <2>1. \A i \in DOMAIN r : p < p + i
    BY <1>4, SMT
  <2> QED
    BY <2>1, Zenon DEF Members, Past
<1> QED
  BY <1>2, <1>3, <1>4

LEMMA Joined ==
  ASSUME NEW s \in Seq(Lines), NEW r \in Seq(Lines)
  PROVE  /\ DOMAIN s = 1..Len(s) /\ DOMAIN r = 1..Len(r)
         /\ DOMAIN (s \o r) = 1..(Len(s) + Len(r)) /\ Len(s \o r) = Len(s) + Len(r)
         /\ Len(s) \in Nat /\ Len(r) \in Nat
         /\ \A i \in 1..(Len(s) + Len(r)) :
              (s \o r)[i] = IF i <= Len(s) THEN s[i] ELSE r[i - Len(s)]
  BY SMT

LEMMA SortedJoin ==
  ASSUME NEW s \in Seq(Lines), NEW r \in Seq(Lines), Sorted(s), Sorted(r),
         AllBefore(Members(s), Members(r))
  PROVE  Sorted(s \o r)
<1>1. /\ DOMAIN s = 1..Len(s) /\ DOMAIN r = 1..Len(r) /\ DOMAIN (s \o r) = 1..(Len(s) + Len(r))
      /\ Len(s) \in Nat /\ Len(r) \in Nat
      /\ \A i \in 1..(Len(s) + Len(r)) :
           (s \o r)[i] = IF i <= Len(s) THEN s[i] ELSE r[i - Len(s)]
  BY Joined
<1> DEFINE t == s \o r
           m == Len(s)
<1> SUFFICES ASSUME NEW i \in DOMAIN t, NEW j \in DOMAIN t, i < j PROVE Before(t[i], t[j])
  BY Zenon DEF Sorted
<1> HIDE DEF t
<1>2. CASE j <= m
  <2>1. i \in DOMAIN s /\ j \in DOMAIN s /\ t[i] = s[i] /\ t[j] = s[j]
    BY <1>1, <1>2, SMT DEF t
  <2> QED
    BY <2>1, Zenon DEF Sorted
<1>3. CASE i <= m /\ ~(j <= m)
  <2>1. i \in DOMAIN s /\ j - m \in DOMAIN r /\ t[i] = s[i] /\ t[j] = r[j - m]
    BY <1>1, <1>3, SMT DEF t
  <2> QED
    BY <2>1, Zenon DEF AllBefore, Members
<1>4. CASE ~(i <= m)
  <2>1. i - m \in DOMAIN r /\ j - m \in DOMAIN r /\ t[i] = r[i - m] /\ t[j] = r[j - m] /\ i - m < j - m
    BY <1>1, <1>4, SMT DEF t
  <2> QED
    BY <2>1, Zenon DEF Sorted
<1> QED
  BY <1>2, <1>3, <1>4, SMT DEF t

-----------------------------------------------------------------------------
(* The steps that leave the lines where they are, and the taking of a line. *)

LEMMA CalmInOrder ==
  ASSUME CInv, UNCHANGED <<queue, retry, content, accepted, landed>>, timedOut => timedOut',
         \A x \in Members(accepted) : x \in failed' => x \in failed,
         \A w \in Workers : Busy(w)' => /\ Busy(w) /\ thread'[w].batch = thread[w].batch
                                        /\ Reached(w)' = Reached(w)
  PROVE  OInv'
<1>1. \A x, y : Before(x, y)' <=> Before(x, y)
  BY BeforeSame, Zenon
<1>2. TakenOnce' /\ LogInOrder' /\ QueueInOrder'
  BY <1>1, Zenon DEF CInv, OInv, TakenOnce, LogInOrder, QueueInOrder, Sorted, AllBefore
<1>3. ASSUME NEW b, ListInOrder(b)
      PROVE  ListInOrder(b)'
  <2>1. ~timedOut' => Members(content'[b]) \cap failed' = {}
    BY <1>3, Zenon DEF ListInOrder
  <2> QED
    BY <1>1, <1>3, <2>1, Zenon DEF ListInOrder, Sorted, AllBefore
<1>4. ParkedInOrder'
  BY <1>1, <1>3, Zenon DEF CInv, OInv, ParkedInOrder, AllBefore
<1>5. FlightInOrder'
  <2>1. \A w \in Workers : Busy(w)' => Placing(w)' = Placing(w)
    BY Zenon DEF Placing
  <2> QED
    BY <1>1, <1>3, <2>1, Zenon DEF CInv, OInv, FlightInOrder, AllBefore
<1> QED
  BY <1>2, <1>4, <1>5, Zenon DEF OInv

LEMMA AppendInOrder ==
  ASSUME CInv, NEW l \in Lines, l \notin Members(accepted), l \notin failed,
         queue' = Append(queue, l), accepted' = Append(accepted, l),
         UNCHANGED <<retry, content, thread, landed, failed, timedOut>>
  PROVE  OInv'
<1>1. /\ queue \in Seq(Lines) /\ accepted \in Seq(Lines) /\ landed \in Seq(Lines)
      /\ Members(queue) \subseteq Members(accepted)
  BY Known, Zenon DEF CInv, AInv, QueueUntried
<1>2. /\ \A x, y : Before(x, y) => Before(x, y)'
      /\ \A x \in Members(accepted) : Before(x, l)'
  BY <1>1, BeforeGrows, Zenon
<1>3. /\ Members(queue') = Members(queue) \cup {l}
      /\ Members(accepted') = Members(accepted) \cup {l}
  <2>1. Members(Append(queue, l)) = Members(queue) \cup {l}
    BY <1>1, AppendedMembers
  <2>2. Members(Append(accepted, l)) = Members(accepted) \cup {l}
    BY <1>1, AppendedMembers
  <2> QED
    BY <2>1, <2>2, Zenon
<1>4. TakenOnce'
  <2>1. /\ accepted' \in Seq(Lines) /\ Len(accepted') = Len(accepted) + 1
        /\ \A i \in 1..Len(accepted) : accepted'[i] = accepted[i]
        /\ accepted'[Len(accepted) + 1] = l
    BY <1>1, AppendProperties
  <2>2. /\ DOMAIN accepted = 1..Len(accepted) /\ DOMAIN accepted' = 1..(Len(accepted) + 1)
        /\ \A i \in 1..(Len(accepted) + 1) : i \in 1..Len(accepted) \/ i = Len(accepted) + 1
    BY <1>1, <2>1, SMT
  <2>3. \A i \in 1..Len(accepted) : accepted[i] # l
    BY <2>2, Zenon DEF Members
  <2>4. TakenOnce
    BY DEF CInv, OInv
  <2>5. ASSUME NEW i \in DOMAIN accepted', NEW j \in DOMAIN accepted', i # j
        PROVE  accepted'[i] # accepted'[j]
    <3>1. CASE i \in 1..Len(accepted) /\ j \in 1..Len(accepted)
      BY <2>1, <2>2, <2>4, <2>5, <3>1, Zenon DEF TakenOnce
    <3>2. CASE ~(i \in 1..Len(accepted) /\ j \in 1..Len(accepted))
      BY <2>1, <2>2, <2>3, <2>5, <3>2, Zenon
    <3> QED
      BY <3>1, <3>2
  <2> QED
    BY <2>5, Zenon DEF TakenOnce
<1>5. LogInOrder'
  BY <1>2, <1>3, Zenon DEF CInv, OInv, LogInOrder, Sorted
<1>6. ASSUME NEW X, X \subseteq Members(accepted), AllBefore(X, Members(queue))
      PROVE  AllBefore(X, Members(queue))'
  BY <1>2, <1>3, <1>6, Zenon DEF AllBefore
<1>7. QueueInOrder'
  <2>1. /\ Len(queue') = Len(queue) + 1
        /\ \A i \in 1..Len(queue) : queue'[i] = queue[i]
        /\ queue'[Len(queue) + 1] = l
        /\ DOMAIN queue = 1..Len(queue) /\ DOMAIN queue' = 1..(Len(queue) + 1)
        /\ Len(queue) \in Nat
    BY <1>1, AppendProperties
  <2>2. \A i \in 1..Len(queue) : Before(queue[i], l)'
    BY <1>1, <1>2, <2>1, Zenon DEF Members
  <2>3. ASSUME NEW i \in DOMAIN queue', NEW j \in DOMAIN queue', i < j
        PROVE  i \in 1..Len(queue) /\ (j \in 1..Len(queue) \/ j = Len(queue) + 1)
    BY <2>1, <2>3, SMT
  <2>4. Sorted(queue)'
    BY <1>2, <2>1, <2>2, <2>3, Zenon DEF CInv, OInv, QueueInOrder, Sorted
  <2>5. AllBefore(Members(landed), Members(queue))'
    BY <1>6, Zenon DEF CInv, OInv, QueueInOrder, LogInOrder
  <2> QED
    BY <2>4, <2>5, Zenon DEF QueueInOrder
<1>8. ASSUME NEW b, ListInOrder(b)
      PROVE  ListInOrder(b)'
  <2>1. AllBefore(Members(content[b]), Members(queue))'
    BY <1>6, <1>8, Zenon DEF ListInOrder
  <2> QED
    BY <1>2, <1>3, <1>8, <2>1, Zenon DEF ListInOrder, Sorted
<1>9. ParkedInOrder'
  BY <1>2, <1>8, Zenon DEF CInv, OInv, ParkedInOrder, AllBefore
<1>10. FlightInOrder'
  BY <1>2, <1>8, Zenon DEF CInv, OInv, FlightInOrder, AllBefore, Busy, Placing, Reached
<1> QED
  BY <1>4, <1>5, <1>7, <1>9, <1>10, Zenon DEF OInv

-----------------------------------------------------------------------------
(* A list goes to a thread, and comes back.                                *)

LEMMA TakeInOrder ==
  ASSUME CInv, NEW a \in Actors, TakeBatch(a), ~NothingToTake(a)
  PROVE  OInv'
<1>1. LockFree /\ pc[a] = "lock" /\ UNCHANGED <<timedOut, accepted, landed, failed>>
  BY Zenon DEF TakeBatch, life, logfile
<1>2. ~timedOut /\ \A w \in Workers : ~Busy(w)
  <2>1. ~timedOut
    <3>1. a = "run" \/ a = "close"
      BY Known DEF CInv
    <3> QED
      BY <1>1, <3>1, Zenon DEF CInv, VInv, Control, Hurried
  <2>2. \A w \in Workers : ~Attached(w)
    BY <1>1, Known, Zenon DEF LockFree, CInv
  <2> QED
    BY <2>1, <2>2, Zenon DEF CInv, VInv, Control, Watched
<1>3. PICK b \in Batches, again \in BOOLEAN :
        /\ HandToThread(a, b, again) /\ retry' = NoBatch
        /\ \/ retry = b /\ content' = content /\ queue' = queue
           \/ retry = NoBatch /\ content' = [content EXCEPT ![b] = queue] /\ queue' = <<>>
  <2>1. CASE TakeRetry(a)
    <3>1. retry \in Batches /\ TRUE \in BOOLEAN
      BY <2>1, Known, Zenon DEF TakeRetry, CInv
    <3> QED
      BY <2>1, <3>1, Zenon DEF TakeRetry, lists
  <2>2. CASE TakeQueue(a)
    <3>1. FALSE \in BOOLEAN
      OBVIOUS
    <3> QED
      BY <2>2, <3>1, Zenon DEF TakeQueue, FreeBatches, Drain
  <2> QED
    BY <2>1, <2>2, Zenon DEF TakeBatch
<1> DEFINE q == Queued(a, b, again)
<1>4. PICK w \in Workers : thread' = [thread EXCEPT ![w] = q]
  <2> DEFINE w == CHOOSE v \in IdleWorkers : TRUE
  <2>1. w \in IdleWorkers /\ thread' = [thread EXCEPT ![w] = q]
    BY <1>3, Zenon DEF HandToThread
  <2> QED
    BY <2>1, Zenon DEF IdleWorkers
<1>5. \A v \in Workers : thread'[v] = IF v = w THEN q ELSE thread[v]
  BY <1>4, Known, Zenon DEF CInv
<1>6. q.st = "queued" /\ q.batch = b
  BY DEF Queued
<1> HIDE DEF q
<1>7. \A v \in Workers : Busy(v)' => v = w
  BY <1>2, <1>5, Zenon DEF Busy
<1>8. \A x, y : Before(x, y)' <=> Before(x, y)
  BY <1>1, BeforeSame, Zenon
<1>9. queue \in Seq(Lines) /\ content'[b] = (IF retry = b THEN content[b] ELSE queue)
  <2>1. b # NoBatch
    BY SinkAssumption DEF NoBatch
  <2> QED
    BY <1>3, <2>1, Known, Zenon DEF CInv
<1>10. TakenOnce' /\ LogInOrder'
  BY <1>1, <1>8, Zenon DEF CInv, OInv, TakenOnce, LogInOrder, Sorted
<1>11. QueueInOrder' /\ (retry = b \/ Members(queue') = {})
  <2>1. CASE queue' = queue
    BY <1>1, <1>3, <1>8, <2>1 DEF CInv, OInv, QueueInOrder, Sorted, AllBefore, Members
  <2>2. CASE queue' = <<>>
    <3>1. DOMAIN queue' = {} /\ Members(queue') = {}
      BY <2>2 DEF Members
    <3> QED
      BY <3>1, Zenon DEF QueueInOrder, Sorted, AllBefore
  <2> QED
    BY <1>3, <2>1, <2>2
<1>12. ListInOrder(b)' /\ AllBefore(Members(landed), Members(content[b]))'
  <2>1. CASE retry = b
    <3>1. b # NoBatch /\ content' = content /\ queue' = queue
      BY <1>3, <2>1, SinkAssumption DEF NoBatch
    <3>2. ListInOrder(b) /\ AllBefore(Members(landed), Members(content[b]))
      BY <1>2, <2>1, <3>1, Zenon DEF CInv, OInv, ParkedInOrder
    <3> QED
      BY <1>1, <1>8, <3>1, <3>2, Zenon DEF ListInOrder, Sorted, AllBefore
  <2>2. CASE retry # b
    <3>1. content'[b] = queue /\ Members(queue') = {}
      BY <1>9, <1>11, <2>2
    <3>2. Members(queue) \subseteq Members(accepted) /\ Members(queue) \cap failed = {}
      <4>1. \A l \in Members(queue) : attempts[l] = 0 /\ l \in Members(accepted)
        BY Zenon DEF CInv, AInv, QueueUntried
      <4>2. \A l \in Lines : l \in failed \cap Members(accepted) => attempts[l] = 2
        BY Zenon DEF CInv, AInv, LostOnSecondAttempt
      <4>3. failed \subseteq Lines
        BY Facts DEF CInv
      <4> QED
        BY <4>1, <4>2, <4>3
    <3>3. Sorted(queue) /\ AllBefore(Members(landed), Members(queue))
      BY Zenon DEF CInv, OInv, QueueInOrder
    <3> QED
      BY <1>1, <1>8, <3>1, <3>2, <3>3, Zenon DEF ListInOrder, Sorted, AllBefore
  <2> QED
    BY <2>1, <2>2
<1>13. FlightInOrder'
  <2>1. thread'[w].batch = b /\ Placing(w)' = content'[b]
    BY <1>5, <1>6, Zenon DEF Placing
  <2>2. Past(Placing(w), Reached(w))' \subseteq Members(content'[b])
    BY <2>1, Zenon DEF Past, Members
  <2> QED
    BY <1>7, <1>12, <2>1, <2>2, Zenon DEF FlightInOrder, AllBefore
<1>14. ParkedInOrder'
  BY <1>3, Zenon DEF ParkedInOrder
<1> QED
  BY <1>10, <1>11, <1>13, <1>14, Zenon DEF OInv

LEMMA ReleaseInOrder ==
  ASSUME CInv, NEW w \in Workers, Attached(w),
         NEW u, thread' = [thread EXCEPT ![w] = u],
         u.st # "idle" => /\ u.batch = thread[w].batch /\ u.st = thread[w].st
                          /\ u.placed = thread[w].placed /\ timedOut',
         timedOut' \/ thread[w].st \in {"ok", "failed"},
         UNCHANGED <<queue, content, accepted, landed>>,
         \/ retry' = retry /\ failed' = failed
         \/ KeepOrLose(thread[w].batch, thread[w].again)
  PROVE  /\ OInv' /\ ~timedOut
         /\ Members(Placing(w)) \subseteq Members(accepted)
         /\ thread[w].st \in {"ok", "failed"} => Members(Placing(w)) \cap Members(landed) = {}
<1> PICK b \in Batches : b = thread[w].batch
  BY Known, Zenon DEF CInv
<1>1. /\ Busy(w) /\ retry = NoBatch /\ b \in Batches /\ Placing(w) \in Seq(Lines)
      /\ Placing(w) = content[b] /\ accepted \in Seq(Lines)
  BY Known DEF CInv, Placing
<1>2. ~timedOut
  <2>1. thread[w].owner \in {"run", "close"} /\ pc[thread[w].owner] = "write"
    BY Known, Zenon DEF CInv
  <2>2. timedOut => pc["close"] \in {"cancelled", "done"} /\ pc["run"] \in {"off", "done"}
    BY Zenon DEF CInv, VInv, Control, Hurried
  <2> QED
    BY <2>1, <2>2
<1>3. \A v \in Workers : thread'[v] = IF v = w THEN u ELSE thread[v]
  BY Known, Zenon DEF CInv
<1>4. \A v \in Workers : Busy(v)' => v = w
  <2>1. \A v \in Workers : Busy(v) => v = w
    BY <1>1, Zenon DEF CInv, VInv, Single
  <2> QED
    BY <1>3, <2>1, Zenon DEF Busy
<1>5. \A x, y : Before(x, y)' <=> Before(x, y)
  BY BeforeSame, Zenon
<1>6. TakenOnce' /\ LogInOrder' /\ QueueInOrder'
  BY <1>5, Zenon DEF CInv, OInv, TakenOnce, LogInOrder, QueueInOrder, Sorted, AllBefore
<1>7. /\ ListInOrder(b)
      /\ AllBefore(Members(landed), Past(Placing(w), Reached(w)))
  BY <1>1, Zenon DEF CInv, OInv, FlightInOrder
<1>8. ASSUME thread[w].st \in {"ok", "failed"}
      PROVE  AllBefore(Members(landed), Members(Placing(w)))
  <2>1. Reached(w) = 0
    BY <1>8 DEF Reached
  <2>2. \A i \in DOMAIN Placing(w) : 0 < i
    BY <1>1, SMT
  <2>3. Past(Placing(w), 0) = Members(Placing(w))
    BY <2>2, Zenon DEF Past, Members
  <2> QED
    BY <1>7, <2>1, <2>3, Zenon
<1>9. FlightInOrder'
  <2>1. ASSUME Busy(w)'
        PROVE  ListInOrder(b)' /\ Reached(w)' = Reached(w) /\ Placing(w)' = Placing(w)
               /\ thread'[w].batch = b
    <3>1. /\ timedOut' /\ thread'[w].batch = b /\ thread'[w].st = thread[w].st
          /\ thread'[w].placed = thread[w].placed
      BY <1>3, <2>1, Zenon DEF Busy
    <3> QED
      BY <1>5, <1>7, <3>1, Zenon DEF ListInOrder, Sorted, AllBefore, Reached, Placing
  <2> QED
    BY <1>4, <1>5, <1>7, <2>1, Zenon DEF FlightInOrder, AllBefore
<1>10. ParkedInOrder'
  <2> SUFFICES ASSUME retry' # NoBatch, ~timedOut'
               PROVE  /\ ListInOrder(retry)'
                      /\ AllBefore(Members(landed), Members(content[retry]))'
    BY Zenon DEF ParkedInOrder
  <2>1. retry' = b /\ failed' = failed
    BY <1>1, Zenon DEF KeepOrLose
  <2>2. ListInOrder(b)' /\ AllBefore(Members(landed), Members(content[b]))
    BY <1>1, <1>2, <1>5, <1>7, <1>8, <2>1, Zenon DEF ListInOrder, Sorted, AllBefore
  <2> QED
    BY <1>5, <2>1, <2>2, Zenon DEF ListInOrder, Sorted, AllBefore
<1>11. ASSUME thread[w].st \in {"ok", "failed"}
       PROVE  Members(Placing(w)) \cap Members(landed) = {}
  <2>1. \A x : ~Before(x, x)
    BY <1>1, NeverBeforeItself DEF CInv, OInv
  <2>2. AllBefore(Members(landed), Members(Placing(w)))
    BY <1>8, <1>11
  <2> QED
    BY <2>1, <2>2 DEF AllBefore
<1> QED
  BY <1>1, <1>2, <1>6, <1>7, <1>9, <1>10, <1>11, Zenon DEF OInv, ListInOrder

-----------------------------------------------------------------------------
(* The thread.                                                             *)

LEMMA WorkInOrder ==
  ASSUME CInv, NEW w \in Workers, Busy(w), NEW n \in Nat,
         NEW u, thread' = [thread EXCEPT ![w] = u],
         u.st # "idle" => u.batch = thread[w].batch,
         UNCHANGED <<queue, retry, accepted, failed, timedOut>>,
         LogInOrder', AllBefore(Members(landed'), Members(queue)),
         AllBefore(Members(landed'), Past(Placing(w), n)),
         \/ content' = content /\ Reached(w)' = n
         \/ /\ content' = [content EXCEPT ![thread[w].batch] =
                             SubSeq(Placing(w), n + 1, Len(Placing(w)))]
  PROVE  OInv'
<1> PICK b \in Batches : b = thread[w].batch
  BY Known, Zenon DEF CInv
<1> PICK s \in Seq(Lines) : s = content[b]
  BY Known DEF CInv
<1>1. s = Placing(w)
  BY Zenon DEF Placing
<1>2. \A v \in Workers : thread'[v] = IF v = w THEN u ELSE thread[v]
  BY Known, Zenon DEF CInv
<1>3. \A v \in Workers : Busy(v)' => v = w
  <2>1. \A v \in Workers : Busy(v) => v = w
    BY Zenon DEF CInv, VInv, Single
  <2> QED
    BY <1>2, <2>1, Zenon DEF Busy
<1>4. \A x, y : Before(x, y)' <=> Before(x, y)
  BY BeforeSame, Zenon
<1>5. TakenOnce' /\ QueueInOrder'
  BY <1>4, Zenon DEF CInv, OInv, TakenOnce, QueueInOrder, Sorted, AllBefore
<1>6. ParkedInOrder'
  <2>1. ~timedOut => retry = NoBatch
    BY Known, Zenon DEF CInv, VInv, Control, Watched
  <2> QED
    BY <2>1, Zenon DEF ParkedInOrder
<1>7. ListInOrder(b)
  BY Zenon DEF CInv, OInv, FlightInOrder
<1>8. ASSUME Busy(w)'
      PROVE  thread'[w].batch = b /\ Placing(w)' = content'[b]
  BY <1>2, <1>8, Zenon DEF Busy, Placing
<1>9. CASE content' = content /\ Reached(w)' = n
  <2>1. ListInOrder(b)'
    BY <1>4, <1>7, <1>9, Zenon DEF ListInOrder, Sorted, AllBefore
  <2>2. AllBefore(Members(landed'), Past(content'[b], n))
    BY <1>1, <1>9, Zenon
  <2>3. FlightInOrder'
    BY <1>3, <1>4, <1>8, <1>9, <2>1, <2>2, Zenon DEF FlightInOrder, AllBefore
  <2> QED
    BY <1>5, <1>6, <2>3, Zenon DEF OInv
<1>10. CASE content' = [content EXCEPT ![b] = SubSeq(s, n + 1, Len(s))]
  <2> DEFINE r == SubSeq(s, n + 1, Len(s))
  <2>1. content'[b] = r
    BY <1>1, <1>10, Known, Zenon DEF CInv
  <2>2. /\ DOMAIN r \subseteq Nat \ {0}
        /\ \A i \in DOMAIN r : n + i \in DOMAIN s /\ r[i] = s[n + i]
    BY RestAt
  <2>3. Sorted(r) /\ Members(r) \subseteq Members(s) /\ Members(r) \subseteq Past(s, n)
    <3>1. Sorted(s) /\ DOMAIN r \subseteq Int /\ n \in Int /\ n \in Nat
      BY <1>1, <1>7, <2>2 DEF ListInOrder
    <3> HIDE DEF r
    <3> QED
      BY <2>2, <3>1, SortedPiece
  <2> HIDE DEF r
  <2>4. ListInOrder(b)'
    <3>1. Members(content[b]) \cap failed = {} => Members(r) \cap failed' = {}
      BY <1>1, <2>3
    <3> QED
      BY <1>1, <1>4, <1>7, <2>1, <2>3, <3>1, Zenon DEF ListInOrder, Sorted, AllBefore
  <2>5. Past(r, Reached(w)') \subseteq Past(s, n)
    BY <2>3, Zenon DEF Past, Members
  <2>6. FlightInOrder'
    BY <1>1, <1>3, <1>4, <1>8, <2>1, <2>4, <2>5, Zenon DEF FlightInOrder, AllBefore
  <2> QED
    BY <1>5, <1>6, <2>6, Zenon DEF OInv
<1> QED
  BY <1>1, <1>9, <1>10

\* The first k lines of a segment reach the file: they follow what is there, and
\* come before what is left.
LEMMA LandInOrder ==
  ASSUME CInv, NEW w \in Workers, thread[w].st = "writing",
         NEW k \in Nat, k <= Len(thread[w].segment), NEW piece, LandLines(w, k, piece),
         accepted' = accepted
  PROVE  /\ LogInOrder' /\ AllBefore(Members(landed'), Members(queue))
         /\ AllBefore(Members(landed'), Past(Placing(w), thread[w].placed + k))
         /\ thread[w].placed + k \in Nat
         /\ \E r \in Seq(Lines) : /\ landed' = landed \o r /\ Len(r) = k
                                  /\ ~timedOut => Members(r) \cap failed = {}
<1> DEFINE p == thread[w].placed
           g == thread[w].segment
           s == Placing(w)
           r == SubSeq(g, 1, k)
<1>1. Busy(w) /\ "writing" \in {"running", "writing"}
  BY DEF Busy
<1>2. /\ p \in Nat /\ g \in Seq(Lines) /\ s \in Seq(Lines) /\ landed \in Seq(Lines)
      /\ queue \in Seq(Lines)
  BY <1>1, Known DEF CInv, ThreadRecord, Placing
<1>3. /\ p + Len(g) <= Len(s) /\ \A i \in 1..Len(g) : g[i] = s[p + i]
  BY <1>1, Zenon DEF CInv, VInv, Works, Progress, Behind, InFront
<1>4. landed' = landed \o r
  BY Zenon DEF LandLines
<1>5. /\ ListInOrder(thread[w].batch) /\ s = content[thread[w].batch]
      /\ AllBefore(Members(landed), Past(s, p))
  <2>1. Reached(w) = p
    BY <1>1, Zenon DEF Reached
  <2> QED
    BY <1>1, <2>1, Zenon DEF CInv, OInv, FlightInOrder, Placing
<1> HIDE DEF p, g, s
<1>6. /\ r \in Seq(Lines) /\ Len(r) = k /\ DOMAIN r = 1..k
      /\ \A i \in 1..k : p + i \in DOMAIN s /\ r[i] = s[p + i]
  <2>1. k <= Len(g) /\ k \in Nat
    BY DEF g
  <2>2. r \in Seq(Lines) /\ Len(r) = k /\ DOMAIN r = 1..k /\ \A i \in 1..k : r[i] = g[i]
    BY <1>2, <2>1, SMT
  <2>3. DOMAIN s = 1..Len(s) /\ Len(s) \in Nat /\ Len(g) \in Nat
    BY <1>2
  <2> HIDE DEF r
  <2>4. \A i \in 1..k : i \in 1..Len(g) /\ p + i \in 1..Len(s)
    BY <1>2, <1>3, <2>1, <2>3, SMT
  <2> QED
    BY <1>3, <2>2, <2>3, <2>4, Zenon
<1> HIDE DEF r
<1>7. Sorted(r) /\ Members(r) \subseteq Members(s) /\ Members(r) \subseteq Past(s, p)
  <2>1. Sorted(s) /\ DOMAIN r \subseteq Int /\ p \in Int /\ DOMAIN r \subseteq Nat \ {0}
    BY <1>2, <1>5, <1>6 DEF ListInOrder
  <2> QED
    BY <1>2, <1>6, <2>1, SortedPiece, Zenon
<1>8. \A x, y : Before(x, y)' <=> Before(x, y)
  BY BeforeSame, Zenon
<1>9. Sorted(landed')
  <2>1. Sorted(landed) /\ AllBefore(Members(landed), Members(r))
    BY <1>5, <1>7, Zenon DEF CInv, OInv, LogInOrder, AllBefore
  <2> QED
    BY <1>2, <1>4, <1>6, <1>7, <2>1, SortedJoin, Zenon
<1>10. \A x \in Members(landed') : x \in Members(landed) \/ x \in Members(r)
  <2>1. /\ DOMAIN landed' = 1..(Len(landed) + k) /\ DOMAIN landed = 1..Len(landed)
        /\ \A i \in 1..(Len(landed) + k) :
             landed'[i] = IF i <= Len(landed) THEN landed[i] ELSE r[i - Len(landed)]
    BY <1>2, <1>4, <1>6, Joined, Zenon
  <2>2. \A i \in 1..(Len(landed) + k) : i \in 1..Len(landed) \/ (~(i <= Len(landed)) /\ i - Len(landed) \in 1..k)
    BY <1>2, SMT
  <2>3. \A i \in 1..Len(landed) : i <= Len(landed)
    BY <1>2, SMT
  <2>4. ASSUME NEW i \in 1..(Len(landed) + k)
        PROVE  landed'[i] \in Members(landed) \/ landed'[i] \in Members(r)
    <3>1. CASE i \in 1..Len(landed)
      BY <2>1, <2>3, <3>1, Zenon DEF Members
    <3>2. CASE ~(i <= Len(landed)) /\ i - Len(landed) \in 1..k
      BY <1>6, <2>1, <3>2, Zenon DEF Members
    <3> QED
      BY <2>2, <3>1, <3>2
  <2> QED
    BY <2>1, <2>4, Zenon DEF Members
<1>11. LogInOrder'
  <2>1. Members(landed) \subseteq Members(accepted) /\ Members(r) \subseteq Members(accepted)
    BY <1>5, <1>7, Zenon DEF CInv, OInv, LogInOrder, ListInOrder
  <2> QED
    BY <1>8, <1>9, <1>10, <2>1, Zenon DEF LogInOrder, Sorted
<1>12. AllBefore(Members(landed'), Members(queue))
  BY <1>5, <1>7, <1>10, Zenon DEF CInv, OInv, QueueInOrder, ListInOrder, AllBefore
<1>13. AllBefore(Members(landed'), Past(s, p + k))
  <2>1. \A j \in DOMAIN s : p + k < j => p < j /\ \A i \in 1..k : p + i < j
    BY <1>2, SMT
  <2>2. AllBefore(Members(landed), Past(s, p + k))
    BY <1>5, <2>1, Zenon DEF AllBefore, Past
  <2>3. ASSUME NEW i \in 1..k, NEW j \in DOMAIN s, p + k < j
        PROVE  Before(r[i], s[j])
    BY <1>5, <1>6, <2>1, <2>3, Zenon DEF ListInOrder, Sorted
  <2>4. AllBefore(Members(r), Past(s, p + k))
    BY <1>6, <2>3, Zenon DEF AllBefore, Past, Members
  <2> QED
    BY <1>10, <2>2, <2>4, Zenon DEF AllBefore
<1>14. ~timedOut => Members(r) \cap failed = {}
  BY <1>5, <1>7 DEF ListInOrder
<1>15. p + k \in Nat
  BY <1>2
<1> QED
  BY <1>4, <1>6, <1>11, <1>12, <1>13, <1>14, <1>15, Zenon DEF p, s

-----------------------------------------------------------------------------
(* Each step keeps the order and is a step of the contract, or none.       *)

Lost == failed \cap Members(accepted)
Implemented == [Contract!Next]_(Contract!vars)
Kept == OInv' /\ Implemented

LEMMA Stutters ==
  ASSUME UNCHANGED <<accepted, landed, closed, timedOut>>, Lost' = Lost
  PROVE  Implemented
<1>1. UNCHANGED Contract!vars
  BY Zenon DEF Contract!vars, Lost
<1> QED
  BY <1>1 DEF Implemented

LEMMA TakeIsAStep ==
  ASSUME CInv, NEW l \in Lines, l \notin Members(accepted), l \notin failed, ~closed,
         queue' = Append(queue, l), accepted' = Append(accepted, l),
         UNCHANGED <<retry, content, thread, landed, failed, timedOut, closed>>
  PROVE  Kept
<1>1. OInv'
  BY AppendInOrder, Zenon
<1>2. Members(accepted') = Members(accepted) \cup {l}
  <2>1. accepted \in Seq(Lines)
    BY Known DEF CInv
  <2> QED
    BY <2>1, AppendedMembers, Zenon
<1>3. Lost' = Lost
  BY <1>2 DEF Lost
<1>4. Contract!Take(l)
  BY <1>3, Zenon DEF Contract!Take, Contract!Elements, Members, Lost
<1>5. Contract!Next
  BY <1>4, Zenon DEF Contract!Next
<1> QED
  BY <1>1, <1>5 DEF Kept, Implemented

\* Steps that only count refused lines, or change no line at all.
LEMMA CalmIsNoStep ==
  ASSUME CInv, UNCHANGED <<queue, retry, content, accepted, landed, closed, timedOut>>,
         Lost' = Lost,
         \A w \in Workers : Busy(w)' => /\ Busy(w) /\ thread'[w].batch = thread[w].batch
                                        /\ Reached(w)' = Reached(w)
  PROVE  Kept
<1>1. \A x \in Members(accepted) : x \in failed' => x \in failed
  BY DEF Lost
<1>2. OInv'
  BY <1>1, CalmInOrder, Zenon
<1> QED
  BY <1>2, Stutters DEF Kept

LEMMA SubmitIsAStep ==
  ASSUME CInv, NEW l \in Lines, SubmitOnLoop(l) \/ SubmitOffLoop(l)
  PROVE  Kept
<1>1. /\ UNCHANGED <<retry, content, thread, pc, closed, timedOut, landed>>
      /\ l \notin Members(accepted) /\ l \notin failed
      /\ failed' = failed \/ (failed' = failed \cup {l} /\ queue' = queue /\ accepted' = accepted)
  BY Zenon DEF SubmitOnLoop, SubmitOffLoop, Unseen, DropUnserialisable, memory, lists, flow, life, logfile
<1>2. CASE queue' = queue /\ accepted' = accepted
  <2>1. Lost' = Lost
    BY <1>1, <1>2 DEF Lost
  <2>2. \A w \in Workers : Busy(w)' => /\ Busy(w) /\ thread'[w].batch = thread[w].batch
                                       /\ Reached(w)' = Reached(w)
    BY <1>1, Zenon DEF Busy, Reached
  <2> QED
    BY <1>1, <1>2, <2>1, <2>2, CalmIsNoStep, Zenon
<1>3. CASE ~(queue' = queue /\ accepted' = accepted)
  <2>1. failed' = failed /\ (Enqueue(l, TRUE) \/ Enqueue(l, FALSE))
    BY <1>3, Zenon DEF SubmitOnLoop, SubmitOffLoop, DropUnserialisable, memory
  <2>2. ~closed /\ queue' = Append(queue, l) /\ accepted' = Append(accepted, l)
    BY <1>3, <2>1, EnqueueEffect, Zenon
  <2> QED
    BY <1>1, <2>1, <2>2, TakeIsAStep, Zenon
<1> QED
  BY <1>2, <1>3

LEMMA DeliverIsAStep ==
  ASSUME CInv, DeliverHanded
  PROVE  Kept
<1> DEFINE l == Head(handed)
<1>1. l \in Lines /\ l \notin Members(accepted) /\ l \notin failed
  <2>1. handed \in Seq(Lines) /\ handed # <<>>
    BY Facts DEF CInv, DeliverHanded
  <2>2. l \in Lines /\ l = handed[1] /\ 1 \in DOMAIN handed
    BY <2>1, SMT
  <2>3. l \in Members(handed)
    BY <2>2, Zenon DEF Members
  <2> QED
    BY <2>2, <2>3, Zenon DEF CInv, AInv, HandedNew
<1>2. Enqueue(l, TRUE) /\ UNCHANGED <<retry, content, thread, closed, timedOut, landed, failed>>
  BY Zenon DEF DeliverHanded, lists, logfile
<1> HIDE DEF l
<1>3. CASE queue' = queue /\ accepted' = accepted
  <2>1. Lost' = Lost
    BY <1>2, <1>3, Zenon DEF Lost
  <2>2. \A w \in Workers : Busy(w)' => /\ Busy(w) /\ thread'[w].batch = thread[w].batch
                                       /\ Reached(w)' = Reached(w)
    BY <1>2, Zenon DEF Busy, Reached
  <2> QED
    BY <1>2, <1>3, <2>1, <2>2, CalmIsNoStep, Zenon
<1>4. CASE ~(queue' = queue /\ accepted' = accepted)
  <2>1. ~closed /\ queue' = Append(queue, l) /\ accepted' = Append(accepted, l)
    BY <1>2, <1>4, EnqueueEffect, Zenon
  <2> QED
    BY <1>1, <1>2, <2>1, TakeIsAStep, Zenon
<1> QED
  BY <1>3, <1>4

LEMMA FlowIsAStep ==
  ASSUME CInv,
         \/ Start \/ Wake \/ CloseBegin \/ Terminate \/ LoopEnds \/ UNCHANGED vars
         \/ \E a \in Actors : StartRound(a) \/ (NothingToTake(a) /\ TakeBatch(a))
  PROVE  Kept
<1>1. UNCHANGED <<queue, retry, content, thread, accepted, landed, failed, timedOut>>
  BY Zenon DEF Start, Wake, CloseBegin, Terminate, LoopEnds, StartRound, NothingToTake,
               TakeBatch, memory, lists, life, logfile, vars
<1>2. \A w \in Workers : Busy(w)' => /\ Busy(w) /\ thread'[w].batch = thread[w].batch
                                     /\ Reached(w)' = Reached(w)
  BY <1>1, Zenon DEF Busy, Reached
<1>3. Lost' = Lost
  BY <1>1, Zenon DEF Lost
<1>4. CASE closed' = closed
  BY <1>1, <1>2, <1>3, <1>4, CalmIsNoStep, Zenon
<1>5. CASE CloseBegin
  <2>1. OInv'
    BY <1>1, <1>2, CalmInOrder, Zenon
  <2>2. Contract!Stop
    BY <1>1, <1>3, <1>5, Zenon DEF Contract!Stop, CloseBegin, Lost
  <2>3. Contract!Next
    BY <2>2, Zenon DEF Contract!Next
  <2> QED
    BY <2>1, <2>3 DEF Kept, Implemented
<1>6. closed' = closed \/ CloseBegin
  BY Zenon DEF Start, Wake, Terminate, LoopEnds, StartRound, TakeBatch, life, vars
<1> QED
  BY <1>4, <1>5, <1>6

LEMMA TakeBatchIsNoStep ==
  ASSUME CInv, NEW a \in Actors, TakeBatch(a)
  PROVE  Kept
<1>1. CASE NothingToTake(a)
  BY <1>1, FlowIsAStep, Zenon
<1>2. CASE ~NothingToTake(a)
  <2>1. OInv'
    BY <1>2, TakeInOrder
  <2>2. UNCHANGED <<accepted, landed, closed, timedOut, failed>>
    BY Zenon DEF TakeBatch, life, logfile
  <2>3. Implemented
    BY <2>2, Stutters, Zenon DEF Lost
  <2> QED
    BY <2>1, <2>3 DEF Kept
<1> QED
  BY <1>1, <1>2

LEMMA ResumeIsAStep ==
  ASSUME CInv, NEW a \in Actors, ResumeWrite(a)
  PROVE  Kept
<1>1. PICK w \in Workers :
        /\ thread[w].owner = a
        /\ \/ thread[w].st = "ok" /\ retry' = retry /\ failed' = failed
           \/ thread[w].st = "failed" /\ KeepOrLose(thread[w].batch, thread[w].again)
        /\ thread' = [thread EXCEPT ![w] = IdleThread]
  BY Zenon DEF ResumeWrite
<1>2. Attached(w) /\ thread[w].st \in {"ok", "failed"}
  BY <1>1, SinkAssumption DEF Attached, Actors, Detached
<1>3. UNCHANGED <<queue, content, accepted, landed, closed, timedOut>>
  BY Zenon DEF ResumeWrite, lists, life, logfile
<1>4. /\ OInv'
      /\ Members(Placing(w)) \subseteq Members(accepted)
      /\ Members(Placing(w)) \cap Members(landed) = {}
  BY <1>1, <1>2, <1>3, IdleThreadType, ReleaseInOrder, Zenon
<1>5. CASE failed' = failed
  BY <1>3, <1>4, <1>5, Stutters, Zenon DEF Kept, Lost
<1>6. CASE failed' # failed
  <2>1. failed' = failed \cup Members(Placing(w))
    BY <1>1, <1>6, Zenon DEF KeepOrLose, Placing
  <2>2. Lost' = Lost \cup Members(Placing(w))
    BY <1>3, <1>4, <2>1 DEF Lost
  <2>3. Members(Placing(w)) \in SUBSET (Contract!Elements(accepted) \ Contract!Elements(landed))
    BY <1>4 DEF Contract!Elements, Members
  <2>4. Contract!Lose
    BY <1>3, <2>2, <2>3, Zenon DEF Contract!Lose, Lost
  <2>5. Contract!Next
    BY <2>4, Zenon DEF Contract!Next
  <2> QED
    BY <1>4, <2>5 DEF Kept, Implemented
<1> QED
  BY <1>5, <1>6

\* The timeout of close() is GiveUp: what it interrupts is parked or written off.
LEMMA TimeOutIsAStep ==
  ASSUME CInv, CloseTimesOut
  PROVE  Kept
<1>1. PICK d \in Actors : Unwind(d)
  <2>1. "run" \in Actors /\ "close" \in Actors
    BY DEF Actors
  <2> QED
    BY <2>1, Zenon DEF CloseTimesOut
<1>2. /\ UNCHANGED <<queue, content, accepted, landed, closed>> /\ timedOut' = TRUE
      /\ pc["close"] \in {"await", "lock", "write"}
  BY Zenon DEF CloseTimesOut, lists, logfile
<1>3. closed
  BY <1>2 DEF CInv, VInv, HInv, CloseIdle
<1>4. OInv' /\ \E D \in SUBSET Members(accepted) : Lost' = Lost \cup D
  <2>1. CASE pc[d] # "write"
    <3>1. UNCHANGED <<retry, failed, thread>>
      BY <1>1, <2>1, Zenon DEF Unwind
    <3>2. \A w \in Workers : Busy(w)' => /\ Busy(w) /\ thread'[w].batch = thread[w].batch
                                         /\ Reached(w)' = Reached(w)
      BY <3>1, Zenon DEF Busy, Reached
    <3>3. OInv'
      BY <1>2, <3>1, <3>2, CalmInOrder, Zenon
    <3>4. Lost' = Lost \cup {}
      BY <1>2, <3>1 DEF Lost
    <3> QED
      BY <3>3, <3>4
  <2>2. CASE pc[d] = "write"
    <3>1. PICK w \in Workers :
            /\ thread[w].owner = d
            /\ KeepOrLose(thread[w].batch, thread[w].again)
            /\ thread' = [thread EXCEPT ![w] =
                            IF @.st \in {"running", "writing"}
                            THEN [@ EXCEPT !.owner = Detached] ELSE IdleThread]
      BY <1>1, <2>2, Zenon DEF Unwind
    <3> DEFINE v == [thread[w] EXCEPT !.owner = Detached]
               u == IF thread[w].st \in {"running", "writing"} THEN v ELSE IdleThread
    <3>2. Attached(w)
      BY <3>1, SinkAssumption DEF Attached, Actors, Detached
    <3>3. thread' = [thread EXCEPT ![w] = u]
      BY <3>1, Known, Zenon DEF CInv
    <3>4. v.batch = thread[w].batch /\ v.st = thread[w].st /\ v.placed = thread[w].placed
      <4>1. thread[w] \in ThreadRecord
        BY Known DEF CInv
      <4> QED
        BY <4>1 DEF ThreadRecord
    <3> HIDE DEF v
    <3>5. u.st # "idle" => /\ u.batch = thread[w].batch /\ u.st = thread[w].st
                           /\ u.placed = thread[w].placed
      BY <3>4, IdleThreadType, Zenon
    <3> HIDE DEF u
    <3>6. OInv' /\ Members(Placing(w)) \subseteq Members(accepted)
      BY <1>2, <3>1, <3>2, <3>3, <3>5, ReleaseInOrder, Zenon
    <3>7. failed' = failed \/ failed' = failed \cup Members(Placing(w))
      BY <3>1, Zenon DEF KeepOrLose, Placing
    <3>8. Lost' = Lost \cup {} \/ Lost' = Lost \cup Members(Placing(w))
      BY <1>2, <3>6, <3>7 DEF Lost
    <3> QED
      BY <3>6, <3>8
  <2> QED
    BY <2>1, <2>2
<1>5. Contract!GiveUp
  BY <1>2, <1>3, <1>4, Zenon DEF Contract!GiveUp, Contract!Elements, Members, Lost
<1>6. Contract!Next
  BY <1>5, Zenon DEF Contract!Next
<1> QED
  BY <1>4, <1>6 DEF Kept, Implemented

\* A thread that is handed its list, or the next segment of it.
LEMMA StartOrBorrowIsNoStep ==
  ASSUME CInv, NEW w \in Workers, ThreadStarts(w) \/ BorrowForSegment(w)
  PROVE  Kept
<1>1. /\ UNCHANGED <<queue, retry, content, accepted, landed, failed, closed, timedOut>>
      /\ \E u : thread' = [thread EXCEPT ![w] = u]
  BY Zenon DEF ThreadStarts, BorrowForSegment, Step, memory, lists, flow, life, logfile
<1>2. Busy(w) /\ thread[w] \in ThreadRecord
  BY Known DEF ThreadStarts, BorrowForSegment, Step, Busy, CInv
<1>3. thread'[w].batch = thread[w].batch /\ Reached(w)' = Reached(w)
  <2>1. CASE ThreadStarts(w)
    <3> DEFINE n == Len(content[thread[w].batch])
               u == [thread[w] EXCEPT !.st = "running", !.total = n]
    <3>1. thread[w].st = "queued" /\ thread' = [thread EXCEPT ![w] = u]
      BY <2>1, Zenon DEF ThreadStarts, Step
    <3>2. thread[w].placed = 0
      BY <1>2, <3>1, Zenon DEF CInv, VInv, Works, Progress
    <3>3. u.batch = thread[w].batch /\ u.st = "running" /\ u.placed = thread[w].placed
      <4> HIDE DEF n
      <4> QED
        BY <1>2 DEF ThreadRecord
    <3> HIDE DEF u
    <3>4. thread'[w] = u
      BY <3>1, Known, Zenon DEF CInv
    <3> QED
      BY <3>1, <3>2, <3>3, <3>4 DEF Reached
  <2>2. CASE BorrowForSegment(w)
    <3> DEFINE u(g) == [thread[w] EXCEPT !.st = "writing", !.segment = g]
    <3>1. thread[w].st = "running" /\ \E g : thread' = [thread EXCEPT ![w] = u(g)]
      BY <2>2, Zenon DEF BorrowForSegment, Step
    <3>2. PICK g : thread' = [thread EXCEPT ![w] = u(g)]
      BY <3>1
    <3> DEFINE v == u(g)
    <3>3. v.batch = thread[w].batch /\ v.st = "writing" /\ v.placed = thread[w].placed
      BY <1>2 DEF ThreadRecord
    <3>4. thread'[w] = v
      <4> HIDE DEF v
      <4>1. thread' = [thread EXCEPT ![w] = v]
        BY <3>2 DEF v
      <4> QED
        BY <4>1, Known, Zenon DEF CInv
    <3> HIDE DEF v
    <3> QED
      BY <3>1, <3>3, <3>4 DEF Reached
  <2> QED
    BY <2>1, <2>2
<1>4. \A x \in Workers : Busy(x)' => /\ Busy(x) /\ thread'[x].batch = thread[x].batch
                                     /\ Reached(x)' = Reached(x)
  <2>1. \A x \in Workers : x # w => thread'[x] = thread[x]
    BY <1>1, Known, Zenon DEF CInv
  <2> QED
    BY <1>2, <1>3, <2>1, Zenon DEF Busy, Reached
<1>5. Lost' = Lost
  BY <1>1, Zenon DEF Lost
<1> QED
  BY <1>1, <1>4, <1>5, CalmIsNoStep, Zenon

\* Lines that reach the file are Write, unless there is none.
LEMMA LandingIsAStep ==
  ASSUME CInv, NEW w \in Workers, thread[w].st = "writing",
         NEW k \in Nat, k <= Len(thread[w].segment), NEW piece, LandLines(w, k, piece),
         UNCHANGED <<accepted, failed, closed, timedOut>>
  PROVE  Implemented
<1>1. /\ landed \in Seq(Lines) /\ Sorted(landed') /\ Members(landed') \subseteq Members(accepted)
      /\ accepted' = accepted
  BY LandInOrder, Known, BeforeSame, Zenon DEF CInv, LogInOrder, Sorted
<1>2. PICK r \in Seq(Lines) : /\ landed' = landed \o r /\ Len(r) = k
                              /\ ~timedOut => Members(r) \cap failed = {}
  BY LandInOrder, Zenon
<1>3. Lost' = Lost
  BY Zenon DEF Lost
<1>4. /\ DOMAIN landed' = 1..(Len(landed) + k) /\ DOMAIN landed = 1..Len(landed)
      /\ Len(landed') = Len(landed) + k /\ Len(landed) \in Nat
      /\ DOMAIN r = 1..k
      /\ \A i \in 1..(Len(landed) + k) :
           landed'[i] = IF i <= Len(landed) THEN landed[i] ELSE r[i - Len(landed)]
  <2>1. landed \in Seq(Lines) /\ landed' = landed \o r /\ Len(r) = k
    BY <1>1, <1>2
  <2> QED
    BY <2>1, Joined, Zenon
<1>5. CASE k = 0
  <2>1. landed' = landed
    BY <1>1, <1>2, <1>5, SMT
  <2> QED
    BY <1>3, <2>1, Stutters, Zenon
<1>6. CASE k # 0
  <2>1. Contract!Extends(landed')
    BY <1>4, <1>6, SMT DEF Contract!Extends
  <2>2. Contract!Ordered(landed')
    BY <1>1, Zenon DEF Contract!Ordered, Sorted, Before
  <2>3. timedOut \/ \A i \in DOMAIN landed' : landed'[i] \in Lost => i \in DOMAIN landed
    <3> SUFFICES ASSUME ~timedOut, NEW i \in DOMAIN landed', i \notin DOMAIN landed
                 PROVE  landed'[i] \notin Lost
      OBVIOUS
    <3>1. i - Len(landed) \in 1..k /\ landed'[i] = r[i - Len(landed)]
      BY <1>4, SMT
    <3>2. landed'[i] \in Members(r)
      BY <1>4, <3>1, Zenon DEF Members
    <3> QED
      BY <1>2, <3>2 DEF Lost
  <2>4. Contract!Write
    BY <1>1, <1>3, <2>1, <2>2, <2>3, Zenon DEF Contract!Write, Contract!Elements, Members, Lost
  <2>5. Contract!Next
    BY <2>4, Zenon DEF Contract!Next
  <2> QED
    BY <2>5 DEF Implemented
<1> QED
  BY <1>5, <1>6

LEMMA LandsIsAStep ==
  ASSUME CInv, NEW w \in Workers, SegmentLands(w)
  PROVE  Kept
<1> DEFINE t == thread[w]
           k == Len(t.segment)
           u == [t EXCEPT !.st = "running", !.segment = <<>>, !.placed = t.placed + k]
<1>1. /\ t.st = "writing" /\ LandLines(w, k, FALSE)
      /\ thread' = [thread EXCEPT ![w] = u]
      /\ UNCHANGED <<queue, retry, content, accepted, failed, closed, timedOut>>
  BY Zenon DEF SegmentLands, Step, memory, lists, flow, life
<1>2. Busy(w) /\ t \in ThreadRecord
  BY <1>1, Known DEF Busy, CInv
<1>3. k \in Nat /\ k <= k
  BY <1>2 DEF ThreadRecord
<1>4. /\ LogInOrder' /\ AllBefore(Members(landed'), Members(queue))
      /\ AllBefore(Members(landed'), Past(Placing(w), t.placed + k))
      /\ t.placed + k \in Nat
  BY <1>1, <1>3, LandInOrder, Zenon
<1>5. Implemented
  BY <1>1, <1>3, LandingIsAStep, Zenon
<1> HIDE DEF k
<1>6. u.batch = t.batch /\ u.st = "running" /\ u.placed = t.placed + k
  BY <1>2 DEF ThreadRecord
<1> HIDE DEF u
<1>7. Reached(w)' = t.placed + k
  <2>1. thread'[w] = u
    BY <1>1, Known, Zenon DEF CInv
  <2> QED
    BY <1>6, <2>1 DEF Reached
<1>8. OInv'
  BY <1>1, <1>2, <1>4, <1>6, <1>7, WorkInOrder, Zenon
<1> QED
  BY <1>5, <1>8 DEF Kept

\* `del batch[:placed]` and the end of the thread.
LEMMA LeaveInOrder ==
  ASSUME CInv, NEW w \in Workers, Busy(w), NEW placed \in Nat, NEW result, Leave(w, placed, result),
         UNCHANGED <<queue, retry, accepted, failed, timedOut>>,
         LogInOrder', AllBefore(Members(landed'), Members(queue)),
         AllBefore(Members(landed'), Past(Placing(w), placed))
  PROVE  OInv'
<1> DEFINE v == [thread[w] EXCEPT !.st = result, !.placed = placed, !.segment = <<>>]
           u == IF thread[w].owner = Detached THEN IdleThread ELSE v
<1>1. /\ thread[w] \in ThreadRecord /\ thread[w].batch \in Batches
  BY Known DEF CInv
<1>2. thread' = [thread EXCEPT ![w] = u]
  BY <1>1, Zenon DEF Leave
<1>3. content' = [content EXCEPT ![thread[w].batch] =
                    SubSeq(Placing(w), placed + 1, Len(Placing(w)))]
  BY <1>1, Known, Zenon DEF CInv, Leave, Placing
<1>4. v.batch = thread[w].batch
  BY <1>1 DEF ThreadRecord
<1> HIDE DEF v
<1>5. u.st # "idle" => u.batch = thread[w].batch
  BY <1>4, IdleThreadType, Zenon
<1> HIDE DEF u
<1> QED
  BY <1>2, <1>3, <1>5, WorkInOrder, Zenon

LEMMA FailsIsAStep ==
  ASSUME CInv, NEW w \in Workers, SegmentFails(w)
  PROVE  Kept
<1> DEFINE t == thread[w]
<1>1. PICK k \in 0..Len(t.segment), piece \in BOOLEAN :
         LandLines(w, k, piece) /\ Leave(w, Placed(t, k), "failed")
  BY Zenon DEF SegmentFails
<1>2. t.st = "writing" /\ UNCHANGED <<queue, retry, accepted, failed, closed, timedOut>>
  BY Zenon DEF SegmentFails, memory, flow, life
<1>3. Busy(w) /\ t \in ThreadRecord
  BY <1>2, Known DEF Busy, CInv
<1>4. k \in Nat /\ k <= Len(t.segment)
  BY <1>1, <1>3 DEF ThreadRecord
<1>5. /\ LogInOrder' /\ AllBefore(Members(landed'), Members(queue))
      /\ AllBefore(Members(landed'), Past(Placing(w), t.placed + k))
      /\ t.placed + k \in Nat
  BY <1>1, <1>2, <1>4, LandInOrder, Zenon
<1>6. Placed(t, k) = t.placed + k
  BY DEF Placed
<1>7. OInv'
  BY <1>1, <1>2, <1>3, <1>5, <1>6, LeaveInOrder, Zenon
<1>8. Implemented
  BY <1>1, <1>2, <1>4, LandingIsAStep, Zenon
<1> QED
  BY <1>7, <1>8 DEF Kept

LEMMA EndsIsNoStep ==
  ASSUME CInv, NEW w \in Workers, BatchDone(w) \/ BatchFails(w)
  PROVE  Kept
<1> DEFINE t == thread[w]
<1>1. /\ t.st = "running"
      /\ Leave(w, t.placed, "failed") \/ Leave(w, t.placed, "ok")
      /\ UNCHANGED <<queue, retry, accepted, failed, closed, timedOut, landed>>
  BY Zenon DEF BatchDone, BatchFails, memory, flow, life, logfile
<1>2. Busy(w) /\ t.placed \in Nat /\ Reached(w) = t.placed
  BY <1>1, Known DEF Busy, CInv, ThreadRecord, Reached
<1>3. /\ LogInOrder' /\ AllBefore(Members(landed'), Members(queue))
      /\ AllBefore(Members(landed'), Past(Placing(w), t.placed))
  BY <1>1, <1>2, BeforeSame, Zenon
  DEF CInv, OInv, LogInOrder, QueueInOrder, FlightInOrder, Sorted, AllBefore
<1>4. OInv'
  BY <1>1, <1>2, <1>3, LeaveInOrder, Zenon
<1>5. Implemented
  BY <1>1, Stutters, Zenon DEF Lost
<1> QED
  BY <1>4, <1>5 DEF Kept

-----------------------------------------------------------------------------

LEMMA OrderInit ==
  ASSUME Flushers = {}, Init
  PROVE  CInv /\ Contract!Init
<1>1. VInv /\ AInv
  BY LedgerInit, RetryInit
<1>2. \A w \in Workers : ~Busy(w)
  BY IdleThreadType DEF Init, Busy
<1>3. /\ DOMAIN accepted = {} /\ DOMAIN landed = {} /\ DOMAIN queue = {}
      /\ Members(landed) = {} /\ Members(queue) = {}
  BY DEF Init, Members
<1>4. OInv
  BY <1>2, <1>3, Zenon DEF Init, OInv, TakenOnce, LogInOrder, QueueInOrder, ParkedInOrder,
                           FlightInOrder, Sorted, AllBefore
<1>5. Contract!Init
  BY DEF Init, Contract!Init
<1> QED
  BY <1>1, <1>4, <1>5 DEF CInv

LEMMA OrderNext == CInv /\ [Next]_vars => CInv' /\ Implemented
<1> SUFFICES ASSUME CInv, [Next]_vars
             PROVE  CInv' /\ Implemented
  OBVIOUS
<1>1. VInv' /\ AInv' /\ Flushers = {}
  BY LedgerNext, RetryNext DEF CInv, VInv
<1> SUFFICES Kept
  BY <1>1 DEF CInv, Kept
<1>2. ASSUME NEW l \in Lines, SubmitOnLoop(l) \/ SubmitOffLoop(l)
      PROVE  Kept
  BY <1>2, SubmitIsAStep
<1>3. CASE LoopStep
  <2>1. ASSUME NEW a \in Actors, StartRound(a) \/ TakeBatch(a) \/ ResumeWrite(a)
        PROVE  Kept
    BY <2>1, TakeBatchIsNoStep, FlowIsAStep, ResumeIsAStep, Zenon
  <2> QED
    BY <1>3, <2>1, DeliverIsAStep, FlowIsAStep, Zenon DEF LoopStep
<1>4. ASSUME NEW w \in Workers, ThreadStep(w)
      PROVE  Kept
  BY <1>4, StartOrBorrowIsNoStep, LandsIsAStep, FailsIsAStep, EndsIsNoStep, Zenon DEF ThreadStep
<1>5. CASE CloseBegin \/ CloseTimesOut \/ LoopEnds \/ UNCHANGED vars
  BY <1>5, FlowIsAStep, TimeOutIsAStep, Zenon
<1> QED
  BY <1>1, <1>2, <1>3, <1>4, <1>5, Zenon DEF Next

\* The sink is a lossy log: it takes lines only while it is open, writes each at
\* most once and in the order it took them, retries included, and never writes off
\* a line it wrote, or writes one it wrote off, unless close() ran out of time.
THEOREM SinkKeepsContract == Flushers = {} => (Spec => KeepsContract)
<1> SUFFICES ASSUME Flushers = {}
             PROVE  Spec => KeepsContract
  OBVIOUS
<1>1. Init => CInv /\ Contract!Init
  BY OrderInit
<1>2. CInv /\ [Next]_vars => CInv' /\ [Contract!Next]_(Contract!vars)
  BY OrderNext DEF Implemented
<1> QED
  BY <1>1, <1>2, PTL DEF Spec, KeepsContract, Contract!Spec

-----------------------------------------------------------------------------
(* A close() in time leaves nothing behind.                                *)
(*                                                                         *)
(* Work counts the rounds that what is held can still take: two for the    *)
(* queue, which may fail and be retried, and one for a parked list.  From  *)
(* close() on nothing is added, so four rounds always are enough, and the  *)
(* drain does not end because its rounds are used up.                      *)

Work == (IF queue = <<>> THEN 0 ELSE 2) + (IF retry = NoBatch THEN 0 ELSE 1)
Extra(w) == IF thread[w].again THEN 0 ELSE 1

RoundsEnough ==
  /\ ~closed => rounds["run"] = 0
  /\ \A a \in Actors : closed /\ pc[a] \in {"round", "lock"} => Work = 0 \/ rounds[a] + Work <= 4
  /\ \A w \in Workers : closed /\ Attached(w) =>
       Work + Extra(w) = 0 \/ rounds[thread[w].owner] + Work + Extra(w) <= 3

Settled == queue = <<>> /\ retry = NoBatch /\ \A w \in Workers : ~Attached(w)
DrainedClean ==
  /\ pc["run"] \in {"round", "done"} => closed
  /\ ~timedOut => /\ pc["run"] = "done" \/ pc["close"] = "done" => Settled
                  /\ pc["close"] # "cancelled"
  /\ terminated => pc["close"] = "done"

SInv == VInv /\ Rounds >= 3 /\ RoundsEnough /\ DrainedClean

LEMMA SettledFacts ==
  ASSUME SInv
  PROVE  /\ pc \in [Actors -> PCs] /\ Actors = {"run", "close"}
         /\ rounds \in [Actors -> Int] /\ rounds["run"] \in Int /\ rounds["close"] \in Int
         /\ \A w \in Workers : Attached(w) => thread[w].owner \in Actors /\ pc[thread[w].owner] = "write"
                                              /\ retry = NoBatch
         /\ Work \in Int /\ Work >= 0 /\ \A w \in Workers : Extra(w) \in 0..1
         /\ Work = 0 <=> queue = <<>> /\ retry = NoBatch
         /\ Work <= 3 /\ (retry = NoBatch => Work <= 2)
         /\ ~closed => pc["close"] = "off"
         /\ thread \in [Workers -> ThreadRecord]
<1>1. rounds \in [Actors -> Int]
  BY SinkAssumption DEF SInv, VInv, HInv, TInv, TypeOK
<1>2. "run" \in Actors /\ "close" \in Actors
  BY DEF Actors
<1>3. /\ Work \in Int /\ Work >= 0 /\ Work <= 3 /\ (retry = NoBatch => Work <= 2)
      /\ Work = 0 <=> queue = <<>> /\ retry = NoBatch
  BY DEF Work
<1>4. \A w \in Workers : Extra(w) \in 0..1
  BY DEF Extra
<1> QED
  BY <1>1, <1>2, <1>3, <1>4, Known, Zenon DEF SInv, VInv, HInv, CloseIdle

\* Steps that move no coroutine and, once the sink is closed, no line.
LEMMA QuietSettles ==
  ASSUME SInv, VInv', UNCHANGED <<retry, pc, rounds, closed, timedOut, terminated>>,
         closed => queue' = queue,
         \A w \in Workers : Attached(w)' => /\ Attached(w) /\ thread'[w].owner = thread[w].owner
                                            /\ thread'[w].again = thread[w].again
  PROVE  SInv'
<1>1. closed => Work' = Work
  BY Zenon DEF Work
<1>2. \A w \in Workers : Attached(w)' => Extra(w)' = Extra(w)
  BY Zenon DEF Extra
<1>3. RoundsEnough'
  BY <1>1, <1>2, Zenon DEF SInv, RoundsEnough
<1>4. closed /\ Settled => Settled'
  BY Zenon DEF Settled
<1>5. pc["run"] = "done" \/ pc["close"] = "done" => closed
  BY SettledFacts DEF SInv, DrainedClean
<1>6. DrainedClean'
  BY <1>4, <1>5, Zenon DEF SInv, DrainedClean
<1> QED
  BY <1>3, <1>6 DEF SInv

\* After the timeout nobody drains any more.
LEMMA HurriedSettles ==
  ASSUME SInv, VInv', timedOut',
         terminated' => pc["close"]' = "done"
  PROVE  SInv'
<1>1. /\ closed' /\ pc["close"]' \in {"cancelled", "done"} /\ pc["run"]' \in {"off", "done"}
  BY Zenon DEF VInv, Control, Hurried
<1>2. Actors = {"run", "close"}
  BY SettledFacts
<1>3. \A w \in Workers : Attached(w)' => pc'[thread'[w].owner] = "write" /\ thread'[w].owner \in Actors
  BY DEF VInv, HInv, Owned, TInv, TypeOK, ThreadRecord, Attached
<1>4. RoundsEnough'
  BY <1>1, <1>2, <1>3 DEF RoundsEnough
<1> QED
  BY <1>1, <1>4, Zenon DEF SInv, DrainedClean

LEMMA EnqueuedWhenOpen ==
  ASSUME NEW l, NEW onLoop, Enqueue(l, onLoop)
  PROVE  closed => queue' = queue
  BY EnqueueEffect, Zenon

LEMMA SubmitSettles ==
  ASSUME SInv, VInv',
         DeliverHanded \/ \E l \in Lines : SubmitOnLoop(l) \/ SubmitOffLoop(l)
  PROVE  SInv'
<1>1. UNCHANGED <<retry, pc, rounds, thread, closed, timedOut, terminated>>
  BY Zenon DEF DeliverHanded, SubmitOnLoop, SubmitOffLoop, DropUnserialisable, memory, flow, life
<1>2. closed => queue' = queue
  BY EnqueuedWhenOpen, Zenon DEF DeliverHanded, SubmitOnLoop, SubmitOffLoop,
                                 DropUnserialisable, memory
<1>3. \A w \in Workers : Attached(w)' => /\ Attached(w) /\ thread'[w].owner = thread[w].owner
                                         /\ thread'[w].again = thread[w].again
  BY <1>1, Zenon DEF Attached
<1> QED
  BY <1>1, <1>2, <1>3, QuietSettles, Zenon

\* One thread goes on, for the same coroutine or for nobody.
LEMMA ThreadSettles ==
  ASSUME SInv, VInv', NEW w \in Workers, NEW u, thread' = [thread EXCEPT ![w] = u],
         u.owner = Detached \/ (u.owner = thread[w].owner /\ u.again = thread[w].again),
         UNCHANGED <<queue, retry, pc, rounds, closed, timedOut, terminated>>
  PROVE  SInv'
<1>1. thread \in [Workers -> ThreadRecord]
  BY SettledFacts
<1>2. \A v \in Workers : thread'[v] = IF v = w THEN u ELSE thread[v]
  BY <1>1, Zenon
<1>3. \A v \in Workers : Attached(v)' => /\ Attached(v) /\ thread'[v].owner = thread[v].owner
                                         /\ thread'[v].again = thread[v].again
  BY <1>2, Zenon DEF Attached
<1> QED
  BY <1>3, QuietSettles, Zenon

LEMMA LeaveSettles ==
  ASSUME SInv, VInv', NEW w \in Workers, NEW placed, NEW result, Leave(w, placed, result),
         UNCHANGED <<queue, retry, pc, rounds, closed, timedOut, terminated>>
  PROVE  SInv'
<1> DEFINE u == [thread[w] EXCEPT !.st = result, !.placed = placed, !.segment = <<>>]
<1>1. thread[w] \in ThreadRecord
  BY SettledFacts
<1>2. CASE thread[w].owner = Detached
  <2>1. thread' = [thread EXCEPT ![w] = IdleThread]
    BY <1>2, Zenon DEF Leave
  <2> QED
    BY <2>1, IdleThreadType, ThreadSettles, Zenon
<1>3. CASE thread[w].owner # Detached
  <2>1. thread' = [thread EXCEPT ![w] = u]
    BY <1>3, Zenon DEF Leave
  <2>2. u.owner = thread[w].owner /\ u.again = thread[w].again
    BY <1>1 DEF ThreadRecord
  <2> HIDE DEF u
  <2> QED
    BY <2>1, <2>2, ThreadSettles, Zenon
<1> QED
  BY <1>2, <1>3

LEMMA WorkerSettles ==
  ASSUME SInv, VInv', NEW w \in Workers, ThreadStep(w)
  PROVE  SInv'
<1>1. UNCHANGED <<queue, retry, pc, rounds, closed, timedOut, terminated>>
  BY Zenon DEF ThreadStep, ThreadStarts, BorrowForSegment, SegmentLands, SegmentFails,
               BatchDone, BatchFails, memory, flow, life
<1>2. thread[w] \in ThreadRecord
  BY SettledFacts
<1>3. CASE ThreadStarts(w)
  <2> DEFINE u == [thread[w] EXCEPT !.st = "running", !.total = Len(content[thread[w].batch])]
  <2>1. thread' = [thread EXCEPT ![w] = u]
    BY <1>3, Zenon DEF ThreadStarts, Step
  <2>2. u.owner = thread[w].owner /\ u.again = thread[w].again
    BY <1>2 DEF ThreadRecord
  <2> HIDE DEF u
  <2> QED
    BY <1>1, <2>1, <2>2, ThreadSettles, Zenon
<1>4. CASE BorrowForSegment(w)
  <2> DEFINE u(n) == [thread[w] EXCEPT !.st = "writing",
                        !.segment = SubSeq(content[thread[w].batch], thread[w].placed + 1,
                                           thread[w].placed + n)]
  <2>1. PICK n : thread' = [thread EXCEPT ![w] = u(n)]
    BY <1>4, Zenon DEF BorrowForSegment, Step
  <2>2. u(n).owner = thread[w].owner /\ u(n).again = thread[w].again
    BY <1>2 DEF ThreadRecord
  <2> HIDE DEF u
  <2> QED
    BY <1>1, <2>1, <2>2, ThreadSettles, Zenon
<1>5. CASE SegmentLands(w)
  <2> DEFINE u == [thread[w] EXCEPT !.st = "running", !.segment = <<>>,
                                    !.placed = @ + Len(thread[w].segment)]
  <2>1. thread' = [thread EXCEPT ![w] = u]
    BY <1>5, Zenon DEF SegmentLands, Step
  <2>2. u.owner = thread[w].owner /\ u.again = thread[w].again
    BY <1>2 DEF ThreadRecord
  <2> HIDE DEF u
  <2> QED
    BY <1>1, <2>1, <2>2, ThreadSettles, Zenon
<1>6. CASE SegmentFails(w) \/ BatchDone(w) \/ BatchFails(w)
  <2>1. PICK placed, result : Leave(w, placed, result)
    BY <1>6, Zenon DEF SegmentFails, BatchDone, BatchFails
  <2> QED
    BY <1>1, <2>1, LeaveSettles, Zenon
<1> QED
  BY <1>3, <1>4, <1>5, <1>6, Zenon DEF ThreadStep

LEMMA OneDrains ==
  ASSUME SInv, NEW a \in Actors, NEW b \in Actors,
         pc[a] \in {"round", "lock", "write"}, pc[b] \in {"round", "lock", "write"}
  PROVE  a = b
  BY SettledFacts DEF SInv, VInv, Control, FlushesItself

\* What lets a coroutine that waits for no thread go on to p with r rounds.
MayMove(a, p, r) ==
  /\ pc[a] \notin {"write", "done"} /\ p \notin {"write", "cancelled"} /\ r \in Int
  /\ a = "run" /\ ~closed => r = 0 /\ p \notin {"round", "done"}
  /\ p \in {"round", "lock"} => Work = 0 \/ r + Work <= 4
  /\ p = "done" => Settled

LEMMA MoveSettles ==
  ASSUME SInv, VInv', NEW a \in Actors, NEW p, NEW r,
         pc' = [pc EXCEPT ![a] = p], rounds' = [rounds EXCEPT ![a] = r],
         MayMove(a, p, r),
         UNCHANGED <<queue, retry, thread, closed, timedOut, terminated>>
  PROVE  SInv'
<1>1. /\ \A c \in Actors : pc'[c] = (IF c = a THEN p ELSE pc[c])
      /\ \A c \in Actors : rounds'[c] = (IF c = a THEN r ELSE rounds[c])
      /\ "run" \in Actors /\ "close" \in Actors
  BY SettledFacts, Zenon
<1>2. /\ Work' = Work /\ Settled' = Settled
      /\ \A w \in Workers : Extra(w)' = Extra(w) /\ Attached(w)' = Attached(w)
  BY Zenon DEF Work, Settled, Extra, Attached
<1>3. ~closed' => rounds["run"]' = 0
  BY <1>1, Zenon DEF SInv, RoundsEnough, MayMove
<1>4. ASSUME NEW c \in Actors, closed', pc[c]' \in {"round", "lock"}
      PROVE  Work' = 0 \/ rounds[c]' + Work' <= 4
  BY <1>1, <1>2, <1>4, Zenon DEF SInv, RoundsEnough, MayMove
<1>5. ASSUME NEW w \in Workers, closed', Attached(w)'
      PROVE  Work' + Extra(w)' = 0 \/ rounds'[thread'[w].owner] + Work' + Extra(w)' <= 3
  <2>1. Attached(w) /\ thread[w].owner \in Actors /\ thread[w].owner # a
    BY <1>2, <1>5, SettledFacts, Zenon DEF MayMove
  <2> QED
    BY <1>1, <1>2, <1>5, <2>1, Zenon DEF SInv, RoundsEnough
<1>6. RoundsEnough'
  BY <1>3, <1>4, <1>5, Zenon DEF RoundsEnough
<1>7. DrainedClean'
  <2>1. pc["run"]' \in {"round", "done"} => closed'
    BY <1>1, Zenon DEF SInv, DrainedClean, MayMove
  <2>2. ~timedOut' /\ (pc["run"]' = "done" \/ pc["close"]' = "done") => Settled'
    BY <1>1, <1>2, Zenon DEF SInv, DrainedClean, MayMove
  <2>3. ~timedOut' => pc["close"]' # "cancelled"
    BY <1>1, Zenon DEF SInv, DrainedClean, MayMove
  <2>4. terminated' => pc["close"]' = "done"
    BY <1>1, Zenon DEF SInv, DrainedClean, MayMove
  <2> QED
    BY <2>1, <2>2, <2>3, <2>4, Zenon DEF DrainedClean
<1> QED
  BY <1>6, <1>7 DEF SInv

LEMMA StillSettles ==
  ASSUME SInv, VInv', UNCHANGED <<queue, retry, thread, pc, rounds, closed, timedOut, terminated>>
  PROVE  SInv'
<1>1. \A w \in Workers : Attached(w)' => /\ Attached(w) /\ thread'[w].owner = thread[w].owner
                                         /\ thread'[w].again = thread[w].again
  BY Zenon DEF Attached
<1> QED
  BY <1>1, QuietSettles, Zenon

LEMMA StartSettles ==
  ASSUME SInv, VInv', Start
  PROVE  SInv'
<1>1. UNCHANGED <<queue, retry, thread, rounds, closed, timedOut, terminated>>
  BY Zenon DEF Start, memory
<1>2. CASE ~closed /\ pc["run"] = "off" /\ pc' = [pc EXCEPT !["run"] = "sleep"]
  <2>1. "run" \in Actors /\ rounds["run"] = 0 /\ rounds' = [rounds EXCEPT !["run"] = rounds["run"]]
    BY <1>1, <1>2, SettledFacts, Zenon DEF SInv, RoundsEnough
  <2>2. MayMove("run", "sleep", rounds["run"])
    BY <1>2, <2>1 DEF MayMove
  <2> QED
    BY <1>1, <1>2, <2>1, <2>2, MoveSettles, Zenon
<1>3. CASE pc' = pc
  BY <1>1, <1>3, StillSettles, Zenon
<1> QED
  BY <1>2, <1>3, Zenon DEF Start

LEMMA WakeSettles ==
  ASSUME SInv, VInv', Wake
  PROVE  SInv'
<1>1. UNCHANGED <<queue, retry, thread, closed, timedOut, terminated>>
  BY Zenon DEF Wake, memory, life
<1>2. "run" \in Actors /\ pc["run"] = "sleep" /\ Work \in Int /\ Work <= 3
  BY SettledFacts DEF Wake
<1>3. CASE closed
  <2>1. pc' = [pc EXCEPT !["run"] = "round"] /\ rounds' = [rounds EXCEPT !["run"] = 1]
    BY <1>3, Zenon DEF Wake
  <2>2. MayMove("run", "round", 1)
    BY <1>2, <1>3 DEF MayMove
  <2> QED
    BY <1>1, <1>2, <2>1, <2>2, MoveSettles, Zenon
<1>4. CASE ~closed
  <2>1. pc' = [pc EXCEPT !["run"] = "lock"] /\ rounds' = [rounds EXCEPT !["run"] = 0]
    BY <1>4, Zenon DEF Wake
  <2>2. MayMove("run", "lock", 0)
    BY <1>2 DEF MayMove
  <2> QED
    BY <1>1, <1>2, <2>1, <2>2, MoveSettles, Zenon
<1> QED
  BY <1>3, <1>4

LEMMA RoundSettles ==
  ASSUME SInv, VInv', NEW a \in Actors, StartRound(a)
  PROVE  SInv'
<1>1. UNCHANGED <<queue, retry, thread, closed, timedOut, terminated>>
  BY Zenon DEF StartRound, memory, life
<1>2. /\ pc[a] = "round" /\ closed
  BY SettledFacts DEF StartRound, SInv, VInv, Control, FlushesItself, DrainedClean
<1>3. rounds[a] \in Int /\ Work \in Int /\ Work >= 0 /\ (Work = 0 \/ rounds[a] + Work <= 4)
  BY <1>2, SettledFacts, Zenon DEF SInv, RoundsEnough
<1>4. CASE NothingHeld \/ rounds[a] > Rounds
  <2>1. pc' = [pc EXCEPT ![a] = "done"] /\ rounds' = [rounds EXCEPT ![a] = 0]
    BY <1>4, Zenon DEF StartRound
  <2>2. Work = 0
    <3>1. CASE NothingHeld
      BY <3>1, SettledFacts, Zenon DEF NothingHeld
    <3>2. CASE rounds[a] > Rounds
      BY <1>3, <3>2, SinkAssumption DEF SInv
    <3> QED
      BY <1>4, <3>1, <3>2
  <2>3. Settled
    <3>1. queue = <<>> /\ retry = NoBatch
      BY <2>2, SettledFacts, Zenon
    <3>2. ASSUME NEW w \in Workers, Attached(w)
          PROVE  FALSE
      <4>1. thread[w].owner \in Actors /\ pc[thread[w].owner] = "write"
        BY <3>2, SettledFacts, Zenon
      <4>2. thread[w].owner = a
        BY <1>2, <4>1, OneDrains
      <4> QED
        BY <1>2, <4>1, <4>2
    <3> QED
      BY <3>1, <3>2, Zenon DEF Settled
  <2>4. MayMove(a, "done", 0)
    BY <1>2, <2>3 DEF MayMove
  <2> QED
    BY <1>1, <2>1, <2>4, MoveSettles, Zenon
<1>5. CASE ~(NothingHeld \/ rounds[a] > Rounds)
  <2>1. pc' = [pc EXCEPT ![a] = "lock"] /\ rounds' = [rounds EXCEPT ![a] = rounds[a]]
    BY <1>5, Zenon DEF StartRound
  <2>2. MayMove(a, "lock", rounds[a])
    BY <1>2, <1>3 DEF MayMove
  <2> QED
    BY <1>1, <2>1, <2>2, MoveSettles, Zenon
<1> QED
  BY <1>4, <1>5

LEMMA NothingSettles ==
  ASSUME SInv, VInv', NEW a \in Actors, TakeBatch(a), NothingToTake(a)
  PROVE  SInv'
<1>1. UNCHANGED <<queue, retry, thread, closed, timedOut, terminated>>
  BY Zenon DEF TakeBatch, NothingToTake, life
<1>2. pc[a] = "lock" /\ Work = 0 /\ rounds[a] \in Int /\ (a = "close" => closed)
  BY SettledFacts DEF TakeBatch, NothingToTake, SInv, VInv, Control, FlushesItself
<1>3. ~closed => a = "run" /\ rounds[a] = 0
  BY <1>2, SettledFacts DEF SInv, RoundsEnough
<1>4. CASE rounds[a] > 0 \/ closed
  <2>1. pc' = [pc EXCEPT ![a] = "round"] /\ rounds' = [rounds EXCEPT ![a] = rounds[a] + 1]
    BY <1>4, Zenon DEF NothingToTake, AfterRound
  <2>2. MayMove(a, "round", rounds[a] + 1)
    BY <1>2, <1>3, <1>4 DEF MayMove
  <2> QED
    BY <1>1, <2>1, <2>2, MoveSettles, Zenon
<1>5. CASE ~(rounds[a] > 0 \/ closed)
  <2>1. pc' = [pc EXCEPT ![a] = "sleep"] /\ rounds' = [rounds EXCEPT ![a] = 0]
    BY <1>5, Zenon DEF NothingToTake, AfterRound
  <2>2. MayMove(a, "sleep", 0)
    BY <1>2 DEF MayMove
  <2> QED
    BY <1>1, <2>1, <2>2, MoveSettles, Zenon
<1> QED
  BY <1>4, <1>5

LEMMA BeginSettles ==
  ASSUME SInv, VInv', CloseBegin
  PROVE  SInv'
<1> DEFINE p == IF pc["run"] = "off" THEN "round" ELSE "await"
           r == IF pc["run"] = "off" THEN 1 ELSE 0
<1>1. /\ UNCHANGED <<queue, retry, thread, timedOut, terminated>> /\ closed' /\ ~closed
      /\ pc' = [pc EXCEPT !["close"] = p] /\ rounds' = [rounds EXCEPT !["close"] = r]
  BY Zenon DEF CloseBegin, memory
<1>2. /\ pc["close"] = "off" /\ rounds["run"] = 0 /\ pc["run"] \notin {"round", "done"}
      /\ ~terminated
  BY <1>1, SettledFacts DEF SInv, RoundsEnough, DrainedClean
<1>3. /\ Work' = Work
      /\ \A w \in Workers : Extra(w)' = Extra(w) /\ Attached(w)' = Attached(w)
  BY <1>1, Zenon DEF Work, Extra, Attached
<1>4. /\ pc'["run"] = pc["run"] /\ pc'["close"] = p
      /\ rounds'["run"] = 0 /\ rounds'["close"] = r
  <2>1. "run" \in Actors /\ "close" \in Actors /\ "run" # "close"
    BY SettledFacts
  <2> HIDE DEF p, r
  <2> QED
    BY <1>1, <1>2, <2>1, SettledFacts, Zenon
<1>5. ASSUME NEW a \in Actors, pc[a]' \in {"round", "lock"}
      PROVE  rounds[a]' + Work' <= 4
  BY <1>2, <1>3, <1>4, <1>5, SettledFacts
<1>6. ASSUME NEW w \in Workers, Attached(w)'
      PROVE  rounds'[thread'[w].owner] + Work' + Extra(w)' <= 3
  <2>1. /\ thread[w].owner \in Actors /\ pc[thread[w].owner] = "write" /\ retry = NoBatch
    BY <1>3, <1>6, SettledFacts, Zenon
  <2>2. thread'[w].owner = "run"
    BY <1>1, <1>2, <2>1, SettledFacts
  <2>3. Work' \in Int /\ Work' <= 2 /\ Extra(w)' \in 0..1
    BY <1>3, <2>1, SettledFacts
  <2> QED
    BY <1>4, <2>2, <2>3
<1>7. RoundsEnough'
  BY <1>1, <1>5, <1>6, Zenon DEF RoundsEnough
<1>8. DrainedClean'
  BY <1>1, <1>2, <1>4 DEF DrainedClean
<1> QED
  BY <1>7, <1>8 DEF SInv

LEMMA TerminateSettles ==
  ASSUME SInv, VInv', Terminate
  PROVE  SInv'
<1>1. /\ UNCHANGED <<queue, retry, thread, rounds, timedOut, closed>> /\ closed /\ terminated'
      /\ pc' = [pc EXCEPT !["close"] = "done"] /\ Drained
  BY Zenon DEF Terminate, memory
<1>2. "close" \in Actors /\ "run" \in Actors /\ "run" # "close"
  BY SettledFacts
<1>3. \A a \in Actors : pc'[a] = IF a = "close" THEN "done" ELSE pc[a]
  BY <1>1, SettledFacts, Zenon
<1>4. pc'["close"] = "done" /\ pc'["run"] = pc["run"]
  BY <1>2, <1>3
<1>5. CASE timedOut
  BY <1>1, <1>4, <1>5, HurriedSettles, Zenon
<1>6. CASE ~timedOut
  <2>1. Settled
    BY <1>1, <1>6 DEF Drained, SInv, DrainedClean
  <2>2. Settled' /\ Work' = Work /\ \A w \in Workers : ~Attached(w)'
    BY <1>1, <2>1, Zenon DEF Settled, Work, Attached
  <2>3. RoundsEnough'
    BY <1>1, <2>1, <2>2, SettledFacts, Zenon DEF RoundsEnough, Settled
  <2>4. DrainedClean'
    BY <1>1, <1>4, <2>2 DEF DrainedClean
  <2> QED
    BY <2>3, <2>4 DEF SInv
<1> QED
  BY <1>5, <1>6

LEMMA EndSettles ==
  ASSUME SInv, VInv', LoopEnds \/ UNCHANGED vars
  PROVE  SInv'
<1>1. UNCHANGED <<queue, retry, thread, pc, rounds, closed, timedOut, terminated>>
  BY Zenon DEF LoopEnds, memory, flow, life, vars
<1> QED
  BY <1>1, StillSettles, Zenon

LEMMA TakeSettles ==
  ASSUME SInv, VInv', NEW a \in Actors, TakeBatch(a), ~NothingToTake(a)
  PROVE  SInv'
<1>1. /\ LockFree /\ pc[a] = "lock" /\ UNCHANGED <<rounds, closed, timedOut, terminated>>
  BY Zenon DEF TakeBatch, TakeRetry, TakeQueue, life
<1>2. PICK w, b, again : /\ thread' = [thread EXCEPT ![w] = Queued(a, b, again)]
                         /\ pc' = [pc EXCEPT ![a] = "write"]
                         /\ \/ again /\ retry # NoBatch /\ retry' = NoBatch /\ queue' = queue
                            \/ ~again /\ retry = NoBatch /\ retry' = NoBatch
                               /\ queue # <<>> /\ queue' = <<>>
  <2>1. CASE TakeRetry(a)
    BY <2>1, Zenon DEF TakeRetry, HandToThread
  <2>2. CASE TakeQueue(a)
    BY <2>2, Zenon DEF TakeQueue, HandToThread, Drain
  <2> QED
    BY <2>1, <2>2, Zenon DEF TakeBatch
<1>3. \A v \in Workers : thread'[v] = IF v = w THEN Queued(a, b, again) ELSE thread[v]
  BY <1>2, SettledFacts, Zenon
<1>4. \A c \in Actors : pc'[c] = IF c = a THEN "write" ELSE pc[c]
  BY <1>2, SettledFacts, Zenon
<1>5. \A v \in Workers : ~Attached(v)
  BY <1>1, SettledFacts, Zenon DEF LockFree
<1>6. /\ Queued(a, b, again).owner = a /\ Queued(a, b, again).again = again
      /\ a # Detached
  BY SettledFacts DEF Queued, Detached
<1>7. \A v \in Workers : Attached(v)' => /\ thread'[v].owner = a
                                         /\ Extra(v)' = IF again THEN 0 ELSE 1
  BY <1>3, <1>5, <1>6, Zenon DEF Attached, Extra
<1>8. /\ ~closed => rounds["run"] = 0
      /\ closed => Work = 0 \/ rounds[a] + Work <= 4
  BY <1>1 DEF SInv, RoundsEnough
<1>9. rounds[a] \in Int
  BY SettledFacts, Zenon
<1>10. closed => rounds[a] + Work' + (IF again THEN 0 ELSE 1) <= 3
  BY <1>2, <1>8, <1>9 DEF Work
<1>11. \A c \in Actors : pc[c]' \notin {"round", "lock"}
  BY <1>1, <1>4, OneDrains
<1>12. RoundsEnough'
  BY <1>1, <1>7, <1>8, <1>10, <1>11, Zenon DEF RoundsEnough
<1>13. DrainedClean'
  <2>1. ~Settled
    BY <1>2, Zenon DEF Settled
  <2>2. /\ \A s \in {"round", "done", "cancelled"} : \A c \in Actors : pc'[c] = s => pc[c] = s
        /\ pc["close"] = "done" => pc'["close"] = "done"
        /\ "run" \in Actors /\ "close" \in Actors
    BY <1>1, <1>4, SettledFacts
  <2> QED
    BY <1>1, <2>1, <2>2 DEF SInv, DrainedClean
<1> QED
  BY <1>12, <1>13 DEF SInv

LEMMA ResumeSettles ==
  ASSUME SInv, VInv', NEW a \in Actors, ResumeWrite(a)
  PROVE  SInv'
<1>1. /\ pc[a] = "write" /\ AfterRound(a)
      /\ UNCHANGED <<queue, content, closed, timedOut, terminated>>
  BY Zenon DEF ResumeWrite, lists, life
<1>2. PICK w \in Workers :
        /\ thread[w].owner = a /\ thread' = [thread EXCEPT ![w] = IdleThread]
        /\ retry' = retry \/ (~thread[w].again /\ retry' # NoBatch)
  <2>1. PICK w \in Workers :
          /\ thread[w].owner = a /\ thread' = [thread EXCEPT ![w] = IdleThread]
          /\ retry' = retry \/ KeepOrLose(thread[w].batch, thread[w].again)
    BY Zenon DEF ResumeWrite
  <2>2. thread[w].batch \in Batches /\ thread[w].batch # NoBatch
    <3>1. Attached(w) /\ NoBatch \notin Batches
      BY <2>1, SinkAssumption, SettledFacts DEF Attached, Detached, NoBatch
    <3> QED
      BY <3>1, Known, Zenon DEF SInv
  <2> QED
    BY <2>1, <2>2, Zenon DEF KeepOrLose
<1>3. Attached(w) /\ retry = NoBatch
  BY <1>2, SettledFacts DEF Attached, Detached
<1>4. \A v \in Workers : ~Attached(v)'
  <2>1. \A v \in Workers : Attached(v) => v = w
    BY <1>3, Zenon DEF SInv, VInv, HInv, Alone
  <2>2. \A v \in Workers : thread'[v] = IF v = w THEN IdleThread ELSE thread[v]
    BY <1>2, SettledFacts, Zenon
  <2> QED
    BY <2>1, <2>2, IdleThreadType, Zenon DEF Attached
<1>5. \A c \in Actors : c # a => pc[c] \notin {"round", "lock", "write"}
  BY <1>1, OneDrains
<1>6. /\ rounds[a] \in Int /\ (a = "close" => closed) /\ ~Settled
      /\ ~closed => rounds[a] = 0 /\ a = "run" /\ rounds["run"] = 0
      /\ closed => Work + Extra(w) = 0 \/ rounds[a] + Work + Extra(w) <= 3
      /\ Extra(w) \in 0..1 /\ Work \in Int /\ Work >= 0
  BY <1>1, <1>2, <1>3, SettledFacts DEF SInv, VInv, Control, FlushesItself, RoundsEnough, Settled
<1>7. /\ Work' \in Int /\ Work' <= Work + Extra(w)
      /\ Work + Extra(w) = 0 => Work' = 0
  <2>1. Extra(w) = 0 => thread[w].again
    BY DEF Extra
  <2>2. CASE retry' = retry
    BY <1>1, <1>6, <2>2 DEF Work
  <2>3. CASE ~thread[w].again /\ retry' # NoBatch
    BY <1>1, <1>3, <1>6, <2>3 DEF Work, Extra
  <2> QED
    BY <1>2, <2>2, <2>3
<1>8. /\ \A c \in Actors : c # a => pc'[c] = pc[c] /\ rounds'[c] = rounds[c]
      /\ IF closed THEN pc'[a] = "round" /\ rounds'[a] = rounds[a] + 1
                   ELSE pc'[a] = "sleep" /\ rounds'[a] = 0
  BY <1>1, <1>6, SettledFacts DEF AfterRound
<1>9. /\ ~closed' => rounds'["run"] = 0
      /\ \A c \in Actors : closed' /\ pc[c]' \in {"round", "lock"} => Work' = 0 \/ rounds[c]' + Work' <= 4
  BY <1>1, <1>5, <1>6, <1>7, <1>8
<1>10. RoundsEnough'
  BY <1>4, <1>9, Zenon DEF RoundsEnough
<1>11. DrainedClean'
  <2>1. pc[a] # "cancelled" /\ pc[a] # "done" /\ "run" \in Actors /\ "close" \in Actors
    BY <1>1, SettledFacts
  <2> QED
    BY <1>1, <1>6, <1>8, <2>1 DEF SInv, DrainedClean
<1> QED
  BY <1>10, <1>11 DEF SInv

LEMMA TimeOutSettles ==
  ASSUME SInv, VInv', CloseTimesOut
  PROVE  SInv'
<1>1. timedOut' /\ terminated' = terminated /\ pc["close"] # "done"
  BY DEF CloseTimesOut
<1>2. ~terminated'
  BY <1>1 DEF SInv, DrainedClean
<1> QED
  BY <1>1, <1>2, HurriedSettles, Zenon

LEMMA SettledInit == Flushers = {} /\ Rounds >= 3 /\ Init => SInv
<1> SUFFICES ASSUME Flushers = {}, Rounds >= 3, Init PROVE SInv
  OBVIOUS
<1>1. VInv
  BY LedgerInit
<1>2. /\ "run" \in Actors /\ "close" \in Actors
      /\ \A w \in Workers : ~Attached(w)
  BY IdleThreadType, Zenon DEF Init, Actors, Attached
<1>3. RoundsEnough /\ DrainedClean
  BY <1>2 DEF Init, RoundsEnough, DrainedClean
<1> QED
  BY <1>1, <1>3 DEF SInv

LEMMA SettledNext == SInv /\ [Next]_vars => SInv'
<1> SUFFICES ASSUME SInv, [Next]_vars PROVE SInv'
  OBVIOUS
<1>1. VInv' /\ Flushers = {}
  BY LedgerNext DEF SInv, VInv
<1>2. CASE LoopStep
  <2>1. ASSUME NEW a \in Actors, TakeBatch(a)
        PROVE  SInv'
    BY <1>1, <2>1, NothingSettles, TakeSettles, Zenon
  <2> QED
    BY <1>1, <1>2, <2>1, SubmitSettles, StartSettles, WakeSettles, RoundSettles, ResumeSettles,
       TerminateSettles, Zenon DEF LoopStep
<1>3. CASE \E l \in Lines : SubmitOnLoop(l) \/ SubmitOffLoop(l)
  BY <1>1, <1>3, SubmitSettles, Zenon
<1>4. CASE \E w \in Workers : ThreadStep(w)
  BY <1>1, <1>4, WorkerSettles, Zenon
<1>5. CASE CloseBegin
  BY <1>1, <1>5, BeginSettles, Zenon
<1>6. CASE CloseTimesOut
  BY <1>1, <1>6, TimeOutSettles, Zenon
<1>7. CASE LoopEnds \/ UNCHANGED vars
  BY <1>1, <1>7, EndSettles, Zenon
<1>8. CASE \E f \in Flushers : FlushCall(f) \/ CancelFlush(f)
  BY <1>1, <1>8
<1> QED
  BY <1>2, <1>3, <1>4, <1>5, <1>6, <1>7, <1>8, Zenon DEF Next

LEMMA SettledIsAccounted == SInv => CleanCloseSettlesAll
<1> SUFFICES ASSUME SInv, terminated, ~timedOut
             PROVE  Members(accepted) \subseteq Members(landed) \cup failed
  BY DEF CleanCloseSettlesAll
<1>1. Settled
  BY DEF SInv, DrainedClean
<1>2. ASSUME NEW l, Holds(l) PROVE FALSE
  BY <1>1, <1>2 DEF Settled, Holds, Members
<1>3. \A l : l \notin InMemory
  BY <1>2, InMemoryIs, Zenon
<1> QED
  BY <1>3, Zenon DEF SInv, VInv, NothingVanishes

\* Without callers of flush() and with three rounds or more (the code has 64), a
\* close() that did not run out of time leaves every line taken in a file or
\* counted as failed: the drain ends because nothing is left.
THEOREM CleanCloseLeavesNothing ==
  Flushers = {} /\ Rounds >= 3 => (Spec => []CleanCloseSettlesAll)
<1> SUFFICES ASSUME Flushers = {}, Rounds >= 3
             PROVE  Spec => []CleanCloseSettlesAll
  OBVIOUS
<1>1. Init => SInv
  BY SettledInit
<1>2. SInv /\ [Next]_vars => SInv'
  BY SettledNext
<1>3. SInv => CleanCloseSettlesAll
  BY SettledIsAccounted
<1> QED
  BY <1>1, <1>2, <1>3, PTL DEF Spec
=============================================================================
