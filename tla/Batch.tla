-------------------------------- MODULE Batch --------------------------------
(***************************************************************************)
(* What the sink's writer does with a batch between the queue and the      *)
(* file: enrich (Enricher), stamp in file order (Chain), write, and keep   *)
(* what did not land for one retry, which is neither enriched nor stamped  *)
(* again.  The process may die and start again with a chain of its own,    *)
(* and perhaps another data stream.  What is in the file is also what the  *)
(* shipper sends, so verify can be asked about either.                     *)
(*                                                                         *)
(* FileSink models the queue and the bounds; here documents come in the    *)
(* order of their numbers.                                                 *)
(***************************************************************************)
EXTENDS Enricher, Chain, Shipment

CONSTANTS
  Documents,    \* the documents in the order they are drained: id and key
  Unhashable,   \* ids of those whose canonical form cannot be encoded
  BatchSizes,   \* how many documents may be waiting when a batch is taken
  MaxStarts,    \* bound on starts of the process
  Stream        \* the data stream that each start is configured with

ASSUME BatchAssumption ==
  /\ Documents \in Seq(Range(Documents))
  /\ BatchSizes \subseteq Nat \ {0} /\ MaxStarts \in Nat \ {0}
  /\ DOMAIN Stream = 1..MaxStarts

VARIABLES
  drained,   \* documents taken from the queue so far
  writer,    \* the batch in hand: its lines, whether it is a retry, and the phase
  retry,     \* _retry
  chain,     \* the Chain object
  disk,      \* the lines of the file, the oldest first
  missing,   \* chain and seq of stamped lines that never reached the file
  starts

bvars == <<drained, writer, retry, chain, disk, missing, starts>>
vars == <<evars, bvars>>

NoBatch == [phase |-> "idle", docs |-> <<>>, lines |-> <<>>, again |-> FALSE]

\* The first process is forked from the one that built its chain.
Init ==
  /\ EnricherInit
  /\ drained = 0 /\ writer = NoBatch /\ retry = <<>>
  /\ chain = NewChain(0, 0)
  /\ disk = <<>> /\ missing = {} /\ starts = 1

\* A line as it is written: what was hashed is what it holds (of the patch, only
\* whether it is missing).
Line(doc, out, integ) ==
  [content |-> [id |-> doc.id, tags |-> IF out.tag THEN <<"enrich_timeout">> ELSE <<>>,
                skewed |-> FALSE, stream |-> Stream[starts]],
   integ |-> integ]

Upcoming(n) == SubSeq(Documents, drained + 1, drained + n)

\* The enricher is closed after the sink, which flushes no more by then.
MayFlush == writer.phase = "idle" /\ closing = "no"

\* _flush_once without a retry in hand: the batch is for the hooks, in a thread.
Drain(n) ==
  /\ MayFlush /\ retry = <<>> /\ drained + n <= Len(Documents)
  /\ writer' = [NoBatch EXCEPT !.phase = "starting", !.docs = Upcoming(n)]
  /\ drained' = drained + n
  /\ UNCHANGED <<evars, retry, chain, disk, missing, starts>>

Begin ==
  /\ writer.phase = "starting"
  /\ Enter(writer.docs)
  /\ writer' = [writer EXCEPT !.phase = "preparing"]
  /\ UNCHANGED <<drained, retry, chain, disk, missing, starts>>

\* Cancelled before its thread began: the lines are parked as they are.  A flush
\* cancelled later parks a list that its thread goes on stamping and writing;
\* FileSink has that one (NoLineTwice), here it is left out.
Cancelled ==
  /\ writer.phase = "starting"
  /\ retry' = [i \in DOMAIN writer.docs |-> Line(writer.docs[i], Unpatched, Unstamped)]
  /\ writer' = NoBatch
  /\ UNCHANGED <<evars, drained, chain, disk, missing, starts>>

\* One turn of the stamping loop, in the order of the file: the document is stamped,
\* or left alone when it cannot be hashed, which comes after the fork check.
StampOne ==
  LET i == Len(writer.lines) + 1
      d == apply.docs[i]
      own == Reborn(chain, starts, starts)
      plain == Line(d, apply.out[i], Unstamped)
      stamped == [plain EXCEPT !.integ = Integrity(own, plain.content)]
  IN /\ writer.phase = "preparing" /\ apply.phase = "returned"
     /\ i <= Len(apply.docs)
     /\ chain' = IF d.id \in Unhashable THEN own ELSE After(own, plain.content)
     /\ writer' = [writer EXCEPT !.lines = Append(@, IF d.id \in Unhashable THEN plain ELSE stamped)]
     /\ UNCHANGED <<evars, drained, retry, disk, missing, starts>>

\* _prepare_batch returns.
Prepared ==
  /\ writer.phase = "preparing" /\ apply.phase = "returned"
  /\ Len(writer.lines) = Len(apply.docs)
  /\ writer' = [writer EXCEPT !.phase = "writing", !.docs = <<>>]
  /\ Return
  /\ UNCHANGED <<drained, retry, chain, disk, missing, starts>>

\* A retry is written as it was parked.
Retry ==
  /\ MayFlush /\ retry # <<>>
  /\ writer' = [NoBatch EXCEPT !.phase = "writing", !.lines = retry, !.again = TRUE]
  /\ retry' = <<>>
  /\ UNCHANGED <<evars, drained, chain, disk, missing, starts>>

Holes(lines) == {<<lines[i].integ.chain, lines[i].integ.seq>> : i \in StampedAt(lines)}

\* _write_batch and _keep_or_lose: the first n lines land.
Write(n) ==
  LET rest == SubSeq(writer.lines, n + 1, Len(writer.lines)) IN
  /\ writer.phase = "writing"
  /\ disk' = disk \o SubSeq(writer.lines, 1, n)
  /\ retry' = IF writer.again THEN <<>> ELSE rest
  /\ missing' = IF writer.again THEN missing \cup Holes(rest) ELSE missing
  /\ writer' = NoBatch
  /\ UNCHANGED <<evars, drained, chain, starts>>

\* The process dies with what it holds; the next one builds a chain of its own.
\* (It need not start again with nothing left to write.)
Restart ==
  /\ starts < MaxStarts /\ drained < Len(Documents)
  /\ starts' = starts + 1
  /\ chain' = NewChain(starts + 1, starts + 1)
  /\ missing' = missing \cup Holes(writer.lines) \cup Holes(retry)
  /\ writer' = NoBatch /\ retry' = <<>>
  /\ cache' = <<>> /\ jobs' = <<>> /\ apply' = Idle /\ closing' = "no" /\ errors' = 0
  /\ lookups' = <<>>
  /\ worker' = [w \in Workers |-> "absent"]
  /\ UNCHANGED <<now, drained, disk>>

Next ==
  \/ (PoolNext \/ ApplyNext) /\ UNCHANGED bvars
  \/ \E n \in BatchSizes : Drain(n)
  \/ Begin \/ Cancelled \/ StampOne \/ Prepared \/ Retry \/ Restart
  \/ \E n \in 0..Len(writer.lines) : Write(n)

\* The writer thread goes on; a wait ends when its time is over.  Workers and
\* lookups are under no obligation.
Spec == /\ Init /\ [][Next]_vars
        /\ WF_vars(ApplyNext /\ UNCHANGED bvars)

-----------------------------------------------------------------------------
(* Properties.                                                             *)

\* FR-55: a document carries the patch of a lookup for its own target (or for
\* itself when it has none), asked for this batch or within the cache's lifetime,
\* and never both a patch and the tag that says there is none.
PatchIsItsOwn ==
  apply.phase = "returned" => \A i \in DOMAIN apply.docs :
    LET out == apply.out[i] IN
    out.patch # None => /\ ~out.tag
                        /\ out.patch.for = Whom(apply.docs[i])
                        /\ out.patch.at = apply.now \/ apply.now - out.patch.at < TTL

\* What verify-chain reads back from Elasticsearch of these lines, shipped by the
\* process there is now, some of them late.
Retrieved(lines, late) ==
  [i \in DOMAIN lines |->
    [lines[i] EXCEPT !.content = Unship(ShippedAs(@, i \in late, Stream[starts]))]]

\* Whatever fails, is retried, is cancelled before its thread begins or dies on the
\* way, and however much retention has taken off the beginning, verify reports what is left as broken
\* exactly when a stamped line never reached the file between two that did; and it
\* says the same of what was shipped, however late, to the data stream it was
\* written for (integrity.py:102-147, check.py:375-397).  A flush cancelled while its
\* thread writes is outside: its lines may be in the file twice, which verify
\* reports as repeated numbers though nothing is lost.
VerifyTellsTheLosses ==
  \A n \in 1..(Len(disk) + 1) :
    LET left == SubSeq(disk, n, Len(disk))
        stayed == \A i \in DOMAIN left : left[i].content.stream = Stream[starts]
        kept(id) == {left[i].integ.seq : i \in Entries(left, id)}
        hole(id) == \E m \in missing : \E a, b \in kept(id) : m[1] = id /\ a < m[2] /\ m[2] < b
        complete == ~ \E id \in Chains(left) : hole(id)
    IN /\ Verifies(left) <=> complete
       /\ stayed => \A late \in {{}, DOMAIN left} : Verifies(Retrieved(left, late)) <=> complete

\* check.py:376, "Undo what the shipper adds at ship time (FR-41 skew) so the hash
\* matches the document as it was written": what verifies in the file verifies when it
\* is read back.
UnshipUndoes ==
  \A late \in {{}, DOMAIN disk} : Verifies(disk) => Verifies(Retrieved(disk, late))

Changed(content) == [content EXCEPT !.tags = Append(@, "changed")]
OtherContent(l) == [l EXCEPT !.content = Changed(@)]
Rehashed(l) ==
  LET i == l.integ
      new == OtherContent(l)
  IN [new EXCEPT !.integ.hash = Hash(i.chain, i.seq, i.prev_hash, new.content)]

\* The chain's purpose: once the documents verify, no stamped one can be
\* changed, be taken from between two others, or be stored twice, and none but
\* the last of a chain can be changed and hashed again, without verify saying so.
TamperingShows ==
  Verifies(disk) => \A i \in StampedAt(disk) :
    LET mine == disk[i].integ
        earlier == \E j \in Entries(disk, mine.chain) : disk[j].integ.seq < mine.seq
        later == \E j \in Entries(disk, mine.chain) : disk[j].integ.seq > mine.seq
    IN /\ ~Verifies([disk EXCEPT ![i] = OtherContent(@)])
       /\ ~Verifies(Append(disk, disk[i]))
       /\ earlier /\ later => ~Verifies(RemoveAt(disk, i))
       /\ later => ~Verifies([disk EXCEPT ![i] = Rehashed(@)])
=====================
