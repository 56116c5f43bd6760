-------------------------------- MODULE Chain --------------------------------
(***************************************************************************)
(* The hash chain: Chain.stamp and verify.  A hash is the tuple of what is *)
(* hashed, so that hashes are equal when all of it is.                     *)
(***************************************************************************)
EXTENDS Integers, Sequences, SequencesExt, FiniteSets

\* A document without an integrity block.
Unstamped == <<>>

GENESIS == <<>>

NewChain(id, born) == [id |-> id, seq |-> 0, prev |-> GENESIS, born |-> born]

Hash(id, seq, prev, content) == <<id, seq, prev, content>>

\* A chain built before a fork gets an identity of its own.
Reborn(chain, pid, id) == IF chain.born = pid THEN chain ELSE NewChain(id, pid)

Integrity(chain, content) ==
  [chain |-> chain.id, seq |-> chain.seq + 1, prev_hash |-> chain.prev,
   hash |-> Hash(chain.id, chain.seq + 1, chain.prev, content)]

After_SeqOnly(chain, content) == [chain EXCEPT !.seq = @ + 1]

\* stamp: the chain after the document; hashing comes before any change.
After(chain, content) ==
  [chain EXCEPT !.seq = @ + 1, !.prev = Integrity(chain, content).hash]

-----------------------------------------------------------------------------
(* verify.  A document is [content, integ]; one without integ is ignored.  *)

Checked_WithoutLinks(acc, d) ==
  LET i == d.integ
      mismatch == IF i.hash = Hash(i.chain, i.seq, i.prev_hash, d.content) THEN {}
                  ELSE {<<i.seq, "hash mismatch">>}
      seq == IF i.seq = acc.expected THEN {}
             ELSE {<<i.seq, IF i.seq < acc.expected THEN "seq repeat" ELSE "seq gap">>}
  IN [acc EXCEPT !.expected = i.seq + 1, !.broken = @ \cup mismatch \cup seq]

\* One entry of a chain in order of seq: what is wrong with it, and the anchor
\* for the next one.
Checked(acc, d) ==
  LET i == d.integ
      mismatch == IF i.hash = Hash(i.chain, i.seq, i.prev_hash, d.content) THEN {}
                  ELSE {<<i.seq, "hash mismatch">>}
  IN IF i.seq < acc.expected
     THEN [acc EXCEPT !.broken = @ \cup mismatch \cup {<<i.seq, "seq repeat">>}]
     ELSE [expected |-> i.seq + 1,
           prev     |-> i.hash,
           broken   |-> acc.broken \cup mismatch
             \cup (CASE i.seq > acc.expected -> {<<i.seq, "seq gap">>}
                     [] i.seq = acc.expected /\ i.prev_hash # acc.prev ->
                          {<<i.seq, "prev mismatch">>}
                     [] OTHER -> {})]

\* Where the walk of a chain starts: at its beginning, or at what is left of it.
Anchor(first) ==
  [expected |-> first.seq,
   prev     |-> IF first.seq > 1 THEN first.prev_hash ELSE GENESIS,
   broken   |-> {}]

StampedAt(docs) == {i \in DOMAIN docs : docs[i].integ # Unstamped}
Chains(docs) == {docs[i].integ.chain : i \in StampedAt(docs)}
Entries(docs, id) == {i \in StampedAt(docs) : docs[i].integ.chain = id}

\* The order of entries.sort(key=seq), which leaves equal ones as they came.
InOrder(docs, i, j) ==
  \/ docs[i].integ.seq < docs[j].integ.seq
  \/ docs[i].integ.seq = docs[j].integ.seq /\ i <= j

FirstOf(docs, S) == CHOOSE i \in S : \A j \in S : InOrder(docs, i, j)
LastOf(docs, S) == CHOOSE i \in S : \A j \in S : InOrder(docs, j, i)

\* The walk over a chain: each entry is checked after the ones before it.
Broken(docs, id) ==
  LET S == Entries(docs, id) IN
  MapThenFoldSet(LAMBDA d, acc : Checked(acc, d), Anchor(docs[FirstOf(docs, S)].integ),
                 LAMBDA i : docs[i], LAMBDA T : LastOf(docs, T), S).broken

\* Whether verify finds the documents in order.
Verifies(docs) == \A id \in Chains(docs) : Broken(docs, id) = {}
=============================================================================
