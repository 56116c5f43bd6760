------------------------------ MODULE Shipment ------------------------------
(***************************************************************************)
(* What the shipper does to a document on its way to Elasticsearch (_stamp *)
(* and _mark_skew), and what the check command undoes before it verifies   *)
(* the chains of what is there (_unship).                                  *)
(*                                                                         *)
(* A document is a record; the fields named here are its tags, whether     *)
(* audit.clock_skew_ms is there, and its data stream.  event.ingested is   *)
(* not part of what is hashed.                                             *)
(***************************************************************************)
EXTENDS Sequences, SequencesExt

SKEW == "clock_skew"

\* _mark_skew, for a document that took longer than max_clock_skew_s.
MarkSkew(doc) ==
  [doc EXCEPT !.skewed = TRUE,
              !.tags = IF Contains(@, SKEW) THEN @ ELSE Append(@, SKEW)]

\* _stamp: the data stream is the one this process ships to now.
ShippedAs(doc, late, stream) ==
  [(IF late THEN MarkSkew(doc) ELSE doc) EXCEPT !.stream = stream]

WithoutLast(s, x) ==
  LET at == {i \in DOMAIN s : s[i] = x}
      last == CHOOSE i \in at : \A j \in at : j <= i
  IN IF at = {} THEN s ELSE RemoveAt(s, last)

\* _unship; a list of tags that comes out empty is no list at all.
Unship(doc) ==
  IF doc.skewed THEN [doc EXCEPT !.skewed = FALSE, !.tags = WithoutLast(@, SKEW)] ELSE doc
=============================================================================
