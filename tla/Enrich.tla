------------------------------- MODULE Enrich -------------------------------
(***************************************************************************)
(* enrich(): the document completed with what the handler annotated        *)
(* (semantic/enrich.py, with context.py, query.py and proxies.py).         *)
(*                                                                         *)
(* A bag is what the handler's calls of the audit facade left: target (an  *)
(* id or None), detail, before and after (mappings or None), query (the    *)
(* clauses, each [field, val]), and text, the rendering of the query:      *)
(* "default", "own" or None.                                               *)
(***************************************************************************)
EXTENDS Document

CONSTANTS
  Bags,          \* what handlers leave
  Targets,       \* where the event's definition takes the target's id from
  MAX_BAG_KEYS,  \* distinct keys of one structure of a bag
  MAX_BAG_NODES, \* its size, as nodes
  MAX_DIFF,      \* entries of a diff
  Trusted,       \* addresses of trusted proxies
  Invalid        \* what does not parse as an address

ASSUME BagAssumption == {MAX_BAG_KEYS, MAX_BAG_NODES, MAX_DIFF} \subseteq Nat

vars == docVars

-----------------------------------------------------------------------------
(* The bag.                                                                *)

\* bounded(): redacted, or a marker when it has too many keys or is too large.
Bounded(v) ==
  LET out == redact(v, MAX_BAG_KEYS)
  IN IF out = None THEN Obj(<<[key |-> <<"_truncated">>, val |-> Str("true")]>>)
     ELSE IF Nodes(out) > MAX_BAG_NODES
          THEN Obj(<<[key |-> <<"_truncated">>, val |-> Str("true")]>>)
     ELSE out

KeysOf(obj) == IF obj = None THEN {} ELSE {e.key : e \in Range(obj.items)}
ValueOf(obj, key) == IF obj = None THEN None ELSE Get(obj, key)

\* compute_diff: the keys whose values differ, with the raw values.
Diff(before, after) ==
  LET changed == {k \in KeysOf(before) \cup KeysOf(after) :
                    ValueOf(before, k) # ValueOf(after, k)}
  IN [k \in changed |-> [old |-> ValueOf(before, k), new |-> ValueOf(after, k)]]

Redacted(v) == IF v = None THEN None ELSE redact(v, None)

RedactedDiff_InsideOnly(diff) ==
  [k \in DOMAIN diff |-> [old |-> Redacted(diff[k].old), new |-> Redacted(diff[k].new)]]

\* _redacted_diff: by the entry's own name, or inside its values.
RedactedDiff(diff) ==
  LET shown == CHOOSE s \in SUBSET DOMAIN diff :
                 Cardinality(s) = SmallerOf(MAX_DIFF, Cardinality(DOMAIN diff))
      hide(v) == IF v = None THEN None ELSE REDACTED
  IN [k \in shown |->
        IF k.name \in Denylist
        THEN [old |-> hide(diff[k].old), new |-> hide(diff[k].new)]
        ELSE [old |-> Redacted(diff[k].old), new |-> Redacted(diff[k].new)]]

\* _target_id: from the redacted document, or from the raw detail.
TargetId(source, bag) ==
  CASE source.where = "path"   -> Get(doc.params, source.key.text)
    [] source.where = "query"  -> LET v == Get(doc.query, source.key.text)
                                  IN IF v = None THEN None
                                     ELSE IF v.kind = "list" THEN v.items[1] ELSE v
    [] source.where = "detail" -> IF bag = None THEN None
                                  ELSE IF source.key.name \in Denylist THEN REDACTED
                                  ELSE Redacted(ValueOf(bag.detail, source.key))
    [] OTHER                   -> None

\* _query: the clauses, and the default rendering made again when it shows a
\* denied value; a caller's own text stays as it is.
RedactedQuery(bag) ==
  LET show(c) == IF c.field.name \in Denylist THEN REDACTED ELSE c.val
  IN [clauses |-> [i \in DOMAIN bag.query |-> show(bag.query[i])],
      text    |-> CASE bag.text = "default" -> [i \in DOMAIN bag.query |-> show(bag.query[i])]
                    [] bag.text = "own"     -> <<Str("own")>>
                    [] bag.text = None      -> <<>>]

-----------------------------------------------------------------------------
(* The client's address.                                                   *)

IsTrusted(a) == a \in Trusted

\* X-Forwarded-For as it arrives: what the sender wrote, and behind it, from each
\* proxy, the address that called it.
Forwarded(req) == IF req.route = <<>> THEN req.wrote ELSE req.wrote \o Front(req.route)

\* Hops that do not parse are skipped.
Hops(req) == SelectSeq(Forwarded(req), LAMBDA a : a \notin Invalid)

ResolveClient_First(req) ==
  IF Peer(req) = None \/ ~IsTrusted(Peer(req)) \/ Hops(req) = <<>>
  THEN Peer(req) ELSE Hops(req)[1]

\* resolve_client_ip: the chain from the right, past trusted hops.
ResolveClient(req) ==
  LET hops == Hops(req)
      untrusted == {i \in DOMAIN hops : ~IsTrusted(hops[i])}
      last == CHOOSE i \in untrusted : \A j \in untrusted : j <= i
  IN IF Peer(req) = None \/ ~IsTrusted(Peer(req)) THEN Peer(req)
     ELSE IF untrusted # {} THEN hops[last]
     ELSE IF hops # <<>> THEN hops[1]
     ELSE IF req.real # None /\ req.real \notin Invalid THEN req.real
     ELSE Peer(req)

-----------------------------------------------------------------------------
\* render(): the values the sentence may hold, for a template names the actor, the
\* target or any entry of the detail, and the diff comes behind it.
Message(target, detail, diff) ==
  LET named == {f \in {"id", "name"} : doc.user # None /\ f \in DOMAIN doc.user}
  IN {doc.user[f] : f \in named} \cup {target, detail}
     \cup {diff[k].old : k \in DOMAIN diff} \cup {diff[k].new : k \in DOMAIN diff}

\* enrich(): adds to the document in hand; the minimal one is left alone.
Complete(source, bag) ==
  LET none == bag = None
      target == IF ~none /\ bag.target # None THEN bag.target ELSE TargetId(source, bag)
      detail == IF none THEN None ELSE IF bag.detail = None THEN None ELSE Bounded(bag.detail)
      diff == IF none THEN <<>> ELSE RedactedDiff(Diff(bag.before, bag.after))
  IN [target  |-> target,
      detail  |-> detail,
      diff    |-> diff,
      message |-> Message(target, detail, diff),
      before  |-> IF none THEN None ELSE IF bag.before = None THEN None ELSE Bounded(bag.before),
      after   |-> IF none THEN None ELSE IF bag.after = None THEN None ELSE Bounded(bag.after),
      query   |-> IF none THEN [clauses |-> <<>>, text |-> <<>>] ELSE RedactedQuery(bag)]

Enrich(source, bag) ==
  /\ doc # None /\ ~doc.minimal /\ doc.enriched = None
  /\ doc' = [doc EXCEPT !.enriched = Complete(source, bag),
                        !.client = ResolveClient(doc.req)]
  /\ UNCHANGED <<bodies, queries, built>>

Init == DocInit

Next ==
  \/ \E req \in Requests : Build(req)
  \/ \E source \in Targets, bag \in Bags : Enrich(source, bag)
  \/ Submit

Spec == Init /\ [][Next]_vars

-----------------------------------------------------------------------------
(* Properties.                                                             *)

Present(S) == S \ {None}

Shown(v) == IF v = None THEN {} ELSE Leaves(v)

Denied(k) == k.name \in Denylist

\* A denied name that redact() emitted in another spelling.
OtherSpelling(c) == Denied(c.name) /\ Get(doc.query, c.name.text) = None

\* url.query, but for what _query() does not find in the redacted mapping.
UrlTexts == {c.val : c \in {d \in Present(Range(doc.url)) : ~OtherSpelling(d)}}

\* Every text of the document that came from the client, the application or the
\* handler, but for text no key can be found in: the path (README.md:288), the
\* headers on the allowlist, a body that did not parse, prose (FR-28).
Texts ==
  LET e == doc.enriched
      block == doc.body
      added == IF e = None THEN {}
               ELSE Shown(e.target) \cup Shown(e.detail) \cup Shown(e.before) \cup Shown(e.after)
                    \cup UNION {Shown(e.diff[k].old) \cup Shown(e.diff[k].new) : k \in DOMAIN e.diff}
                    \cup UNION {Shown(v) : v \in e.message}
                    \cup Range(e.query.clauses) \cup Range(e.query.text)
  IN UrlTexts
     \cup (IF doc.user = None THEN {} ELSE UNION {Shown(doc.user[f]) : f \in DOMAIN doc.user})
     \cup Shown(doc.query) \cup Shown(doc.params) \cup Shown(block.body)
     \cup (IF block.body_raw = None THEN {}
           ELSE {t.val : t \in {u \in Range(block.body_raw) : u.shape # "prose"}})
     \cup (IF block.multipart = None THEN {} ELSE Shown(block.multipart.parts))
     \cup added

\* A value sent or annotated under a denied name reaches no field of the
\* document (FR-10 to FR-14, redact.py:713, enrich.py:96-170): not in a nested
\* structure, a repeated name, a file name, a diff, the target's id, the user, the
\* sentence or a text rendered from it.  There is one exception: in url.query a
\* denied name that redact() writes in another spelling keeps the value the client
\* sent (document.py:549).  Text that UTF-8 cannot carry reaches no field either.
NothingDeniedShows ==
  doc # None => Texts \cap {Str("secret"), Str("surrogate")} = {}

\* "url.query is where FR-14 replaces denylisted values in the raw string"
\* (document.py:427), without the exception.
UrlShowsNothingDenied ==
  doc # None => Str("secret") \notin {c.val : c \in Present(Range(doc.url))}

\* The raw query string and the parsed one say the same (document.py:507-558):
\* name by name, in order, wherever the name is emitted as it was sent.
QueryViewsAgree ==
  doc # None /\ doc.query_skipped = None =>
    LET raw == SelectSeq(doc.url, LAMBDA c : c # None) IN
    \A i \in DOMAIN raw :
      LET k == raw[i].name
          same == SelectSeq(SubSeq(raw, 1, i), LAMBDA c : c.name = k)
          v == Get(doc.query, k.text)
      IN v # None =>
           \/ Denied(k) /\ raw[i].val = REDACTED /\ v = REDACTED
           \/ v.kind = "list" /\ v.items[Len(same)] = raw[i].val
           \/ v = raw[i].val

\* One of body, body_raw and body_skipped is there, and a value the client sent
\* is in the place it was sent to, replaced by a marker there, or the document
\* says that this part was skipped, cut or not parsed.
LossIsSaid ==
  doc # None /\ ~doc.minimal =>
    LET b == doc.body
        req == doc.req
        kept(sent, v) == \A x \in sent \ {Str("secret"), Str("surrogate")} :
                           x \in Shown(v) \/ Shown(v) \cap {REDACTED, TRUNCATED} # {}
        sentPairs == {c.val : c \in Present(Range(req.query))}
    IN /\ Cardinality({f \in {"body", "body_raw", "body_skipped"} : b[f] # None}) = 1
       /\ doc.query_skipped = None => kept(sentPairs, doc.query)
       /\ b.body # None /\ req.type = "json" => kept(Leaves(req.body.value), b.body)
       /\ b.body # None /\ req.type = "form" =>
            kept({c.val : c \in Present(Range(req.body.comps))}, b.body)
       /\ b.body_raw # None /\ req.type = "json" =>
            b.parse_failed /\ (req.body.size > MaxUnparsed => b.truncated)
       /\ req.truncated => b.truncated
       /\ b.multipart # None /\ req.body.boundary =>
            (b.multipart.complete =>
               b.multipart.count = Cardinality({i \in DOMAIN req.body.parts : req.body.parts[i].headed}))

\* The counters tell of every document whose body or query was left out, and of
\* nothing but those and the ones that were never finished (document.py:923).
SkipsCounted ==
  LET now(skip) == IF doc # None /\ ~doc.minimal /\ skip THEN 1 ELSE 0
      unfinished == built.minimal + (IF doc # None /\ doc.minimal THEN 1 ELSE 0)
      b == built.bodies + now(doc # None /\ doc.body.body_skipped \in Counted)
      q == built.queries + now(doc # None /\ doc.query_skipped # None)
  IN /\ bodies \in b..(b + unfinished)
     /\ queries \in q..(q + unfinished)

\* What is not in the document is said there to be missing (FR-30), and what is
\* said to be skipped is counted, once (document.py:894-900, 923).
LossIsFlagged == LossIsSaid /\ SkipsCounted

\* What the index declares as an object is one, and a user's fields are scalars
\* or lists of them (FR-09, FR-31): anything else loses the whole document.
FitsTheMapping ==
  doc # None =>
    /\ doc.query.kind = "obj" /\ doc.params.kind = "obj"
    /\ doc.body.body # None => doc.body.body.kind = "obj"
    /\ doc.user # None =>
         \A f \in DOMAIN doc.user :
           IF f = "roles" THEN doc.user[f].kind = "list" /\ \A r \in Range(doc.user[f].items) : Scalar(r)
           ELSE Scalar(doc.user[f])

\* A client cannot choose the address it is recorded under (FR-46,
\* proxies.py:65-88).  Each trusted proxy appends the address that called it, so a
\* sender that is not trusted itself is recorded under the address it called from,
\* whatever it wrote into the headers and however many trusted proxies it went
\* through; so is a trusted one that names nobody else.
ClientIsNotClaimed ==
  doc # None /\ doc.enriched # None /\ doc.req.route # <<>> =>
    LET req == doc.req
        sender == Head(req.route)
    IN \/ doc.client = sender
       \/ IsTrusted(sender) /\ (req.wrote # <<>> \/ req.real # None)
=============================================================================
